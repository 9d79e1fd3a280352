------------------------------- MODULE Logger -------------------------------
(***************************************************************************)
(* Assignment3/Logger.cpp in TravelSimulator.cpp.  The simulator's main    *)
(* thread logs to the server what is not below log_level; a listener       *)
(* thread takes new levels from the server.                                *)
(*                                                                         *)
(* sim      : start, setLevel, created, starting, running, reporting,      *)
(*            deleting, exiting, joining, closing, done                    *)
(* listener : none, test, receive, exit                                    *)
(* A Log call is two steps: the comparison with log_level, and sendto.     *)
(***************************************************************************)
EXTENDS LogServer

CONSTANTS MAX_RUNS,        \* bound: runs of the simulator
          MAX_LOGS         \* bound: messages logged in the loops of all runs

ASSUME LoggerAssumption ==
  MAX_RUNS \in Nat /\ MAX_LOGS \in Nat /\ 3 * MAX_RUNS + MAX_LOGS <= MAX_NUMBER

VARIABLES
  sim, listener,
  isRunning, listen_flag, log_level,
  open,        \* client_fd is a socket
  sending,     \* the messages, none or one, between the test and sendto
  logged,      \* Log calls in the loops of all runs
  number,      \* Log calls of all runs
  runs,
  late         \* messages sent below log_level since it was last set

client == <<sim, listener, isRunning, listen_flag, log_level, open, sending, logged,
            number, runs, late>>

ClientInit ==
  /\ sim = "start" /\ listener = "none"
  /\ isRunning = FALSE /\ listen_flag = FALSE /\ log_level = DEBUG /\ open = FALSE
  /\ sending = <<>> /\ logged = 0 /\ number = 0 /\ runs = 1 /\ late = 0

-----------------------------------------------------------------------------
(* The main thread.                                                        *)

\* socket, bind, and the listener, which runs from here on.
InitializeLog ==
  /\ sim = "start" /\ sim' = "setLevel"
  /\ Bind("client") /\ open' = TRUE
  /\ listen_flag' = TRUE /\ listener' = "test"
  /\ UNCHANGED <<isRunning, log_level, sending, logged, number, runs, late>>

\* socket or bind fails: client_fd is -1 and the program goes on without.
InitializeFails ==
  /\ sim = "start" /\ sim' = "setLevel"
  /\ UNCHANGED <<sockets, listener, isRunning, listen_flag, log_level, open, sending,
                 logged, number, runs, late>>

SetLogLevel ==
  /\ sim = "setLevel" /\ sim' = "created"
  /\ log_level' = DEBUG /\ late' = 0
  /\ UNCHANGED <<sockets, listener, isRunning, listen_flag, open, sending, logged,
                 number, runs>>

\* The levels that the program logs in each phase, and the phase after.
LogLevels(phase) == IF phase = "running" THEN {DEBUG, WARNING, ERROR} ELSE {DEBUG}
After == [created |-> "starting", running |-> "running", reporting |-> "deleting",
          deleting |-> "exiting"]

\* A fault: no comparison.
FaultyLogTest ==
  /\ sim \in DOMAIN After /\ sending = <<>> /\ sim' = After[sim]
  /\ sim = "running" => logged < MAX_LOGS
  /\ logged' = IF sim = "running" THEN logged + 1 ELSE logged
  /\ number' = number + 1
  /\ \E l \in LogLevels(sim) : sending' = <<[level |-> l, number |-> number + 1]>>
  /\ UNCHANGED <<sockets, listener, isRunning, listen_flag, log_level, open, runs, late>>

\* Log, until the comparison.
LogTest ==
  /\ sim \in DOMAIN After /\ sending = <<>> /\ sim' = After[sim]
  /\ sim = "running" => logged < MAX_LOGS
  /\ logged' = IF sim = "running" THEN logged + 1 ELSE logged
  /\ number' = number + 1
  /\ \E l \in LogLevels(sim) :
       sending' = IF l < log_level THEN <<>> ELSE <<[level |-> l, number |-> number + 1]>>
  /\ UNCHANGED <<sockets, listener, isRunning, listen_flag, log_level, open, runs, late>>

\* Log, from there on: formatting, and sendto if there is a socket.
LogSend ==
  /\ sending # <<>> /\ sending' = <<>>
  /\ IF open THEN SendTo("server", Head(sending)) ELSE UNCHANGED sockets
  /\ late' = IF Head(sending).level < log_level THEN late + 1 ELSE late
  /\ UNCHANGED <<sim, listener, isRunning, listen_flag, log_level, open, logged,
                 number, runs>>

\* isRunning becomes true only here, in front of the loop.
BeginLoop ==
  /\ sim = "starting" /\ sending = <<>> /\ sim' = "running" /\ isRunning' = TRUE
  /\ UNCHANGED <<sockets, listener, listen_flag, log_level, open, sending, logged,
                 number, runs, late>>

LeaveLoop ==
  /\ sim = "running" /\ sending = <<>> /\ ~isRunning /\ sim' = "reporting"
  /\ UNCHANGED <<sockets, listener, isRunning, listen_flag, log_level, open, sending,
                 logged, number, runs, late>>

\* A fault: the listener is not told.
FaultyExitLog ==
  /\ sim = "exiting" /\ sending = <<>> /\ sim' = "joining"
  /\ UNCHANGED <<sockets, listener, isRunning, listen_flag, log_level, open, sending,
                 logged, number, runs, late>>

\* ExitLog: the listener is told, joined, and only then the socket closed.
ExitLog ==
  /\ sim = "exiting" /\ sending = <<>> /\ sim' = "joining" /\ listen_flag' = FALSE
  /\ UNCHANGED <<sockets, listener, isRunning, log_level, open, sending, logged,
                 number, runs, late>>

\* A fault: the listener is detached.
FaultyJoinListener ==
  /\ sim = "joining" /\ sim' = "closing"
  /\ UNCHANGED <<sockets, listener, isRunning, listen_flag, log_level, open, sending,
                 logged, number, runs, late>>

JoinListener ==
  /\ sim = "joining" /\ listener \in {"none", "exit"} /\ sim' = "closing"
  /\ UNCHANGED <<sockets, listener, isRunning, listen_flag, log_level, open, sending,
                 logged, number, runs, late>>

CloseClient ==
  /\ sim = "closing" /\ sim' = "done" /\ open' = FALSE
  /\ IF open THEN Close("client") ELSE UNCHANGED sockets
  /\ UNCHANGED <<listener, isRunning, listen_flag, log_level, sending, logged, number,
                 runs, late>>

\* The user starts the simulator again: a new process.
RunAgain ==
  /\ sim = "done" /\ runs < MAX_RUNS /\ runs' = runs + 1
  /\ sim' = "start" /\ listener' = "none" /\ isRunning' = FALSE /\ listen_flag' = FALSE
  /\ log_level' = DEBUG /\ late' = 0
  /\ UNCHANGED <<sockets, open, sending, logged, number>>

\* SIGINT.
ShutdownHandler ==
  /\ sim \notin {"start", "done"} /\ isRunning' = FALSE
  /\ UNCHANGED <<sockets, sim, listener, listen_flag, log_level, open, sending, logged,
                 number, runs, late>>

-----------------------------------------------------------------------------
(* The listener.                                                           *)

ListenerTest ==
  /\ listener = "test" /\ listener' = IF listen_flag THEN "receive" ELSE "exit"
  /\ UNCHANGED <<sockets, sim, isRunning, listen_flag, log_level, open, sending,
                 logged, number, runs, late>>

\* A fault: level 0 is taken for "no level".
FaultyListenerReceive ==
  /\ listener = "receive" /\ listener' = "test"
  /\ IF Waiting("client")
     THEN /\ ReceiveFrom("client")
          /\ IF Oldest("client") > DEBUG
             THEN log_level' = Oldest("client") /\ late' = 0
             ELSE UNCHANGED <<log_level, late>>
     ELSE UNCHANGED <<log_level, late, sockets>>
  /\ UNCHANGED <<sim, isRunning, listen_flag, open, sending, logged, number, runs>>

\* recvfrom returns a command or, after a second, nothing.
ListenerReceive ==
  /\ listener = "receive" /\ listener' = "test"
  /\ IF Waiting("client")
     THEN log_level' = Oldest("client") /\ late' = 0 /\ ReceiveFrom("client")
     ELSE UNCHANGED <<log_level, late, sockets>>
  /\ UNCHANGED <<sim, isRunning, listen_flag, open, sending, logged, number, runs>>

-----------------------------------------------------------------------------
ListenerStep == ListenerTest \/ ListenerReceive
SimStep == \/ InitializeLog \/ InitializeFails \/ SetLogLevel \/ LogTest \/ LogSend
           \/ BeginLoop \/ LeaveLoop \/ ExitLog \/ JoinListener \/ CloseClient

ClientNext == SimStep \/ ListenerStep \/ RunAgain \/ ShutdownHandler
=============================================================================
