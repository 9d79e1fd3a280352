--------------------------- MODULE RemoteLogging ----------------------------
(***************************************************************************)
(* Assignment3: the log server, the simulator with its logger, and the UDP *)
(* sockets between them, started in any order.                             *)
(***************************************************************************)
EXTENDS Logger, SequencesExt

vars == <<sockets, server, client>>

Init == SocketsInit /\ ServerInit /\ ClientInit

Next == (ServerNext /\ UNCHANGED client) \/ (ClientNext /\ UNCHANGED server)

Spec == Init /\ [][Next]_vars

\* The threads are scheduled; nothing is assumed of the user and of SIGINT.
FairSpec ==
  /\ Spec
  /\ WF_vars(MenuStep /\ UNCHANGED client) /\ WF_vars(TakerStep /\ UNCHANGED client)
  /\ WF_vars(ListenerStep /\ UNCHANGED server)
  /\ WF_vars(SimStep /\ UNCHANGED server)
  /\ WF_vars(LeaveLoop /\ UNCHANGED server)

-----------------------------------------------------------------------------
TypeOK ==
  /\ bound \subseteq Ports
  /\ inbox["server"] \in Seq(LogMessages) /\ inbox["client"] \in Seq(Levels)
  /\ \A p \in Ports : Len(inbox[p]) <= BUFFER
  /\ menu \in {"start", "menu", "send", "sleep", "enter", "join", "close", "done"}
  /\ taker \in {"none", "test", "receive", "write", "exit"}
  /\ current_server_log_level \in Levels /\ shutdown_flag \in BOOLEAN
  /\ commands \in 0..MAX_COMMANDS
  /\ buffer \in LogMessages \cup {Blank} /\ server_log \in Seq(LogMessages)
  /\ sim \in DOMAIN After \cup {"start", "setLevel", "starting", "exiting", "joining",
                                "closing", "done"}
  /\ listener \in {"none", "test", "receive", "exit"}
  /\ isRunning \in BOOLEAN /\ listen_flag \in BOOLEAN /\ open \in BOOLEAN
  /\ log_level \in Levels
  /\ sending \in Seq(LogMessages) /\ Len(sending) <= 1
  /\ logged \in 0..MAX_LOGS /\ number \in 0..MAX_NUMBER /\ runs \in 1..MAX_RUNS
  /\ late \in Nat

\* A thread uses its socket only while it is open: both programs join the
\* thread before they close the descriptor (LogServer.cpp:195-199,
\* Logger.cpp:125-133).
SocketOutlivesThread ==
  /\ taker \in {"test", "receive", "write"} => "server" \in bound
  /\ listener \in {"test", "receive"} => "client" \in bound /\ open

\* The messages between their comparison and the log file, the oldest first.
UnderWay == (IF taker = "write" THEN <<buffer>> ELSE <<>>) \o inbox["server"] \o sending

\* The log is in order, across the two-step Log, the socket, the receive
\* thread, the file, and several runs of the client: what was logged earlier
\* stands earlier, and nothing stands there twice (Logger.cpp:98-123,
\* LogServer.cpp:84-90).
LogInOrder ==
  LET way == server_log \o UnderWay
  IN  \A j, k \in DOMAIN way : j < k => way[j].number < way[k].number

\* Logger.cpp:98-123, LogServer.cpp:84-90: from Log to the file there is an
\* ordered channel.  With UDP below it may lose messages at any time.  The
\* channel knows sets; LogInOrder says that no message is twice in the file.
Numbers(s) == {<<"log", s[k].number>> : k \in DOMAIN s}
Channel == INSTANCE OrderedChannel
             WITH Ways <- {"log"}, pending <- Numbers(UnderWay),
                  delivered <- Numbers(server_log), broken <- {"log"}
ImplementsChannel == Channel!Spec

\* Logger.cpp:98-101, 38-42: log_level changes between a message's comparison
\* and its sendto.  After the level was raised at most one message below it
\* is still sent.
AtMostOneLate == late <= 1

\* LogServer.cpp:122, "Set the log level (send 'Set Log Level=<n>' to client)":
\* a command that reached the client's socket takes effect while the
\* simulator is in its loop, however many follow it.
CommandTakesEffect ==
  \A l \in Levels :
    (Waiting("client") /\ Last(inbox["client"]) = l /\ sim = "running")
      ~> (log_level = l \/ sim # "running")

\* Shut down ends the server, whatever still waits at its socket
\* (LogServer.cpp:186-200).
ServerEnds == shutdown_flag ~> menu = "done"

\* SIGINT in the loop ends the simulator, its listener included, whatever
\* the server does (TravelSimulator.cpp:36, 92).
SimulatorEnds == (sim = "running" /\ ~isRunning) ~> sim = "done"
=============================================================================
