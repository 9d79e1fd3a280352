----------------------------- MODULE UnixStream -----------------------------
(***************************************************************************)
(* The AF_UNIX stream socket between networkMonitor and its intfMonitors,  *)
(* as the two programs use it.  This is kernel behaviour, external to the  *)
(* repository: what matters of it is that                                  *)
(*   - connect() completes when the connection enters the listen backlog,  *)
(*     long before the server accepts it;                                  *)
(*   - recv() returns every byte queued so far, so that two messages sent  *)
(*     in a row may be read as one (a queue is always read whole);         *)
(*   - an end closed with unread data, or closed while still in the        *)
(*     backlog, makes the peer's next recv() on an empty queue fail with   *)
(*     ECONNRESET; an end closed with nothing unread gives end of file;    *)
(*   - writing to a connection whose peer is closed raises SIGPIPE.        *)
(* One connection exists per monitor process, so the file descriptor of a  *)
(* connection is identified with the monitor at its other end.             *)
(***************************************************************************)
EXTENDS Integers, Sequences

CONSTANTS N,        \* number of intfMonitor processes
          BACKLOG   \* second argument of listen()

ASSUME UnixStreamAssumption == N \in Nat \ {0} /\ BACKLOG \in Nat

Monitors == 1..N

\* What the monitors write, and what the server writes.
Reports  == {"Ready", "Monitoring", "Link Down", "Done"}
Commands == {"Monitor", "Set Link Up", "Shut Down"}

VARIABLES
  listening,    \* the server's listening socket is open
  backlog,      \* connections that wait for accept(), oldest first
  client_end,   \* the monitor's end: "none", "open" or "closed"
  server_end,   \* the server's end: "none", "backlog", "open" or "closed"
  toServer,     \* bytes queued for the server, as a sequence of messages
  toClient,     \* bytes queued for the monitor
  reset         \* the monitor's next recv() on an empty queue is ECONNRESET

sockets == <<listening, backlog, client_end, server_end, toServer, toClient,
             reset>>

SocketsTypeOK ==
  /\ listening \in BOOLEAN
  /\ backlog \in Seq(Monitors)
  /\ client_end \in [Monitors -> {"none", "open", "closed"}]
  /\ server_end \in [Monitors -> {"none", "backlog", "open", "closed"}]
  /\ toServer \in [Monitors -> Seq(Reports)]
  /\ toClient \in [Monitors -> Seq(Commands)]
  /\ reset \in [Monitors -> BOOLEAN]

SocketsInit ==
  /\ listening = FALSE
  /\ backlog = <<>>
  /\ client_end = [m \in Monitors |-> "none"]
  /\ server_end = [m \in Monitors |-> "none"]
  /\ toServer = [m \in Monitors |-> <<>>]
  /\ toClient = [m \in Monitors |-> <<>>]
  /\ reset = [m \in Monitors |-> FALSE]

-----------------------------------------------------------------------------
(* The monitor's side.                                                     *)

\* A blocking connect() waits while the backlog holds more than BACKLOG
\* connections, and fails once nobody listens.
Connect(m) ==
  /\ listening
  /\ Len(backlog) <= BACKLOG
  /\ backlog' = Append(backlog, m)
  /\ client_end' = [client_end EXCEPT ![m] = "open"]
  /\ server_end' = [server_end EXCEPT ![m] = "backlog"]
  /\ UNCHANGED <<listening, toServer, toClient, reset>>

\* The monitor may write: the server's end is accepted or will be.
ServerAlive(m) == server_end[m] \in {"backlog", "open"}

\* recv() of the monitor returns: data, end of file or ECONNRESET.
ClientReadable(m) == toClient[m] # <<>> \/ server_end[m] = "closed"

ClientSend(m, msg) ==
  /\ ServerAlive(m)
  /\ toServer' = [toServer EXCEPT ![m] = Append(@, msg)]
  /\ UNCHANGED <<listening, backlog, client_end, server_end, toClient, reset>>

\* The monitor's process ends, with `last` its last message (<<>> for none).
ClientClose(m, last) ==
  /\ client_end' = [client_end EXCEPT ![m] = "closed"]
  /\ toClient' = [toClient EXCEPT ![m] = <<>>]
  /\ toServer' = [toServer EXCEPT ![m] = @ \o last]
  /\ UNCHANGED <<listening, backlog, server_end, reset>>

-----------------------------------------------------------------------------
(* The server's side.                                                      *)

\* recv() of the server returns: data, or the end of a closed connection.
ServerReadable(m) == toServer[m] # <<>> \/ client_end[m] = "closed"

\* close() of the server's ends in S.  A connection with unread data, or one
\* never accepted, is reset.
CloseServerEnds(S) ==
  /\ server_end' = [m \in Monitors |->
                      IF m \in S THEN "closed" ELSE server_end[m]]
  /\ toServer' = [m \in Monitors |-> IF m \in S THEN <<>> ELSE toServer[m]]
  /\ reset' = [m \in Monitors |->
                 \/ reset[m]
                 \/ m \in S /\ (toServer[m] # <<>> \/ server_end[m] = "backlog")]

\* Closing the listening socket resets what still waits in its backlog.
CloseListener ==
  /\ listening' = FALSE
  /\ backlog' = <<>>
  /\ CloseServerEnds({m \in Monitors : server_end[m] = "backlog"})
  /\ UNCHANGED <<client_end, toClient>>

\* The end of the server process closes every descriptor it holds.
ServerExit ==
  /\ listening' = FALSE
  /\ backlog' = <<>>
  /\ CloseServerEnds({m \in Monitors : ServerAlive(m)})
  /\ UNCHANGED <<client_end, toClient>>
=============================================================================
