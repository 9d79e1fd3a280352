------------------------------ MODULE TcpStream ------------------------------
(***************************************************************************)
(* The TCP connections between the Lab9 server and its clients, as the two *)
(* programs use them.  This is kernel behaviour, external to the           *)
(* repository: what matters of it is that                                  *)
(*   - data written before accept() waits in the connection;               *)
(*   - an end is closed only when its descriptor is closed and no thread   *)
(*     is inside a read() of it;                                           *)
(*   - the first write() after the peer closed succeeds and is answered    *)
(*     with a reset, the next one raises SIGPIPE;                          *)
(*   - closing with unread data resets the peer at once, whose next        *)
(*     write() then only fails, and the one after raises SIGPIPE;          *)
(*   - data that arrived before a reset can still be read.                 *)
(* A connection, and its descriptor in the server, is identified with the  *)
(* client.                                                                 *)
(***************************************************************************)
EXTENDS Integers, Sequences

CONSTANT Clients

VARIABLES
  listening, backlog,
  client_end,     \* "none", "open", "closed"
  server_end,     \* "none", "backlog", "open", "held" (closed while a thread
                  \* reads), "closed"
  toServer,       \* numbers of the texts under way to the server
  toClient,       \* "Quit" is under way to the client
  client_reset,   \* "none"; "error", "pipe": what the next write meets
  server_reset

tcp == <<listening, backlog, client_end, server_end, toServer, toClient,
         client_reset, server_reset>>

TcpTypeOK ==
  /\ listening \in BOOLEAN /\ backlog \in Seq(Clients)
  /\ client_end \in [Clients -> {"none", "open", "closed"}]
  /\ server_end \in [Clients -> {"none", "backlog", "open", "held", "closed"}]
  /\ toServer \in [Clients -> Seq(Nat)] /\ toClient \in [Clients -> BOOLEAN]
  /\ client_reset \in [Clients -> {"none", "error", "pipe"}]
  /\ server_reset \in [Clients -> BOOLEAN]

TcpInit ==
  /\ listening = TRUE /\ backlog = <<>>
  /\ client_end = [c \in Clients |-> "none"]
  /\ server_end = [c \in Clients |-> "none"]
  /\ toServer = [c \in Clients |-> <<>>] /\ toClient = [c \in Clients |-> FALSE]
  /\ client_reset = [c \in Clients |-> "none"]
  /\ server_reset = [c \in Clients |-> FALSE]

ServerHolds(c) == server_end[c] \in {"backlog", "open", "held"}

TcpConnect(c) ==
  /\ listening
  /\ backlog' = Append(backlog, c)
  /\ client_end' = [client_end EXCEPT ![c] = "open"]
  /\ server_end' = [server_end EXCEPT ![c] = "backlog"]
  /\ UNCHANGED <<listening, toServer, toClient, client_reset, server_reset>>

TcpAccept ==
  /\ backlog # <<>> /\ backlog' = Tail(backlog)
  /\ server_end' = [server_end EXCEPT ![Head(backlog)] = "open"]
  /\ UNCHANGED <<listening, client_end, toServer, toClient, client_reset, server_reset>>

\* write() of a client that does not raise SIGPIPE.
TcpClientWrite(c, text) ==
  /\ IF ServerHolds(c)
       THEN toServer' = [toServer EXCEPT ![c] = Append(@, text)] /\ UNCHANGED client_reset
       ELSE client_reset' = [client_reset EXCEPT ![c] = "pipe"] /\ UNCHANGED toServer
  /\ UNCHANGED <<listening, backlog, client_end, server_end, toClient, server_reset>>

\* write() of the server that does not raise SIGPIPE.
TcpServerWrite(c) ==
  /\ IF client_end[c] = "open"
       THEN toClient' = [toClient EXCEPT ![c] = TRUE] /\ UNCHANGED server_reset
       ELSE server_reset' = [server_reset EXCEPT ![c] = TRUE] /\ UNCHANGED toClient
  /\ UNCHANGED <<listening, backlog, client_end, server_end, toServer, client_reset>>

TcpClientClose(c) ==
  /\ client_end' = [client_end EXCEPT ![c] = IF @ = "open" THEN "closed" ELSE @]
  /\ server_reset' = [server_reset EXCEPT ![c] = @ \/ toClient[c]]
  /\ UNCHANGED <<listening, backlog, server_end, toServer, toClient, client_reset>>

\* The server's ends of the connections in C become free.
TcpServerClose(C) ==
  /\ server_end' = [c \in Clients |-> IF c \in C THEN "closed" ELSE server_end[c]]
  /\ toServer' = [c \in Clients |-> IF c \in C THEN <<>> ELSE toServer[c]]
  /\ client_reset' = [c \in Clients |->
       IF c \in C /\ (toServer[c] # <<>> \/ server_end[c] = "backlog")
         THEN "error" ELSE client_reset[c]]
  /\ UNCHANGED <<client_end, toClient, server_reset>>
=============================================================================
