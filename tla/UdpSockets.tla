----------------------------- MODULE UdpSockets -----------------------------
(***************************************************************************)
(* The two UDP sockets of Assignment3 on 127.0.0.1: the log server's on    *)
(* port 8080 and the client's on 8081.  On the loopback a datagram is      *)
(* neither reordered nor doubled; it is lost when nobody is bound to the   *)
(* port or the receive buffer is full, and with a socket that is closed.   *)
(***************************************************************************)
EXTENDS Naturals, Sequences

CONSTANT BUFFER   \* datagrams a receive buffer has room for

ASSUME BufferAssumption == BUFFER \in Nat \ {0}

VARIABLES
  bound,     \* the ports somebody is bound to
  inbox      \* the datagrams waiting at each port

Ports == {"server", "client"}
sockets == <<bound, inbox>>

SocketsInit == bound = {} /\ inbox = [p \in Ports |-> <<>>]

Bind(p) == bound' = bound \cup {p} /\ UNCHANGED inbox

Close(p) == bound' = bound \ {p} /\ inbox' = [inbox EXCEPT ![p] = <<>>]

HasRoom(p) == p \in bound /\ Len(inbox[p]) < BUFFER

\* sendto always returns; the datagram may be lost.
SendTo(p, d) ==
  /\ inbox' = IF HasRoom(p) THEN [inbox EXCEPT ![p] = Append(@, d)] ELSE inbox
  /\ UNCHANGED bound

Waiting(p) == inbox[p] # <<>>
Oldest(p)  == Head(inbox[p])

\* recvfrom takes the oldest datagram.
ReceiveFrom(p) == inbox' = [inbox EXCEPT ![p] = Tail(@)] /\ UNCHANGED bound
=============================================================================
