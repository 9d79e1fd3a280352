---------------------------- MODULE NameRegistry ----------------------------
(***************************************************************************)
(* What networkMonitor promises its connections: they are served in the    *)
(* order of their arrival, each gets a name that nobody else has if there  *)
(* is one left, and keeps it until it leaves.  A registry that was stopped *)
(* turns away whoever still waits, and all names are free at its end.      *)
(***************************************************************************)
EXTENDS Sequences

CONSTANTS Clients, Names, NoName

VARIABLES
  phase,   \* "new", "open" or "stopped"
  queue,   \* the clients that wait, in the order of their arrival
  name     \* the name of each client, or NoName

Free(n) == \A c \in Clients : name[c] # n

Init == phase = "new" /\ queue = <<>> /\ name = [c \in Clients |-> NoName]

Start == phase = "new" /\ phase' \in {"open", "stopped"} /\ UNCHANGED <<queue, name>>

Arrive(c) ==
  /\ phase = "open" /\ name[c] = NoName /\ \A k \in DOMAIN queue : queue[k] # c
  /\ queue' = Append(queue, c) /\ UNCHANGED <<phase, name>>

Give(c, n) ==
  /\ queue # <<>> /\ c = Head(queue) /\ Free(n)
  /\ queue' = Tail(queue) /\ name' = [name EXCEPT ![c] = n] /\ UNCHANGED phase

\* Only for want of a name.
Refuse ==
  /\ queue # <<>> /\ \A n \in Names : ~Free(n)
  /\ queue' = Tail(queue) /\ UNCHANGED <<phase, name>>

Leave(c) == name' = [name EXCEPT ![c] = NoName] /\ UNCHANGED <<phase, queue>>

\* Those who have a name keep it.
Stop == phase = "open" /\ phase' = "stopped" /\ queue' = <<>> /\ UNCHANGED name

End == /\ phase # "new" /\ phase' = "stopped" /\ queue' = <<>>
       /\ name' = [c \in Clients |-> NoName]

Next ==
  \/ Start \/ Refuse \/ Stop \/ End
  \/ \E c \in Clients : Arrive(c) \/ Leave(c) \/ \E n \in Names : Give(c, n)

Spec == Init /\ [][Next]_<<phase, queue, name>>
=============================================================================
