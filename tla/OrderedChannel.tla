--------------------------- MODULE OrderedChannel ---------------------------
(***************************************************************************)
(* What the repository's message paths promise, whatever sockets, queues   *)
(* and threads a path consists of: the messages of one way are numbered as *)
(* they are sent and delivered in that order, and none is lost until its   *)
(* way breaks.  A message is <<way, number>>.  What is delivered is a set: *)
(* that nothing is delivered a second time is left to the components, whose*)
(* properties of order speak of sequences.                                 *)
(***************************************************************************)
EXTENDS Naturals

CONSTANT Ways

VARIABLES
  pending,     \* sent and neither delivered nor lost
  delivered,
  broken       \* the ways that may lose messages

Earlier(m, n) == m[1] = n[1] /\ m[2] < n[2]

Init == pending = {} /\ delivered = {} /\ broken \subseteq Ways

\* New messages, each later than all of its way.
Send ==
  /\ pending \subseteq pending' /\ pending' \subseteq Ways \X Nat
  /\ \A n \in pending' \ pending : \A m \in pending \cup delivered :
       m[1] = n[1] => Earlier(m, n)
  /\ UNCHANGED <<delivered, broken>>

\* Messages that no pending one should have preceded.
Deliver ==
  /\ pending' \subseteq pending /\ delivered' = delivered \cup (pending \ pending')
  /\ \A n \in pending \ pending' : \A m \in pending' : ~Earlier(m, n)
  /\ UNCHANGED broken

\* Ways break, and messages of broken ones get lost.
Break ==
  /\ broken \subseteq broken' /\ broken' \subseteq Ways
  /\ pending' \subseteq pending /\ \A m \in pending \ pending' : m[1] \in broken'
  /\ UNCHANGED delivered

Next == Send \/ Deliver \/ Break

Spec == Init /\ [][Next]_<<pending, delivered, broken>>
=============================================================================
