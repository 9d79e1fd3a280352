--------------------------- MODULE MCSharedMemory ---------------------------
(* Bounds for SharedMemory: what earlier runs may have left behind.        *)
EXTENDS SharedMemory

Fresh == {Nothing}

\* Client 3 was killed while all clients slept between two turns.
FreshOrIdle == {Nothing, [names |-> TRUE, mutex |-> 1, start |-> 0, dest |-> 2]}

AllOf == Clients
=============================================================================
