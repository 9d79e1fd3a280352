--------------------------- MODULE MCMessageQueue ---------------------------
(* Values of the sets and bounds of MessageQueue's constants.              *)
EXTENDS MessageQueue

Two == {1, 2}
Nobody == {}
ServerAnd2 == {2, Server}

\* Messages each client sends: three of client 1 bring two to client 2, and the
\* one to client 3 stays in the queue.
OnlyClient1 == <<3, 0, 0>>
TwoEach     == <<2, 2, 0>>

\* Client 2 may push its first message once more when its queue is gone.
TwoOfClient2 == <<0, 2, 0>>
=============================================================================
