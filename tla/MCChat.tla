-------------------------------- MODULE MCChat --------------------------------
(***************************************************************************)
(* Two clients: one writes two texts and may be killed by stopClient.sh;   *)
(* the other connects and ends at once, its pthread_create failing, so     *)
(* that the loop over client_fds meets a client that has left.             *)
(***************************************************************************)
EXTENDS Chat

CONSTANTS writer, visitor

ChatClients == {writer, visitor}
TwoTexts    == [c \in ChatClients |-> IF c = writer THEN 2 ELSE 0]
OnlyWriter  == {writer}
=============================================================================
