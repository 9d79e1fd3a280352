--------------------------------- MODULE Chat ---------------------------------
(***************************************************************************)
(* Lab9 as a whole: the server with its threads, the clients with theirs,  *)
(* and the connections.  SIGINT may reach the server at any moment, and    *)
(* stopClient.sh may kill the clients of Killable.                         *)
(***************************************************************************)
EXTENDS ChatServer, ChatClient

CONSTANT Killable
ASSUME ChatAssumption ==
  /\ MAX_WRITES \in [Clients -> Nat]
  /\ Creating \subseteq Clients /\ Killable \subseteq Clients

vars == <<tcp, svVars, clVars>>

Init == TcpInit /\ SVInit /\ CLInit

ServerMain   == SVStep /\ UNCHANGED clVars
Receiver(c)  == THStep(c) /\ UNCHANGED clVars
ClientMain(c)   == CLMain(c) /\ UNCHANGED svVars
ClientThread(c) == CLThread(c) /\ UNCHANGED svVars

Next == \/ ServerMain \/ (SVSigint /\ UNCHANGED clVars)
        \/ \E c \in Clients : \/ Receiver(c) \/ ClientMain(c) \/ ClientThread(c)
                              \/ (c \in Killable /\ CLKill(c) /\ UNCHANGED svVars)

Spec == Init /\ [][Next]_vars

\* The server's threads are scheduled.
FairSpec == /\ Spec /\ WF_vars(ServerMain) /\ \A c \in Clients : WF_vars(Receiver(c))

\* The clients' threads are scheduled.
ClientsRun == \A c \in Clients : WF_vars(ClientMain(c)) /\ WF_vars(ClientThread(c))

-----------------------------------------------------------------------------
TypeOK == TcpTypeOK /\ SVTypeOK /\ CLTypeOK

\* What the receive threads have handed over, the printed texts first.
HandedOver == printed \o message_queue
\* The texts of client c that its thread holds or has still to read.
Coming(c) == in_hand[c] \o toServer[c]

\* The first n texts of c were handed over, once and in order, and the others
\* are coming.
InSequence(c, n) ==
  /\ n \in Nat
  /\ \A t \in 1..n : \E k \in DOMAIN HandedOver : HandedOver[k] = [from |-> c, text |-> t]
  /\ \A k \in DOMAIN HandedOver : HandedOver[k].from = c => HandedOver[k].text \in 1..n
  /\ \A j, k \in DOMAIN HandedOver :
       HandedOver[j].from = c /\ HandedOver[k].from = c /\ j < k
         => HandedOver[j].text < HandedOver[k].text
  /\ \A k \in DOMAIN Coming(c) : Coming(c)[k] = n + k

\* n texts of c were handed over; while the server's end is not closed those and
\* the coming ones are all that c has written.
Kept(c, n) ==
  /\ InSequence(c, n)
  /\ n + Len(Coming(c)) <= written[c]
  /\ server_end[c] # "closed" => n + Len(Coming(c)) = written[c]

\* server.cpp:45-54 and 117-122: nothing is doubled or overtaken between the
\* connection, the receive thread and the queue it shares with the others, not
\* even while the server quits, and nothing is lost until it closes the
\* connection.
NothingLost == \A c \in Clients : \E n \in 0..written[c] : Kept(c, n)

\* The texts of s, as <<client, number>>.
Numbered(s) == {<<  s[k].from, s[k].text  >> : k \in DOMAIN s}
AllComing   == UNION {{<<c, Coming(c)[k]>> : k \in DOMAIN Coming(c)} : c \in Clients}

\* server.cpp:45-54 and 117-122, client.cpp:64-75: from each client to the screen
\* of the server there is an ordered channel, which loses nothing that write()
\* accepted until the server closes the client's connection.  The channel knows
\* sets; NothingLost says that no text is twice in the same place.
Channel == INSTANCE OrderedChannel
             WITH Ways <- Clients,
                  pending <- Numbered(message_queue) \cup AllComing,
                  delivered <- Numbered(printed),
                  broken <- {c \in Clients : server_end[c] = "closed"}
ImplementsChannel == Channel!Spec

\* server.cpp:130-134: client_fds keeps the descriptors of clients that have
\* left, and SIGPIPE is not handled; the one write to each is not enough to
\* raise it.
ServerSurvives == sv_main # "killed"

\* server.cpp:127-146: and when it comes to its end its own closes have released
\* every connection, without the help of the process's exit: a descriptor that
\* the loop closed while a thread was reading it is given up before the thread
\* is joined, the clients that were never accepted go with the listening socket,
\* and nobody can connect any more.
QuitsCleanly ==
  /\ ServerSurvives
  /\ sv_main = "done" => ~listening /\ \A c \in Clients : ~ServerHolds(c)

\* server.cpp:136-140: after SIGINT the threads are joined and the server ends,
\* although their descriptors were closed under them, and whatever the
\* clients do or leave undone.
ShutdownEnds == ~sv_running ~> sv_main = "done"

\* client.cpp:59-81: a client ends once the server has, also one whose receive
\* thread tested is_running before it was set and so never reads the Quit.
ClientsEnd == ClientsRun => (sv_main = "done" ~> \A c \in Clients : CLEnded(c))
=============================================================================
