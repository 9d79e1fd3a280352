---------------------------- MODULE MessageQueue ----------------------------
(***************************************************************************)
(* Lab8: three clients exchange messages over one System V message queue   *)
(* through a server.  A client sends each message with type ToServer; the  *)
(* server takes it and sends it again with its destination as type; the    *)
(* destination's receive thread takes it and pushes it on a local queue,   *)
(* which the client's main thread prints.  On SIGINT the server sends Quit *)
(* to every client and removes the queue.                                  *)
(*                                                                         *)
(* main[c]: start, handler, loop, drain, send, join, remove, done          *)
(* recv[c]: none, test, receive, push, exit                                *)
(* server : start, loop, forward, quit, remove, done                       *)
(* A message is [mtype, source, dest, text]; its text is the number of the *)
(* message at its source, Quit or, where msgrcv failed and the buffer holds *)
(* what nobody wrote, Garbage.                                             *)
(***************************************************************************)
EXTENDS Integers, Sequences, SequencesExt, FiniteSets

CONSTANTS CAPACITY,        \* messages the kernel's queue has room for
          Starting,        \* clients that the user starts
          Interruptible,   \* processes that SIGINT may reach
          MAX_SENDS,       \* MAX_SENDS[c]: bound on the messages client c sends
          MAX_QUEUES,      \* bound: queues ever created for the key
          MAX_PUSHED       \* MAX_PUSHED[c]: bound; a client c that has pushed so
                           \* many messages pushes no more of what msgrcv did not fill

Clients  == 1..3
ToServer == 4
Server   == 4
Quit     == -1
Garbage  == -2
Texts    == (Nat \ {0}) \cup {Quit, Garbage}
Messages == [mtype : 1..4, source : Clients, dest : Clients, text : Texts]

ASSUME MessageQueueAssumption ==
  /\ CAPACITY \in Nat \ {0} /\ MAX_SENDS \in [Clients -> Nat] /\ MAX_QUEUES \in Nat
  /\ MAX_PUSHED \in [Clients -> Nat]
  /\ Starting \subseteq Clients /\ Interruptible \subseteq 1..4

VARIABLES
  exists,      \* the key has a queue now: its number, or 0
  created,     \* queues created so far
  queue,       \* the messages in it
  msgid,       \* the queue each process got from msgget, or 0
  main, recv,  \* the two threads of each client
  is_running,
  nextDest,    \* dest of client c's last message
  sent,        \* messages sent by each client
  inHand,      \* its receive thread's msg: what it is about to push, or what
               \* its last msgrcv left there
  message,     \* the local queue
  printed,     \* what the main thread printed
  server,      \* where the server is
  msg,         \* the message it forwards
  quitTo       \* i of its loop over the clients

kernel  == <<exists, created, queue>>
clients == <<main, recv, nextDest, sent, inHand, message, printed>>
serving == <<server, msg, quitTo>>
vars    == <<kernel, msgid, is_running, clients, serving>>

\* A message that no process has sent: the buffer before its first use.
Blank == [mtype |-> ToServer, source |-> 1, dest |-> 1, text |-> Garbage]

TypeOK ==
  /\ exists \in 0..MAX_QUEUES /\ created \in 0..MAX_QUEUES
  /\ queue \in Seq(Messages) /\ Len(queue) <= CAPACITY
  /\ msgid \in [1..4 -> 0..MAX_QUEUES]
  /\ main \in [Clients -> {"start", "handler", "loop", "drain", "send", "join",
                           "remove", "done"}]
  /\ recv \in [Clients -> {"none", "test", "receive", "push", "exit"}]
  /\ is_running \in [1..4 -> BOOLEAN]
  /\ nextDest \in [Clients -> 0..3]
  /\ sent \in [Clients -> Nat] /\ \A c \in Clients : sent[c] <= MAX_SENDS[c]
  /\ inHand \in [Clients -> Messages]
  /\ message \in [Clients -> Seq(Messages)] /\ printed \in [Clients -> Seq(Messages)]
  /\ server \in {"start", "loop", "forward", "quit", "remove", "done"}
  /\ msg \in Messages
  /\ quitTo \in 1..3

Init ==
  /\ exists = 0 /\ created = 0 /\ queue = <<>>
  /\ msgid = [p \in 1..4 |-> 0]
  /\ main = [c \in Clients |-> IF c \in Starting THEN "start" ELSE "done"]
  /\ recv = [c \in Clients |-> "none"]
  /\ is_running = [p \in 1..4 |-> p = Server]
  /\ nextDest = [c \in Clients |-> 0]
  /\ sent = [c \in Clients |-> 0]
  /\ inHand = [c \in Clients |-> Blank]
  /\ message = [c \in Clients |-> <<>>] /\ printed = [c \in Clients |-> <<>>]
  /\ server = "start" /\ msg = Blank /\ quitTo = 1

-----------------------------------------------------------------------------
(* The kernel's queue (external): msgget, msgsnd, msgrcv, msgctl.          *)

\* msgget with IPC_CREAT: the queue of the key, or a new one.
Get(p) ==
  IF exists # 0
  THEN msgid' = [msgid EXCEPT ![p] = exists] /\ UNCHANGED kernel
  ELSE /\ created < MAX_QUEUES
       /\ created' = created + 1 /\ exists' = created + 1 /\ queue' = <<>>
       /\ msgid' = [msgid EXCEPT ![p] = created + 1]

\* The process's queue has been removed: every call on it fails.
Removed(p) == msgid[p] # exists
Full == Len(queue) >= CAPACITY

\* msgsnd waits for room and appends.
Send(p, m) == /\ ~Removed(p) /\ ~Full /\ queue' = Append(queue, m)
              /\ UNCHANGED <<exists, created>>

OfType(t) == {k \in DOMAIN queue : queue[k].mtype = t}

Oldest(t) == CHOOSE k \in OfType(t) : \A j \in OfType(t) : k <= j

\* msgrcv takes the oldest message of its type.
Receive(p, t) ==
  /\ ~Removed(p) /\ OfType(t) # {}
  /\ queue' = RemoveAt(queue, Oldest(t))
  /\ UNCHANGED <<exists, created>>

\* msgctl IPC_RMID; a process that waits for the queue is woken with an error.
RemoveQueue(p) ==
  IF Removed(p) THEN UNCHANGED kernel
  ELSE exists' = 0 /\ queue' = <<>> /\ UNCHANGED created

-----------------------------------------------------------------------------
(* The main thread of a client.                                            *)

GotoMain(c, next) == main' = [main EXCEPT ![c] = next]

\* sigaction, which SIGINT may still precede.
InstallHandler(c) ==
  /\ main[c] = "start" /\ GotoMain(c, "handler")
  /\ UNCHANGED <<kernel, msgid, is_running, recv, nextDest, sent, inHand, message,
                 printed, serving>>

\* ftok, msgget, is_running = true, pthread_create.
Start(c) ==
  /\ main[c] = "handler" /\ GotoMain(c, "loop")
  /\ Get(c)
  /\ is_running' = [is_running EXCEPT ![c] = TRUE]
  /\ recv' = [recv EXCEPT ![c] = "test"]
  /\ UNCHANGED <<nextDest, sent, inHand, message, printed, serving>>

MainLoop(c) ==
  /\ main[c] = "loop" /\ GotoMain(c, IF is_running[c] THEN "drain" ELSE "join")
  /\ UNCHANGED <<kernel, msgid, is_running, recv, nextDest, sent, inHand, message,
                 printed, serving>>

\* A fault: the newest message first.
FaultyPrintMsg(c) ==
  /\ main[c] = "drain" /\ message[c] # <<>>
  /\ printed' = [printed EXCEPT ![c] = Append(@, Last(message[c]))]
  /\ message' = [message EXCEPT ![c] = Front(@)]
  /\ UNCHANGED <<kernel, msgid, is_running, main, recv, nextDest, sent, inHand, serving>>

\* A fault: front without pop, for the last message of the queue.
ForgetfulPrintMsg(c) ==
  /\ main[c] = "drain" /\ message[c] # <<>>
  /\ printed' = [printed EXCEPT ![c] = Append(@, Head(message[c]))]
  /\ message' = [message EXCEPT ![c] = IF Len(@) > 1 THEN Tail(@) ELSE @]
  /\ UNCHANGED <<kernel, msgid, is_running, main, recv, nextDest, sent, inHand, serving>>

\* The local queue is printed until it is empty.
PrintMsg(c) ==
  /\ main[c] = "drain" /\ message[c] # <<>>
  /\ printed' = [printed EXCEPT ![c] = Append(@, Head(message[c]))]
  /\ message' = [message EXCEPT ![c] = Tail(@)]
  /\ UNCHANGED <<kernel, msgid, is_running, main, recv, nextDest, sent, inHand, serving>>

\* Each client alternates between the two others.
Others == <<  <<2, 3>>, <<3, 1>>, <<1, 2>>  >>

Alternate(c) == IF nextDest[c] = Others[c][1] THEN Others[c][2] ELSE Others[c][1]

\* The bound MAX_SENDS ends a client's sending, not its loop.
Choose(c) ==
  /\ main[c] = "drain" /\ message[c] = <<>>
  /\ IF sent[c] < MAX_SENDS[c]
     THEN GotoMain(c, "send") /\ nextDest' = [nextDest EXCEPT ![c] = Alternate(c)]
     ELSE GotoMain(c, "loop") /\ UNCHANGED nextDest
  /\ UNCHANGED <<kernel, msgid, is_running, recv, sent, inHand, message, printed, serving>>

\* msgsnd, whose result nobody looks at, and sleep.
SendMsg(c) ==
  /\ main[c] = "send" /\ GotoMain(c, "loop")
  /\ \/ /\ Send(c, [mtype |-> ToServer, source |-> c, dest |-> nextDest[c],
                    text |-> sent[c] + 1])
        /\ sent' = [sent EXCEPT ![c] = @ + 1]
     \/ Removed(c) /\ UNCHANGED <<kernel, sent>>
  /\ UNCHANGED <<msgid, is_running, recv, nextDest, inHand, message, printed, serving>>

Join(c) ==
  /\ main[c] = "join" /\ recv[c] = "exit" /\ GotoMain(c, "remove")
  /\ UNCHANGED <<kernel, msgid, is_running, recv, nextDest, sent, inHand, message,
                 printed, serving>>

\* msgctl IPC_RMID by the client, and the end of its process.
Leave(c) ==
  /\ main[c] = "remove" /\ GotoMain(c, "done")
  /\ RemoveQueue(c)
  /\ UNCHANGED <<msgid, is_running, recv, nextDest, sent, inHand, message, printed, serving>>

-----------------------------------------------------------------------------
(* The receive thread of a client.                                         *)

RecvTest(c) ==
  /\ recv[c] = "test"
  /\ recv' = [recv EXCEPT ![c] = IF is_running[c] THEN "receive" ELSE "exit"]
  /\ UNCHANGED <<kernel, msgid, is_running, main, nextDest, sent, inHand, message,
                 printed, serving>>

\* What the loop does with its buffer: Quit ends it, the rest is pushed.
Handle(c, m) ==
  /\ inHand' = [inHand EXCEPT ![c] = m]
  /\ recv' = [recv EXCEPT ![c] = IF m.text = Quit THEN "test" ELSE "push"]

QuitsOn(c, m) == is_running' = [is_running EXCEPT ![c] = @ /\ m.text # Quit]

RecvMsg(c) ==
  /\ recv[c] = "receive"
  /\ Receive(c, c)
  /\ LET m == queue[Oldest(c)] IN Handle(c, m) /\ QuitsOn(c, m)
  /\ UNCHANGED <<msgid, main, nextDest, sent, message, printed, serving>>

\* msgrcv fails and nobody looks at its result.  msg is declared in the loop and
\* not initialized: its place on the stack holds the message received last, or
\* anything.
Uninitialized(c) == {inHand[c]} \cup {[Blank EXCEPT !.text = t] : t \in {Quit, Garbage}}

\* The loop runs on while is_running; the bound MAX_PUSHED ends the pushing.
RecvFails(c) ==
  /\ recv[c] = "receive" /\ Removed(c)
  /\ IF Len(message[c]) + Len(printed[c]) < MAX_PUSHED[c]
     THEN \E m \in Uninitialized(c) : Handle(c, m) /\ QuitsOn(c, m)
     ELSE recv' = [recv EXCEPT ![c] = "test"] /\ UNCHANGED <<is_running, inHand>>
  /\ UNCHANGED <<kernel, msgid, main, nextDest, sent, message, printed, serving>>

\* A fault: a signal between the receive and the push drops the message.
FaultyPush(c) ==
  /\ recv[c] = "push"
  /\ recv' = [recv EXCEPT ![c] = "test"]
  /\ message' = IF is_running[c] THEN [message EXCEPT ![c] = Append(@, inHand[c])]
                ELSE message
  /\ UNCHANGED <<kernel, msgid, is_running, main, nextDest, sent, inHand, printed, serving>>

Push(c) ==
  /\ recv[c] = "push"
  /\ recv' = [recv EXCEPT ![c] = "test"]
  /\ message' = [message EXCEPT ![c] = Append(@, inHand[c])]
  /\ UNCHANGED <<kernel, msgid, is_running, main, nextDest, sent, inHand, printed, serving>>

-----------------------------------------------------------------------------
(* The server.                                                             *)

StartServer ==
  /\ server = "start" /\ server' = "loop"
  /\ Get(Server)
  /\ UNCHANGED <<is_running, clients, msg, quitTo>>

\* msgrcv with IPC_NOWAIT, or 100 ms of sleep.
ServerReceive ==
  /\ server = "loop" /\ is_running[Server]
  /\ Receive(Server, ToServer) /\ msg' = queue[Oldest(ToServer)]
  /\ server' = "forward"
  /\ UNCHANGED <<msgid, is_running, clients, quitTo>>

\* A fault: the type is the source.
FaultyForward ==
  /\ server = "forward" /\ server' = "loop"
  /\ msg' = [msg EXCEPT !.mtype = msg.source]
  /\ Send(Server, msg') \/ (Removed(Server) /\ UNCHANGED kernel)
  /\ UNCHANGED <<msgid, is_running, clients, quitTo>>

\* Sent again, with its destination as the type; perror if that fails.
Forward ==
  /\ server = "forward" /\ server' = "loop"
  /\ msg' = [msg EXCEPT !.mtype = msg.dest]
  /\ Send(Server, msg') \/ (Removed(Server) /\ UNCHANGED kernel)
  /\ UNCHANGED <<msgid, is_running, clients, quitTo>>

BeginQuit ==
  /\ server = "loop" /\ ~is_running[Server] /\ server' = "quit"
  /\ UNCHANGED <<kernel, msgid, is_running, clients, msg, quitTo>>

NextQuit == IF quitTo = 3 THEN server' = "remove" /\ UNCHANGED quitTo
            ELSE quitTo' = quitTo + 1 /\ UNCHANGED server

SendQuit ==
  /\ server = "quit"
  /\ msg' = [msg EXCEPT !.mtype = quitTo, !.text = Quit]
  /\ Send(Server, msg') \/ (Removed(Server) /\ UNCHANGED kernel)
  /\ NextQuit
  /\ UNCHANGED <<msgid, is_running, clients>>

\* A fault: the queue is left to the clients.
FaultyStopServer ==
  /\ server = "remove" /\ server' = "done"
  /\ UNCHANGED <<kernel, msgid, is_running, clients, msg, quitTo>>

StopServer ==
  /\ server = "remove" /\ server' = "done"
  /\ RemoveQueue(Server)
  /\ UNCHANGED <<msgid, is_running, clients, msg, quitTo>>

-----------------------------------------------------------------------------
(* SIGINT, without SA_RESTART: a blocked msgsnd or msgrcv returns EINTR.   *)

\* Before sigaction it ends the server, before or after msgget.
KillServer ==
  /\ server = "start" /\ server' = "done"
  /\ Get(Server) \/ UNCHANGED <<kernel, msgid>>
  /\ UNCHANGED <<is_running, clients, msg, quitTo>>

SigintServer ==
  /\ server \notin {"start", "done"}
  /\ is_running' = [is_running EXCEPT ![Server] = FALSE]
  /\ \/ UNCHANGED <<server, msg, quitTo>>
     \/ /\ server = "forward" /\ Full /\ ~Removed(Server) /\ server' = "loop"
        /\ msg' = [msg EXCEPT !.mtype = msg.dest] /\ UNCHANGED quitTo
     \/ /\ server = "quit" /\ Full /\ ~Removed(Server)
        /\ msg' = [msg EXCEPT !.mtype = quitTo, !.text = Quit] /\ NextQuit
  /\ UNCHANGED <<kernel, msgid, clients>>

\* Before sigaction SIGINT ends the process; afterwards either thread may run
\* the handler.
KillClient(c) ==
  /\ main[c] = "start" /\ GotoMain(c, "done")
  /\ UNCHANGED <<kernel, msgid, is_running, recv, nextDest, sent, inHand, message,
                 printed, serving>>

SigintMain(c) ==
  /\ main[c] \notin {"start", "done"}
  /\ is_running' = [is_running EXCEPT ![c] = FALSE]
  /\ \/ UNCHANGED main
     \/ main[c] = "send" /\ Full /\ ~Removed(c) /\ GotoMain(c, "loop")
  /\ UNCHANGED <<kernel, msgid, recv, nextDest, sent, inHand, message, printed, serving>>

SigintRecv(c) ==
  /\ recv[c] = "receive" /\ ~Removed(c) /\ OfType(c) = {}
  /\ \E m \in Uninitialized(c) : Handle(c, m)
  /\ is_running' = [is_running EXCEPT ![c] = FALSE]
  /\ UNCHANGED <<kernel, msgid, main, nextDest, sent, message, printed, serving>>

-----------------------------------------------------------------------------
MainStep(c) == \/ InstallHandler(c) \/ Start(c) \/ MainLoop(c) \/ PrintMsg(c)
               \/ Choose(c) \/ SendMsg(c) \/ Join(c) \/ Leave(c)
RecvStep(c) == RecvTest(c) \/ RecvMsg(c) \/ RecvFails(c) \/ Push(c)
ServerStep  == \/ StartServer \/ ServerReceive \/ Forward \/ BeginQuit
               \/ SendQuit \/ StopServer
Sigint(p)   == IF p = Server THEN KillServer \/ SigintServer
               ELSE KillClient(p) \/ SigintMain(p) \/ SigintRecv(p)

Next == \/ \E c \in Clients : MainStep(c) \/ RecvStep(c)
        \/ ServerStep
        \/ \E p \in Interruptible : Sigint(p)

Spec == Init /\ [][Next]_vars

\* Started processes and their threads are scheduled.  A sender that waits for
\* room is not promised any: msgsnd is weakly fair, which is enough only
\* while the queue keeps room.
FairSpec == /\ Spec /\ WF_vars(ServerStep)
            /\ \A c \in Starting : WF_vars(MainStep(c)) /\ WF_vars(RecvStep(c))

-----------------------------------------------------------------------------
\* The places on the way to client b, from the one reached last: printed, local
\* queue, receive thread, kernel queue, server, kernel queue.
Typed(t) == [k \in OfType(t) |-> queue[k]]

Way(b) ==
  << printed[b], message[b],
     IF recv[b] = "push" THEN <<inHand[b]>> ELSE <<>>,
     Typed(b),
     IF server = "forward" THEN <<msg>> ELSE <<>>,
     Typed(ToServer) >>

\* m, which is further on the way to b, was written after n, or is n.
Overtakes(b, m, n) ==
  /\ m.source = n.source /\ m.dest = b /\ n.dest = b
  /\ n.text > 0 /\ m.text >= n.text

\* A msgrcv of client b may have failed.
MayFail(b) == Removed(b) \/ ~is_running[b]

\* server.cpp:43-62: on the way from one client to another no message overtakes
\* an earlier one, across the server's hand, the receive thread and the local
\* queue, signals and removed queues included, and none is in two places.  The
\* one exception: a failed msgrcv leaves the message received last in the
\* buffer, and the receive thread pushes it again (client1.cpp:98-106); what is
\* repeated is the last message of its source, and only in the client itself.
InOrder ==
  \A b \in Clients : LET w == Way(b) IN
    \A i, j \in DOMAIN w : \A k \in DOMAIN w[i], l \in DOMAIN w[j] :
      i < j \/ (i = j /\ k < l) =>
        \/ ~Overtakes(b, w[i][k], w[j][l])
        \/ j <= 3 /\ MayFail(b) /\ w[i][k].text = w[j][l].text

\* The numbered messages of S, as <<way, number>>.
Numbered(S) == {<<  <<m.source, m.dest>>, m.text  >> : m \in {x \in S : x.text > 0}}

\* What is in a place on a way, printed messages excepted.
Pushed == UNION {Range(message[b]) : b \in Clients}
InHands == {inHand[b] : b \in {c \in Clients : recv[c] = "push"}}
             \cup (IF server = "forward" THEN {msg} ELSE {})
Printed == UNION {Range(printed[b]) : b \in Clients}

\* The first queue has been removed.
QueueLost == created # 0 /\ exists # 1

\* server.cpp:43-62, client1.cpp:67-107: from each client to each there is an
\* ordered channel.  It loses nothing that msgsnd accepted until the first queue
\* is removed or SIGINT reaches the server; signals to clients lose nothing,
\* also where they cut a msgrcv short.  A message printed before is no longer on
\* its way: that a failed msgrcv may have it printed again is said by InOrder.
Channel == INSTANCE OrderedChannel
             WITH Ways <- Clients \X Clients,
                  pending <- Numbered(Range(queue) \cup Pushed \cup InHands)
                               \ Numbered(Printed),
                  delivered <- Numbered(Printed),
                  broken <- IF QueueLost \/ ~is_running[Server]
                            THEN Clients \X Clients ELSE {}
ImplementsChannel == Channel!Spec

\* A client prints what a client wrote to it.  The one exception: once the
\* queue is gone, or a signal stopped it, its receive thread may push what was
\* on its stack (server.cpp:56, client1.cpp:67-73, 98-106).
PrintedIsSent ==
  \A b \in Clients : \A k \in DOMAIN printed[b] :
    LET m == printed[b][k] IN
      \/ m.dest = b /\ m.text \in 1..sent[m.source]
      \/ m.text = Garbage /\ MayFail(b)

\* The client b has ended, or will; the server has ended, or will.
Stopping(b) ==
  \/ main[b] = "done"
  \/ main[b] \notin {"start", "handler"} /\ ~is_running[b]
ServerStopping == server = "done" \/ ~is_running[Server]

\* The server waits for room in a queue of which only it takes: see
\* ForwardReturns.
Jammed == server = "forward" /\ Full /\ OfType(ToServer) = DOMAIN queue

\* The loops hand on everything (server.cpp:43-62, client1.cpp:67-107): what
\* was sent is printed, unless the server or the addressee is stopped, the queue
\* removed, or the server stuck before a queue that clients filled.
AllArrive ==
  \A a \in Starting : \A b \in Starting \ {a} : \A n \in 1..MAX_SENDS[a] :
    (\E k \in DOMAIN queue : queue[k].source = a /\ queue[k].dest = b /\ queue[k].text = n)
      ~> \/ \E k \in DOMAIN printed[b] : printed[b][k].source = a /\ printed[b][k].text = n
         \/ Stopping(b) \/ ServerStopping \/ Removed(b) \/ Jammed

\* server.cpp:55, "Forward the message to destination client": the server
\* comes back from every msgsnd while nobody stops it.
ForwardReturns == server = "forward" ~> server # "forward"

\* Without the Quit, which the removal of the queue may discard: a client that
\* SIGINT reached ends once the server has removed the queue, although its
\* receive thread never saw the signal (server.cpp:73, client1.cpp:87-90).
RemovalFreesInterrupted ==
  \A c \in Starting \cap Interruptible :
    server = "remove" /\ msgid[c] = msgid[Server] /\ main[c] = "join" ~> main[c] = "done"
=============================================================================
