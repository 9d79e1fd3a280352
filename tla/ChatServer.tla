------------------------------ MODULE ChatServer ------------------------------
(***************************************************************************)
(* Lab9/server.cpp: the main thread accepts clients on a non-blocking      *)
(* socket, starts a receive thread for each and prints the queue that they *)
(* fill.  SIGINT clears is_running; the main thread then writes "Quit" to  *)
(* every descriptor it ever accepted, closes it, and joins the threads.    *)
(*                                                                         *)
(* sv_main: loop, drain, quit, close, join, closeListen, done, killed      *)
(* sv_thread[c]: none, test, read (before the system call), reading        *)
(*   (inside it), push, exited                                             *)
(* The queue's mutex is held over every use of the queue, so that a push,  *)
(* and the drain, is one step.                                             *)
(***************************************************************************)
EXTENDS TcpStream

VARIABLES
  sv_main, sv_running,
  client_fds,       \* the descriptors accepted, oldest first
  quitting,         \* index of the loop over client_fds
  sv_thread, in_hand,
  message_queue,    \* texts, as [from, text]
  printed

svVars == <<sv_main, sv_running, client_fds, quitting, sv_thread, in_hand,
            message_queue, printed>>

Texts == [from : Clients, text : Nat]

SVTypeOK ==
  /\ sv_main \in {"loop", "drain", "quit", "close", "join", "closeListen",
                  "done", "killed"}
  /\ sv_running \in BOOLEAN /\ client_fds \in Seq(Clients) /\ quitting \in Nat \ {0}
  /\ sv_thread \in [Clients -> {"none", "test", "read", "reading", "push", "exited"}]
  /\ in_hand \in [Clients -> Seq(Nat)]
  /\ message_queue \in Seq(Texts) /\ printed \in Seq(Texts)

SVInit ==
  /\ sv_main = "loop" /\ sv_running = TRUE /\ client_fds = <<>> /\ quitting = 1
  /\ sv_thread = [c \in Clients |-> "none"] /\ in_hand = [c \in Clients |-> <<>>]
  /\ message_queue = <<>> /\ printed = <<>>

From(c, s) == [k \in DOMAIN s |-> [from |-> c, text |-> s[k]]]

-----------------------------------------------------------------------------
(* The main thread.                                                        *)

SVGoto(from, to) == sv_main = from /\ sv_main' = to

\* while (is_running): accept, and pthread_create for the new descriptor; or
\* nobody is waiting.
SVAccept ==
  /\ SVGoto("loop", IF sv_running THEN "drain" ELSE "quit")
  /\ IF ~sv_running \/ backlog = <<>> THEN UNCHANGED <<tcp, client_fds, sv_thread>>
     ELSE /\ TcpAccept
          /\ client_fds' = Append(client_fds, Head(backlog))
          /\ sv_thread' = [sv_thread EXCEPT ![Head(backlog)] = "test"]
  /\ UNCHANGED <<sv_running, quitting, in_hand, message_queue, printed>>

\* The whole queue is printed, under the mutex; then sleep(1).
SVDrain ==
  /\ SVGoto("drain", "loop")
  /\ printed' = printed \o message_queue /\ message_queue' = <<>>
  /\ UNCHANGED <<tcp, sv_running, client_fds, quitting, sv_thread, in_hand>>

\* A fault: the write is preceded by another, such as a separate length.
FaultySVQuit ==
  /\ quitting <= Len(client_fds)
  /\ LET c == client_fds[quitting] IN
       IF client_end[c] = "closed" THEN SVGoto("quit", "killed") /\ UNCHANGED tcp
       ELSE SVGoto("quit", "close") /\ TcpServerWrite(c)
  /\ UNCHANGED <<sv_running, client_fds, quitting, sv_thread, in_hand, message_queue,
                 printed>>

\* write(fd, "Quit", 4): one that has been reset raises SIGPIPE.
SVQuit ==
  /\ quitting <= Len(client_fds)
  /\ LET c == client_fds[quitting] IN
       IF server_reset[c] THEN SVGoto("quit", "killed") /\ UNCHANGED tcp
       ELSE SVGoto("quit", "close") /\ TcpServerWrite(c)
  /\ UNCHANGED <<sv_running, client_fds, quitting, sv_thread, in_hand, message_queue,
                 printed>>

\* close(fd), which leaves the connection to a thread that is reading it.
SVClose ==
  /\ SVGoto("close", "quit") /\ quitting' = quitting + 1
  /\ LET c == client_fds[quitting] IN
       IF sv_thread[c] = "reading"
         THEN /\ server_end' = [server_end EXCEPT ![c] = "held"]
              /\ UNCHANGED <<listening, backlog, client_end, toServer, toClient,
                             client_reset, server_reset>>
         ELSE TcpServerClose({c}) /\ UNCHANGED <<listening, backlog>>
  /\ UNCHANGED <<sv_running, client_fds, sv_thread, in_hand, message_queue, printed>>

SVEndOfQuit ==
  /\ quitting > Len(client_fds) /\ SVGoto("quit", "join")
  /\ UNCHANGED <<tcp, sv_running, client_fds, quitting, sv_thread, in_hand,
                 message_queue, printed>>

\* A fault: the threads are detached, not joined.
FaultySVJoin ==
  /\ SVGoto("join", "closeListen")
  /\ UNCHANGED <<tcp, sv_running, client_fds, quitting, sv_thread, in_hand,
                 message_queue, printed>>

SVJoin ==
  /\ SVGoto("join", "closeListen")
  /\ \A k \in DOMAIN client_fds : sv_thread[client_fds[k]] = "exited"
  /\ UNCHANGED <<tcp, sv_running, client_fds, quitting, sv_thread, in_hand,
                 message_queue, printed>>

\* close(server_fd) resets the connections that were never accepted.
SVCloseListen ==
  /\ SVGoto("closeListen", "done")
  /\ listening' = FALSE /\ backlog' = <<>>
  /\ TcpServerClose({c \in Clients : server_end[c] = "backlog"})
  /\ UNCHANGED <<sv_running, client_fds, quitting, sv_thread, in_hand, message_queue,
                 printed>>

\* signal_handler; signal() implies SA_RESTART, and no call of the main thread
\* blocks for long.
SVSigint ==
  /\ sv_running /\ sv_running' = FALSE
  /\ UNCHANGED <<tcp, sv_main, client_fds, quitting, sv_thread, in_hand,
                 message_queue, printed>>

-----------------------------------------------------------------------------
(* The receive thread of client c.                                         *)

THGoto(c, from, to) ==
  /\ sv_main \notin {"done", "killed"} /\ sv_thread[c] = from
  /\ sv_thread' = [sv_thread EXCEPT ![c] = to]

\* A fault: while (true).
FaultyTHTest(c) ==
  /\ THGoto(c, "test", "read")
  /\ UNCHANGED <<tcp, sv_main, sv_running, client_fds, quitting, in_hand,
                 message_queue, printed>>

THTest(c) ==
  /\ THGoto(c, "test", IF sv_running THEN "read" ELSE "exited")
  /\ UNCHANGED <<tcp, sv_main, sv_running, client_fds, quitting, in_hand,
                 message_queue, printed>>

\* read() of a closed descriptor fails at once.
THRead(c) ==
  /\ THGoto(c, "read", IF server_end[c] = "open" THEN "reading" ELSE "test")
  /\ UNCHANGED <<tcp, sv_main, sv_running, client_fds, quitting, in_hand,
                 message_queue, printed>>

\* When read() returns, a connection whose descriptor was closed meanwhile is
\* released.
Release(c) == IF server_end[c] = "held"
              THEN TcpServerClose({c}) /\ UNCHANGED <<listening, backlog>>
              ELSE UNCHANGED tcp

\* Everything that has arrived is read as one buffer.
THData(c) ==
  /\ toServer[c] # <<>> /\ THGoto(c, "reading", "push")
  /\ in_hand' = [in_hand EXCEPT ![c] = toServer[c]]
  /\ IF server_end[c] = "held"
       THEN TcpServerClose({c}) /\ UNCHANGED <<listening, backlog>>
       ELSE /\ toServer' = [toServer EXCEPT ![c] = <<>>]
            /\ UNCHANGED <<listening, backlog, client_end, server_end, toClient,
                           client_reset, server_reset>>
  /\ UNCHANGED <<sv_main, sv_running, client_fds, quitting, message_queue, printed>>

\* End of file, after which the thread exits; an error, or the timeout of five
\* seconds, after which it tests is_running again.
THNoData(c) ==
  /\ toServer[c] = <<>>
  /\ \/ THGoto(c, "reading", "exited") /\ client_end[c] = "closed"
     \/ THGoto(c, "reading", "test") /\ (client_end[c] # "closed" \/ server_reset[c])
  /\ Release(c)
  /\ UNCHANGED <<sv_main, sv_running, client_fds, quitting, in_hand, message_queue,
                 printed>>

\* A fault: what was read is pushed only while the server runs.
FaultyTHPush(c) ==
  /\ THGoto(c, "push", "test")
  /\ message_queue' = IF sv_running THEN message_queue \o From(c, in_hand[c])
                      ELSE message_queue
  /\ in_hand' = [in_hand EXCEPT ![c] = <<>>]
  /\ UNCHANGED <<tcp, sv_main, sv_running, client_fds, quitting, printed>>

THPush(c) ==
  /\ THGoto(c, "push", "test")
  /\ message_queue' = message_queue \o From(c, in_hand[c])
  /\ in_hand' = [in_hand EXCEPT ![c] = <<>>]
  /\ UNCHANGED <<tcp, sv_main, sv_running, client_fds, quitting, printed>>

-----------------------------------------------------------------------------
SVStep == \/ SVAccept \/ SVDrain \/ SVQuit \/ SVClose \/ SVEndOfQuit
          \/ SVJoin \/ SVCloseListen
THStep(c) == \/ THTest(c) \/ THRead(c) \/ THData(c) \/ THNoData(c) \/ THPush(c)
=============================================================================
