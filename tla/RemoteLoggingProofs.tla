------------------------ MODULE RemoteLoggingProofs -------------------------
(***************************************************************************)
(* Four results about Assignment3 for every bound and every order of       *)
(* steps: no thread outlives its socket, a raised level is overtaken by    *)
(* one message at most, the messages are in order on their way to the log, *)
(* and from Log to the file there is an ordered channel.                   *)
(***************************************************************************)
EXTENDS RemoteLogging, SequenceTheorems, TLAPS

-----------------------------------------------------------------------------
(* Threads and sockets.                                                    *)

\* The receive thread of the server lives between StartServer and JoinTaker.
TakerLife ==
  /\ taker \in {"test", "receive", "write"} => "server" \in bound
  /\ menu \in {"close", "done"} => taker \in {"none", "exit"}
  /\ menu = "start" => taker = "none"

\* The listener of the client between InitializeLog and JoinListener.
ListenerLife ==
  /\ listener \in {"test", "receive"} => "client" \in bound /\ open
  /\ sim \in {"closing", "done"} => listener \in {"none", "exit"}
  /\ sim = "start" => listener = "none"

\* Each step keeps both: the socket is closed only after the join.
LEMMA LivesStep ==
  ASSUME TakerLife, ListenerLife, [Next]_vars
  PROVE  TakerLife' /\ ListenerLife'
<1>1. CASE UNCHANGED vars
  BY <1>1 DEF TakerLife, ListenerLife, vars, sockets, server, client
<1>2. CASE StartServer /\ UNCHANGED client
  BY <1>2 DEF TakerLife, ListenerLife, StartServer, Bind, sockets, client
<1>3. CASE SetLevel /\ UNCHANGED client
  BY <1>3 DEF TakerLife, ListenerLife, SetLevel, sockets, client
<1>4. CASE SendCommand /\ UNCHANGED client
  BY <1>4 DEF TakerLife, ListenerLife, SendCommand, SendTo, sockets, client
<1>5. CASE DumpExact /\ UNCHANGED client
  BY <1>5 DEF TakerLife, ListenerLife, DumpExact, sockets, client
<1>6. CASE DumpAll /\ UNCHANGED client
  BY <1>6 DEF TakerLife, ListenerLife, DumpAll, sockets, client
<1>7. CASE Enter /\ UNCHANGED client
  BY <1>7 DEF TakerLife, ListenerLife, Enter, sockets, client
<1>8. CASE ShutDown /\ UNCHANGED client
  BY <1>8 DEF TakerLife, ListenerLife, ShutDown, sockets, client
<1>9. CASE JoinTaker /\ UNCHANGED client
  BY <1>9 DEF TakerLife, ListenerLife, JoinTaker, sockets, client
<1>10. CASE CloseServer /\ UNCHANGED client
  BY <1>10 DEF TakerLife, ListenerLife, CloseServer, Close, sockets, client
<1>11. CASE AbortServer /\ UNCHANGED client
  BY <1>11 DEF TakerLife, ListenerLife, AbortServer, Close, sockets, client
<1>12. CASE TakerTest /\ UNCHANGED client
  BY <1>12 DEF TakerLife, ListenerLife, TakerTest, sockets, client
<1>13. CASE TakerReceive /\ UNCHANGED client
  BY <1>13 DEF TakerLife, ListenerLife, TakerReceive, ReceiveFrom, sockets, client
<1>14. CASE TakerWrite /\ UNCHANGED client
  BY <1>14 DEF TakerLife, ListenerLife, TakerWrite, sockets, client
<1>15. CASE InitializeLog /\ UNCHANGED server
  BY <1>15 DEF TakerLife, ListenerLife, InitializeLog, Bind, sockets, server
<1>16. CASE InitializeFails /\ UNCHANGED server
  BY <1>16 DEF TakerLife, ListenerLife, InitializeFails, sockets, server
<1>17. CASE SetLogLevel /\ UNCHANGED server
  BY <1>17 DEF TakerLife, ListenerLife, SetLogLevel, sockets, server
<1>18. CASE LogTest /\ UNCHANGED server
  BY <1>18 DEF TakerLife, ListenerLife, LogTest, After, sockets, server
<1>19. CASE LogSend /\ UNCHANGED server
  BY <1>19 DEF TakerLife, ListenerLife, LogSend, SendTo, sockets, server
<1>20. CASE BeginLoop /\ UNCHANGED server
  BY <1>20 DEF TakerLife, ListenerLife, BeginLoop, sockets, server
<1>21. CASE LeaveLoop /\ UNCHANGED server
  BY <1>21 DEF TakerLife, ListenerLife, LeaveLoop, sockets, server
<1>22. CASE ExitLog /\ UNCHANGED server
  BY <1>22 DEF TakerLife, ListenerLife, ExitLog, sockets, server
<1>23. CASE JoinListener /\ UNCHANGED server
  BY <1>23 DEF TakerLife, ListenerLife, JoinListener, sockets, server
<1>24. CASE CloseClient /\ UNCHANGED server
  BY <1>24 DEF TakerLife, ListenerLife, CloseClient, Close, sockets, server
<1>25. CASE RunAgain /\ UNCHANGED server
  BY <1>25 DEF TakerLife, ListenerLife, RunAgain, sockets, server
<1>26. CASE ShutdownHandler /\ UNCHANGED server
  BY <1>26 DEF TakerLife, ListenerLife, ShutdownHandler, sockets, server
<1>27. CASE ListenerTest /\ UNCHANGED server
  BY <1>27 DEF TakerLife, ListenerLife, ListenerTest, sockets, server
<1>28. CASE ListenerReceive /\ UNCHANGED server
  BY <1>28 DEF TakerLife, ListenerLife, ListenerReceive, ReceiveFrom, sockets, server
<1>29. QED
  BY <1>1, <1>2, <1>3, <1>4, <1>5, <1>6, <1>7, <1>8, <1>9, <1>10,
     <1>11, <1>12, <1>13, <1>14, <1>15, <1>16, <1>17, <1>18, <1>19, <1>20,
     <1>21, <1>22, <1>23, <1>24, <1>25, <1>26, <1>27, <1>28
     DEF Next, ServerNext, MenuStep, UserStep, TakerStep, ClientNext, SimStep, ListenerStep

\* LogServer.cpp:195-199, Logger.cpp:125-133: no thread receives on a closed
\* descriptor.
THEOREM RlSocketOutlivesThread == Spec => []SocketOutlivesThread
<1>1. Init => TakerLife /\ ListenerLife
  BY DEF Init, ServerInit, ClientInit, TakerLife, ListenerLife
<1>2. TakerLife /\ ListenerLife /\ [Next]_vars => TakerLife' /\ ListenerLife'
  BY LivesStep
<1>3. TakerLife /\ ListenerLife => SocketOutlivesThread
  BY DEF TakerLife, ListenerLife, SocketOutlivesThread
<1>4. QED
  BY <1>1, <1>2, <1>3, PTL DEF Spec

-----------------------------------------------------------------------------
(* The level.                                                              *)

\* Once a late message was sent, the next one was compared with the level
\* that still holds.
Compared ==
  /\ late \in {0, 1}
  /\ late = 1 /\ sending # <<>> => ~(Head(sending).level < log_level)

\* Each step keeps it: only LogSend counts, and only LogTest puts a message
\* in front of it.
LEMMA ComparedStep == ASSUME Compared, [Next]_vars PROVE Compared'
<1>1. CASE UNCHANGED client
  BY <1>1 DEF Compared, client
<1>2. CASE InitializeLog
  BY <1>2 DEF Compared, InitializeLog
<1>3. CASE InitializeFails
  BY <1>3 DEF Compared, InitializeFails
<1>4. CASE SetLogLevel
  BY <1>4 DEF Compared, SetLogLevel
<1>5. CASE LogTest
  <2>1. PICK l \in LogLevels(sim) :
          sending' = IF l < log_level THEN <<>> ELSE <<[level |-> l, number |-> number + 1]>>
    BY <1>5 DEF LogTest
  <2>2. sending' # <<>> => ~(Head(sending').level < log_level)
    BY <2>1
  <2>3. QED
    BY <1>5, <2>2 DEF LogTest, Compared
<1>6. CASE LogSend
  BY <1>6 DEF Compared, LogSend
<1>7. CASE BeginLoop
  BY <1>7 DEF Compared, BeginLoop
<1>8. CASE LeaveLoop
  BY <1>8 DEF Compared, LeaveLoop
<1>9. CASE ExitLog
  BY <1>9 DEF Compared, ExitLog
<1>10. CASE JoinListener
  BY <1>10 DEF Compared, JoinListener
<1>11. CASE CloseClient
  BY <1>11 DEF Compared, CloseClient
<1>12. CASE RunAgain
  BY <1>12 DEF Compared, RunAgain
<1>13. CASE ShutdownHandler
  BY <1>13 DEF Compared, ShutdownHandler
<1>14. CASE ListenerTest
  BY <1>14 DEF Compared, ListenerTest
<1>15. CASE ListenerReceive
  BY <1>15 DEF Compared, ListenerReceive
<1>16. QED
  BY <1>1, <1>2, <1>3, <1>4, <1>5, <1>6, <1>7, <1>8, <1>9, <1>10,
     <1>11, <1>12, <1>13, <1>14, <1>15
     DEF Next, ClientNext, SimStep, ListenerStep, vars

\* Logger.cpp:98-101: between the comparison and sendto the level may change,
\* but one message at most is sent below the level last set.
THEOREM RlAtMostOneLate == Spec => []AtMostOneLate
<1>1. Init => Compared
  BY DEF Init, ClientInit, Compared
<1>2. Compared /\ [Next]_vars => Compared'
  BY ComparedStep
<1>3. Compared => AtMostOneLate
  BY DEF Compared, AtMostOneLate
<1>4. QED
  BY <1>1, <1>2, <1>3, PTL DEF Spec

-----------------------------------------------------------------------------
(* The order of the log.                                                   *)

\* Messages, without the bound on their numbers.
Numbered == [level : Levels, number : Nat]

Rising(s) == \A j, k \in DOMAIN s : j < k => s[j].number < s[k].number
Before(s, t) == \A j \in DOMAIN s : \A k \in DOMAIN t : s[j].number < t[k].number
UpTo(s, n) == \A k \in DOMAIN s : s[k].number <= n

\* The four places of a message, from the oldest to the newest.
InHand == IF taker = "write" THEN <<buffer>> ELSE <<>>
Queued == inbox["server"]

WayTypes ==
  /\ number \in Nat /\ current_server_log_level \in Levels
  /\ inbox \in [Ports -> Seq(Numbered \cup Levels)] /\ Queued \in Seq(Numbered)
  /\ server_log \in Seq(Numbered)
  /\ taker = "write" => buffer \in Numbered
  /\ sending \in Seq(Numbered) /\ Len(sending) <= 1

\* Each place is in order, no place overtakes an older one, and the next
\* message gets a number above all.
WayInOrder ==
  /\ Rising(server_log) /\ Rising(Queued)
  /\ Before(server_log, InHand) /\ Before(server_log, Queued) /\ Before(server_log, sending)
  /\ Before(InHand, Queued) /\ Before(InHand, sending) /\ Before(Queued, sending)
  /\ UpTo(server_log, number) /\ UpTo(InHand, number) /\ UpTo(Queued, number)
  /\ UpTo(sending, number)

WayInv == WayTypes /\ WayInOrder

\* Most steps leave the messages alone, or lose some.
LEMMA WayFrame ==
  ASSUME WayInv, UNCHANGED <<server_log, buffer, sending, number>>,
         taker' = "write" => taker = "write", current_server_log_level' \in Levels,
         inbox' \in [Ports -> Seq(Numbered \cup Levels)],
         inbox'["server"] = inbox["server"] \/ inbox'["server"] = <<>>
  PROVE  WayInv'
<1>0. Queued \in Seq(Numbered) /\ <<>> \in Seq(Numbered)
  BY DEF WayInv, WayTypes
<1>1. WayTypes'
  <2>1. Queued' \in Seq(Numbered)
    BY <1>0 DEF Queued
  <2>2. QED
    BY <2>1 DEF WayInv, WayTypes
<1>2. InHand' = InHand \/ InHand' = <<>>
  BY DEF InHand
<1>3. WayInOrder'
  BY <1>2 DEF WayInv, WayInOrder, Queued, Rising, Before, UpTo
<1>4. QED
  BY <1>1, <1>3 DEF WayInv

\* What the calls of the sockets do to the types.
LEMMA SocketTypes ==
  ASSUME WayTypes, NEW p \in Ports
  PROVE  /\ Close(p) => /\ inbox' \in [Ports -> Seq(Numbered \cup Levels)]
                        /\ inbox'["server"] = inbox["server"] \/ inbox'["server"] = <<>>
         /\ \A l \in Levels : SendTo("client", l) =>
              /\ inbox' \in [Ports -> Seq(Numbered \cup Levels)]
              /\ inbox'["server"] = inbox["server"]
         /\ Waiting("client") /\ ReceiveFrom("client") =>
              /\ inbox' \in [Ports -> Seq(Numbered \cup Levels)]
              /\ inbox'["server"] = inbox["server"]
<1>1. Close(p) => /\ inbox' \in [Ports -> Seq(Numbered \cup Levels)]
                  /\ inbox'["server"] = inbox["server"] \/ inbox'["server"] = <<>>
  BY DEF WayTypes, Close, Ports
<1>2. ASSUME NEW l \in Levels, SendTo("client", l)
      PROVE  /\ inbox' \in [Ports -> Seq(Numbered \cup Levels)]
             /\ inbox'["server"] = inbox["server"]
  <2>1. Append(inbox["client"], l) \in Seq(Numbered \cup Levels)
    BY AppendProperties DEF WayTypes, Ports
  <2>2. QED
    BY <1>2, <2>1 DEF WayTypes, SendTo, Ports
<1>3. ASSUME Waiting("client"), ReceiveFrom("client")
      PROVE  /\ inbox' \in [Ports -> Seq(Numbered \cup Levels)]
             /\ inbox'["server"] = inbox["server"]
  <2>1. Tail(inbox["client"]) \in Seq(Numbered \cup Levels)
    BY <1>3, HeadTailProperties DEF WayTypes, Ports, Waiting
  <2>2. QED
    BY <1>3, <2>1 DEF WayTypes, ReceiveFrom, Ports
<1>4. QED
  BY <1>1, <1>2, <1>3

\* LogTest puts the next message behind all others.
LEMMA LogTestOrder == ASSUME WayInv, LogTest, UNCHANGED server PROVE WayInv'
<1> USE DEF WayInv
<1>1. PICK l \in LogLevels(sim) :
        sending' = IF l < log_level THEN <<>> ELSE <<[level |-> l, number |-> number + 1]>>
  BY DEF LogTest
<1> DEFINE m == [level |-> l, number |-> number + 1]
<1>2. /\ sending = <<>> /\ number' = number + 1 /\ number \in Nat /\ m \in Numbered
      /\ UNCHANGED <<server_log, buffer, taker, inbox, current_server_log_level>>
  BY DEF LogTest, sockets, server, WayTypes, LogLevels, Numbered, Levels, DEBUG, WARNING,
         ERROR, CRITICAL
<1>3. sending' = <<>> \/ sending' = <<m>>
  BY <1>1
<1>4. m.number = number + 1
  OBVIOUS
<1> HIDE DEF m
<1>5. WayTypes'
  <2>1. <<m>> \in Seq(Numbered) /\ Len(<<m>>) = 1
    BY <1>2
  <2>2. sending' \in Seq(Numbered) /\ Len(sending') <= 1
    <3>1. CASE sending' = <<>>
      BY <3>1
    <3>2. CASE sending' = <<m>>
      BY <2>1, <3>2
    <3>3. QED
      BY <1>3, <3>1, <3>2
  <2>3. QED
    BY <1>2, <2>2 DEF WayTypes, Queued
<1>6. \A k \in DOMAIN sending' : sending'[k] = m
  BY <1>3
<1>7. UNCHANGED <<server_log, InHand, Queued>>
  BY <1>2 DEF InHand, Queued
<1>8. /\ \A k \in DOMAIN server_log : server_log[k].number \in Nat
      /\ \A k \in DOMAIN InHand : InHand[k].number \in Nat
      /\ \A k \in DOMAIN Queued : Queued[k].number \in Nat
  <2>1. \A k \in DOMAIN server_log : server_log[k] \in Numbered
    BY DEF WayTypes
  <2>2. \A k \in DOMAIN Queued : Queued[k] \in Numbered
    BY DEF WayTypes
  <2>3. \A k \in DOMAIN InHand : InHand[k] \in Numbered
    BY DEF WayTypes, InHand
  <2>4. QED
    BY <2>1, <2>2, <2>3 DEF Numbered
<1>9. WayInOrder'
  <2>1. /\ UpTo(server_log', number') /\ UpTo(InHand', number') /\ UpTo(Queued', number')
        /\ UpTo(sending', number')
    BY <1>2, <1>4, <1>6, <1>7, <1>8 DEF WayInOrder, UpTo
  <2>2. /\ Before(server_log', sending') /\ Before(InHand', sending')
        /\ Before(Queued', sending')
    BY <1>2, <1>4, <1>6, <1>7, <1>8 DEF WayInOrder, UpTo, Before
  <2>3. QED
    BY <1>7, <2>1, <2>2 DEF WayInOrder
<1>10. QED
  BY <1>5, <1>9

\* LogSend moves it to the end of the socket's queue, or loses it.
LEMMA LogSendOrder == ASSUME WayInv, LogSend, UNCHANGED server PROVE WayInv'
<1> USE DEF WayInv
<1>1. /\ sending # <<>> /\ sending' = <<>> /\ Head(sending) = sending[1] /\ 1 \in DOMAIN sending
      /\ sending[1] \in Numbered
      /\ UNCHANGED <<server_log, buffer, taker, number, current_server_log_level>>
  BY DEF LogSend, WayTypes, server
<1>2. CASE UNCHANGED inbox
  <2>1. WayTypes'
    BY <1>1, <1>2 DEF WayTypes, Queued
  <2>2. Queued' = Queued /\ InHand' = InHand /\ server_log' = server_log /\ number' = number
    BY <1>1, <1>2 DEF Queued, InHand
  <2>3. WayInOrder'
    BY <1>1, <2>2 DEF WayInOrder, Before, UpTo
  <2>4. QED
    BY <2>1, <2>3
<1>3. CASE inbox' = [inbox EXCEPT !["server"] = Append(@, Head(sending))]
  <2> DEFINE q == Append(Queued, sending[1])
  <2>1. /\ q \in Seq(Numbered) /\ Len(q) = Len(Queued) + 1
        /\ \A k \in 1..Len(Queued) : q[k] = Queued[k]
        /\ q[Len(Queued) + 1] = sending[1]
    BY <1>1, AppendProperties DEF WayTypes
  <2>2. inbox' = [inbox EXCEPT !["server"] = q] /\ Queued' = q
    BY <1>1, <1>3 DEF WayTypes, Queued, Ports
  <2> HIDE DEF q
  <2>3. q \in Seq(Numbered \cup Levels)
    BY <2>1
  <2>4. WayTypes'
    BY <1>1, <2>1, <2>2, <2>3 DEF WayTypes, Ports
  <2>5. UNCHANGED <<server_log, InHand, number>> /\ sending' = <<>> /\ Queued' = q
    BY <1>1, <2>2 DEF InHand
  <2>6. Len(Queued) \in Nat /\ DOMAIN Queued = 1..Len(Queued)
    BY DEF WayTypes
  <2>7. \A k \in DOMAIN q :
          \/ k \in DOMAIN Queued /\ q[k] = Queued[k]
          \/ k = Len(Queued) + 1 /\ q[k] = sending[1]
    <3>1. DOMAIN q = 1..(Len(Queued) + 1)
      BY <2>1
    <3>2. ASSUME NEW k \in DOMAIN q, k \notin DOMAIN Queued PROVE k = Len(Queued) + 1
      BY <2>6, <3>1, <3>2
    <3>3. QED
      BY <2>1, <2>6, <3>2
  <2>8. Rising(q)
    <3>1. SUFFICES ASSUME NEW j \in DOMAIN q, NEW k \in DOMAIN q, j < k
                   PROVE  q[j].number < q[k].number
      BY DEF Rising
    <3>2. j \in DOMAIN Queued /\ q[j] = Queued[j]
      BY <2>1, <2>6, <2>7, <3>1
    <3>3. CASE k \in DOMAIN Queued /\ q[k] = Queued[k]
      BY <3>1, <3>2, <3>3 DEF WayInOrder, Rising
    <3>4. CASE q[k] = sending[1]
      BY <1>1, <3>2, <3>4 DEF WayInOrder, Before
    <3>5. QED
      BY <2>7, <3>3, <3>4
  <2>9. Before(server_log, q) /\ Before(InHand, q) /\ UpTo(q, number)
    BY <1>1, <2>7 DEF WayInOrder, Before, UpTo
  <2>10. Before(q, <<>>) /\ Before(server_log, <<>>) /\ Before(InHand, <<>>) /\ UpTo(<<>>, number)
    BY DEF Before, UpTo
  <2>11. WayInOrder'
    BY <2>5, <2>8, <2>9, <2>10 DEF WayInOrder
  <2>12. QED
    BY <2>4, <2>11
<1>4. QED
  BY <1>2, <1>3 DEF LogSend, SendTo, sockets

\* The receive thread takes the oldest message from the queue.
LEMMA TakerReceiveOrder == ASSUME WayInv, TakerReceive, UNCHANGED client PROVE WayInv'
<1> USE DEF WayInv
<1>1. /\ UNCHANGED <<server_log, sending, number, current_server_log_level>>
      /\ InHand = <<>>
  BY DEF TakerReceive, client, InHand
<1>2. CASE Waiting("server")
  <2>1. /\ Queued # <<>> /\ taker' = "write" /\ buffer' = Head(Queued)
        /\ inbox' = [inbox EXCEPT !["server"] = Tail(Queued)]
    BY <1>2 DEF TakerReceive, Waiting, Queued, Oldest, ReceiveFrom
  <2> DEFINE q == Tail(Queued)
             h == Head(Queued)
  <2>2. /\ h \in Numbered /\ q \in Seq(Numbered) /\ Len(q) = Len(Queued) - 1
        /\ \A k \in 1..Len(q) : q[k] = Queued[k + 1]
        /\ h = Queued[1] /\ Len(Queued) \in Nat \ {0}
    BY <2>1, HeadTailProperties DEF WayTypes
  <2>3. Queued' = q /\ InHand' = <<h>>
    BY <2>1 DEF Queued, InHand, WayTypes, Ports
  <2> HIDE DEF q, h
  <2>4. inbox' = [inbox EXCEPT !["server"] = q] /\ q \in Seq(Numbered \cup Levels) /\ buffer' = h
    BY <2>1, <2>2 DEF q, h
  <2>5. WayTypes'
    BY <1>1, <2>2, <2>3, <2>4 DEF WayTypes, Ports
  <2>6. /\ \A k \in DOMAIN q : k + 1 \in DOMAIN Queued /\ q[k] = Queued[k + 1] /\ k \in Nat \ {0}
        /\ 1 \in DOMAIN Queued
    BY <2>2 DEF WayTypes
  <2>7. Rising(q)
    BY <2>6 DEF WayInOrder, Rising
  <2>8. Before(server_log, q) /\ Before(q, sending) /\ UpTo(q, number)
    BY <2>6 DEF WayInOrder, Before, UpTo
  <2>9. Before(server_log, <<h>>) /\ Before(<<h>>, sending) /\ UpTo(<<h>>, number)
    BY <2>2, <2>6 DEF WayInOrder, Before, UpTo
  <2>10. Before(<<h>>, q)
    <3>1. \A k \in DOMAIN q : Queued[1].number < q[k].number
      BY <2>6 DEF WayInOrder, Rising
    <3>2. DOMAIN <<h>> = {1} /\ <<h>>[1] = Queued[1]
      BY <2>2
    <3>3. QED
      BY <3>1, <3>2 DEF Before
  <2>11. WayInOrder'
    BY <1>1, <2>3, <2>7, <2>8, <2>9, <2>10 DEF WayInOrder
  <2>12. QED
    BY <2>5, <2>11
<1>3. CASE ~Waiting("server")
  BY <1>1, <1>3, WayFrame DEF TakerReceive, sockets, WayTypes
<1>4. QED
  BY <1>2, <1>3

\* And writes it behind the log.
LEMMA TakerWriteOrder == ASSUME WayInv, TakerWrite, UNCHANGED client PROVE WayInv'
<1> USE DEF WayInv
<1>1. /\ InHand = <<buffer>> /\ InHand' = <<>> /\ buffer \in Numbered
      /\ UNCHANGED <<inbox, Queued, sending, number, current_server_log_level>>
      /\ server_log' = Append(server_log, buffer) /\ taker' = "test"
  BY DEF TakerWrite, client, InHand, WayTypes, sockets, Queued
<1> DEFINE n == Len(server_log)
<1>2. /\ server_log' \in Seq(Numbered) /\ Len(server_log') = n + 1
      /\ \A k \in 1..n : server_log'[k] = server_log[k]
      /\ server_log'[n + 1] = buffer
  BY <1>1, AppendProperties DEF WayTypes
<1>3. WayTypes'
  BY <1>1, <1>2 DEF WayTypes
<1>4. n \in Nat /\ DOMAIN server_log = 1..n /\ DOMAIN server_log' = 1..(n + 1)
  BY <1>2 DEF WayTypes
<1> HIDE DEF n
<1>5. \A k \in DOMAIN server_log' :
        \/ k \in DOMAIN server_log /\ server_log'[k] = server_log[k]
        \/ k = n + 1 /\ server_log'[k] = buffer
  BY <1>2, <1>4
<1>6. /\ 1 \in DOMAIN InHand /\ InHand[1] = buffer
  BY <1>1
<1>7. Rising(server_log')
  <2>1. SUFFICES ASSUME NEW j \in DOMAIN server_log', NEW k \in DOMAIN server_log', j < k
                 PROVE  server_log'[j].number < server_log'[k].number
    BY DEF Rising
  <2>2. j \in DOMAIN server_log /\ server_log'[j] = server_log[j]
    BY <1>4, <1>5, <2>1
  <2>3. CASE k \in DOMAIN server_log /\ server_log'[k] = server_log[k]
    BY <2>1, <2>2, <2>3 DEF WayInOrder, Rising
  <2>4. CASE server_log'[k] = buffer
    BY <1>6, <2>2, <2>4 DEF WayInOrder, Before
  <2>5. QED
    BY <1>5, <2>3, <2>4
<1>8. Before(server_log', Queued) /\ Before(server_log', sending) /\ UpTo(server_log', number)
  BY <1>5, <1>6 DEF WayInOrder, Before, UpTo
<1>9. Before(server_log', <<>>) /\ Before(<<>>, Queued) /\ Before(<<>>, sending) /\ UpTo(<<>>, number)
  BY DEF Before, UpTo
<1>10. WayInOrder'
  BY <1>1, <1>7, <1>8, <1>9 DEF WayInOrder
<1>11. QED
  BY <1>3, <1>10

\* The steps of the server that no message is concerned by.
LEMMA ServerQuiet ==
  ASSUME WayInv, UNCHANGED client,
         \/ SetLevel \/ DumpExact \/ DumpAll \/ Enter \/ ShutDown \/ JoinTaker
         \/ TakerTest \/ SendCommand \/ CloseServer \/ AbortServer
  PROVE  WayInv'
<1> USE DEF client
<1>1. CASE SetLevel
  BY <1>1, WayFrame DEF SetLevel, sockets, WayInv, WayTypes
<1>2. CASE DumpExact \/ DumpAll \/ Enter \/ ShutDown \/ JoinTaker \/ TakerTest
  <2>1. /\ UNCHANGED <<server_log, buffer, inbox, current_server_log_level>>
        /\ taker' = "write" => taker = "write"
    BY <1>2 DEF DumpExact, DumpAll, Enter, ShutDown, JoinTaker, TakerTest, sockets
  <2>2. QED
    BY <2>1, WayFrame DEF WayInv, WayTypes
<1>3. CASE SendCommand
  <2>1. SendTo("client", current_server_log_level)
    BY <1>3 DEF SendCommand
  <2>2. /\ inbox' \in [Ports -> Seq(Numbered \cup Levels)]
        /\ inbox'["server"] = inbox["server"]
    BY <2>1, SocketTypes DEF WayInv, WayTypes, Ports
  <2>3. QED
    BY <1>3, <2>2, WayFrame DEF SendCommand, WayInv, WayTypes
<1>4. CASE CloseServer \/ AbortServer
  <2>1. Close("server") /\ UNCHANGED <<server_log, buffer, current_server_log_level>>
    BY <1>4 DEF CloseServer, AbortServer
  <2>2. /\ inbox' \in [Ports -> Seq(Numbered \cup Levels)]
        /\ inbox'["server"] = inbox["server"] \/ inbox'["server"] = <<>>
    BY <2>1, SocketTypes DEF WayInv, Ports
  <2>3. taker' = "write" => taker = "write"
    BY <1>4 DEF CloseServer, AbortServer
  <2>4. QED
    BY <2>1, <2>2, <2>3, WayFrame DEF WayInv, WayTypes
<1>5. QED
  BY <1>1, <1>2, <1>3, <1>4

\* The file is truncated when the server starts.
LEMMA StartOrder == ASSUME WayInv, StartServer, UNCHANGED client PROVE WayInv'
<1>1. /\ UNCHANGED <<inbox, Queued, sending, number, current_server_log_level>>
      /\ server_log' = <<>> /\ InHand' = <<>> /\ taker' = "test"
  BY DEF StartServer, Bind, client, InHand, Queued
<1>2. WayTypes'
  BY <1>1 DEF WayInv, WayTypes
<1>3. WayInOrder'
  BY <1>1 DEF WayInv, WayInOrder, Rising, Before, UpTo
<1>4. QED
  BY <1>2, <1>3 DEF WayInv

\* The steps of the client that no message is concerned by.
LEMMA ClientQuiet ==
  ASSUME WayInv, UNCHANGED server,
         \/ InitializeLog \/ InitializeFails \/ SetLogLevel \/ BeginLoop \/ LeaveLoop
         \/ ExitLog \/ JoinListener \/ CloseClient \/ RunAgain \/ ShutdownHandler
         \/ ListenerTest \/ ListenerReceive
  PROVE  WayInv'
<1>1. UNCHANGED <<server_log, buffer, taker, current_server_log_level>>
  BY DEF server
<1>2. UNCHANGED <<sending, number>>
  BY DEF InitializeLog, InitializeFails, SetLogLevel, BeginLoop, LeaveLoop, ExitLog,
         JoinListener, CloseClient, RunAgain, ShutdownHandler, ListenerTest, ListenerReceive
<1>3. \/ UNCHANGED inbox
      \/ Close("client")
      \/ Waiting("client") /\ ReceiveFrom("client")
  BY DEF InitializeLog, InitializeFails, SetLogLevel, BeginLoop, LeaveLoop, ExitLog,
         JoinListener, CloseClient, RunAgain, ShutdownHandler, ListenerTest, ListenerReceive,
         Bind, sockets
<1>4. /\ inbox' \in [Ports -> Seq(Numbered \cup Levels)]
      /\ inbox'["server"] = inbox["server"] \/ inbox'["server"] = <<>>
  <2>1. CASE UNCHANGED inbox
    BY <2>1 DEF WayInv, WayTypes
  <2>2. CASE Close("client")
    BY <2>2, SocketTypes DEF WayInv, Ports
  <2>3. CASE Waiting("client") /\ ReceiveFrom("client")
    BY <2>3, SocketTypes DEF WayInv, Ports
  <2>4. QED
    BY <1>3, <2>1, <2>2, <2>3
<1>5. QED
  BY <1>1, <1>2, <1>4, WayFrame DEF WayInv, WayTypes

LEMMA WayStep == ASSUME WayInv, [Next]_vars PROVE WayInv'
<1>1. CASE UNCHANGED vars
  BY <1>1, WayFrame DEF vars, sockets, server, client, WayInv, WayTypes
<1>2. CASE ServerNext /\ UNCHANGED client
  BY <1>2, ServerQuiet, StartOrder, TakerReceiveOrder, TakerWriteOrder
     DEF ServerNext, MenuStep, UserStep, TakerStep
<1>3. CASE ClientNext /\ UNCHANGED server
  BY <1>3, ClientQuiet, LogTestOrder, LogSendOrder DEF ClientNext, SimStep, ListenerStep
<1>4. QED
  BY <1>1, <1>2, <1>3 DEF Next

\* Places in order, one after the other, are in order.
LEMMA RisingConcat ==
  ASSUME NEW s \in Seq(Numbered), NEW t \in Seq(Numbered), Rising(s), Rising(t), Before(s, t)
  PROVE  /\ s \o t \in Seq(Numbered) /\ Rising(s \o t)
         /\ \A u \in Seq(Numbered) : Before(s, u) /\ Before(t, u) => Before(s \o t, u)
<1>1. /\ s \o t \in Seq(Numbered) /\ Len(s \o t) = Len(s) + Len(t)
      /\ \A i \in 1..(Len(s) + Len(t)) :
           (s \o t)[i] = IF i <= Len(s) THEN s[i] ELSE t[i - Len(s)]
  BY ConcatProperties
<1> DEFINE r == s \o t
<1>2. /\ Len(s) \in Nat /\ DOMAIN s = 1..Len(s) /\ Len(t) \in Nat /\ DOMAIN t = 1..Len(t)
      /\ DOMAIN r = 1..(Len(s) + Len(t))
  BY <1>1
<1> HIDE DEF r
<1>3. ASSUME NEW i \in DOMAIN r
      PROVE  \/ i \in DOMAIN s /\ r[i] = s[i]
             \/ i > Len(s) /\ i - Len(s) \in DOMAIN t /\ r[i] = t[i - Len(s)]
  BY <1>1, <1>2 DEF r
<1>4. Rising(r)
  <2>1. SUFFICES ASSUME NEW j \in DOMAIN r, NEW k \in DOMAIN r, j < k
                 PROVE  r[j].number < r[k].number
    BY DEF Rising
  <2>2. CASE k \in DOMAIN s /\ r[k] = s[k]
    <3>1. j \in DOMAIN s /\ r[j] = s[j]
      BY <1>2, <1>3, <2>1, <2>2
    <3>2. QED
      BY <2>1, <2>2, <3>1 DEF Rising
  <2>3. CASE k > Len(s) /\ k - Len(s) \in DOMAIN t /\ r[k] = t[k - Len(s)]
    <3>1. CASE j \in DOMAIN s /\ r[j] = s[j]
      BY <2>3, <3>1 DEF Before
    <3>2. CASE j > Len(s) /\ j - Len(s) \in DOMAIN t /\ r[j] = t[j - Len(s)]
      <4>1. j - Len(s) < k - Len(s)
        BY <1>2, <2>1
      <4>2. QED
        BY <2>3, <3>2, <4>1 DEF Rising
    <3>3. QED
      BY <1>3, <3>1, <3>2
  <2>4. QED
    BY <1>3, <2>2, <2>3
<1>5. ASSUME NEW u \in Seq(Numbered), Before(s, u), Before(t, u) PROVE Before(r, u)
  BY <1>3, <1>5 DEF Before
<1>6. QED
  BY <1>1, <1>4, <1>5 DEF r

LEMMA WayInit == Init => WayInv
<1> SUFFICES ASSUME Init PROVE WayInv
  OBVIOUS
<1>1. WayTypes
  BY DEF Init, SocketsInit, ServerInit, ClientInit, WayTypes, Ports, Queued, Levels, DEBUG,
         WARNING, ERROR, CRITICAL
<1>2. WayInOrder
  BY DEF Init, SocketsInit, ServerInit, ClientInit, WayInOrder, Rising, Before, UpTo, InHand,
         Queued, Ports
<1>3. QED
  BY <1>1, <1>2 DEF WayInv

\* Logger.cpp:98-123, LogServer.cpp:84-90: on their way through Log, the socket,
\* the receive thread and the file, over several runs of the client, no message
\* is doubled or overtaken.
THEOREM RlLogInOrder == Spec => []LogInOrder
<1>2. WayInv => LogInOrder
  <2> SUFFICES ASSUME WayInv PROVE LogInOrder
    OBVIOUS
  <2>1. /\ server_log \in Seq(Numbered) /\ InHand \in Seq(Numbered)
        /\ Queued \in Seq(Numbered) /\ sending \in Seq(Numbered)
    BY DEF WayInv, WayTypes, InHand
  <2>2. Rising(InHand) /\ Rising(sending)
    BY DEF WayInv, WayTypes, InHand, Rising
  <2> DEFINE a == server_log \o InHand
             b == a \o Queued
             w == b \o sending
  <2>3. /\ a \in Seq(Numbered) /\ Rising(a) /\ Before(a, Queued) /\ Before(a, sending)
    BY <2>1, <2>2, RisingConcat DEF WayInv, WayInOrder
  <2> HIDE DEF a
  <2>4. /\ b \in Seq(Numbered) /\ Rising(b) /\ Before(b, sending)
    BY <2>1, <2>3, RisingConcat DEF WayInv, WayInOrder
  <2> HIDE DEF b
  <2>5. Rising(w)
    BY <2>1, <2>2, <2>4, RisingConcat
  <2>6. server_log \o UnderWay = w
    <3>1. InHand \o Queued \in Seq(Numbered)
      BY <2>1, ConcatProperties
    <3>2. server_log \o ((InHand \o Queued) \o sending) = (server_log \o (InHand \o Queued)) \o sending
      BY <2>1, <3>1, ConcatAssociative
    <3>3. server_log \o (InHand \o Queued) = (server_log \o InHand) \o Queued
      BY <2>1, ConcatAssociative
    <3>4. UnderWay = (InHand \o Queued) \o sending
      BY DEF UnderWay, InHand, Queued
    <3>5. QED
      BY <3>2, <3>3, <3>4 DEF w, b, a
  <2> HIDE DEF w
  <2>7. QED
    BY <2>5, <2>6 DEF Rising, LogInOrder
<1>3. QED
  BY <1>2, WayInit, WayStep, PTL DEF Spec

-----------------------------------------------------------------------------
(* The channel from Log to the file.                                       *)

Parts == Numbers(InHand) \cup Numbers(Queued) \cup Numbers(sending)

LEMMA NumbersAreNat ==
  ASSUME NEW s \in Seq(Numbered)
  PROVE  \A k \in DOMAIN s : s[k].number \in Nat
<1>1. \A k \in DOMAIN s : s[k] \in Numbered
  OBVIOUS
<1>2. \A m \in Numbered : m.number \in Nat
  BY DEF Numbered
<1>3. QED
  BY <1>1, <1>2

LEMMA WaySequences == WayTypes =>
  /\ server_log \in Seq(Numbered) /\ InHand \in Seq(Numbered)
  /\ Queued \in Seq(Numbered) /\ sending \in Seq(Numbered)
BY DEF WayTypes, InHand

LEMMA NumbersConcat ==
  ASSUME NEW s \in Seq(Numbered), NEW t \in Seq(Numbered)
  PROVE  s \o t \in Seq(Numbered) /\ Numbers(s \o t) = Numbers(s) \cup Numbers(t)
<1>1. /\ s \o t \in Seq(Numbered) /\ Len(s \o t) = Len(s) + Len(t)
      /\ \A i \in 1..(Len(s) + Len(t)) :
           (s \o t)[i] = IF i <= Len(s) THEN s[i] ELSE t[i - Len(s)]
  BY ConcatProperties
<1> DEFINE r == s \o t
<1>2. /\ Len(s) \in Nat /\ DOMAIN s = 1..Len(s) /\ Len(t) \in Nat /\ DOMAIN t = 1..Len(t)
      /\ DOMAIN r = 1..(Len(s) + Len(t))
  BY <1>1
<1> HIDE DEF r
<1>3. \A i \in DOMAIN r : \/ i \in DOMAIN s /\ r[i] = s[i]
                          \/ i - Len(s) \in DOMAIN t /\ r[i] = t[i - Len(s)]
  BY <1>1, <1>2 DEF r
<1>4. \A i \in DOMAIN s : i \in DOMAIN r /\ r[i] = s[i]
  BY <1>1, <1>2 DEF r
<1>5. ASSUME NEW i \in DOMAIN t PROVE Len(s) + i \in DOMAIN r /\ r[Len(s) + i] = t[i]
  <2>1. Len(s) + i \in 1..(Len(s) + Len(t)) /\ ~(Len(s) + i <= Len(s)) /\ (Len(s) + i) - Len(s) = i
    BY <1>2
  <2>2. QED
    BY <1>1, <1>2, <2>1 DEF r
<1>6. Numbers(r) = Numbers(s) \cup Numbers(t)
  BY <1>3, <1>4, <1>5 DEF Numbers
<1>7. QED
  BY <1>1, <1>6 DEF r

LEMMA UnderWayIs == WayTypes => Numbers(UnderWay) = Parts
<1> SUFFICES ASSUME WayTypes PROVE Numbers(UnderWay) = Parts
  OBVIOUS
<1>1. InHand \in Seq(Numbered) /\ Queued \in Seq(Numbered) /\ sending \in Seq(Numbered)
  BY DEF WayTypes, InHand
<1> DEFINE a == InHand \o Queued
<1>2. a \in Seq(Numbered) /\ Numbers(a) = Numbers(InHand) \cup Numbers(Queued)
  BY <1>1, NumbersConcat
<1>3. UnderWay = a \o sending
  BY DEF UnderWay, InHand, Queued
<1> HIDE DEF a
<1>4. Numbers(UnderWay) = Numbers(a) \cup Numbers(sending)
  BY <1>1, <1>2, <1>3, NumbersConcat
<1>5. QED
  BY <1>2, <1>4 DEF Parts

\* The file is empty when the server truncates it, and nothing is in hand.
Fresh == menu = "start" => taker = "none" /\ server_log = <<>>

LEMMA FreshStep == ASSUME Fresh, [Next]_vars PROVE Fresh'
<1>1. CASE UNCHANGED server
  BY <1>1 DEF server, Fresh
<1>2. CASE ServerNext
  <2>1. CASE TakerStep
    BY <2>1 DEF TakerStep, TakerTest, TakerReceive, TakerWrite, Fresh
  <2>2. CASE MenuStep \/ UserStep
    BY <2>2 DEF MenuStep, UserStep, StartServer, SendCommand, DumpExact, JoinTaker, CloseServer,
                SetLevel, DumpAll, Enter, ShutDown, AbortServer, Fresh
  <2>3. QED
    BY <1>2, <2>1, <2>2 DEF ServerNext
<1>3. QED
  BY <1>1, <1>2 DEF Next, vars

\* What a step does with the messages.
Loses == UNCHANGED server_log /\ Parts' \subseteq Parts

LEMMA SameLoses ==
  ASSUME UNCHANGED <<server_log, buffer, sending>>, taker' = "write" => taker = "write",
         inbox'["server"] = inbox["server"] \/ inbox'["server"] = <<>>
  PROVE  Loses
<1>1. InHand' = InHand \/ InHand' = <<>>
  BY DEF InHand
<1>2. Queued' = Queued \/ Queued' = <<>>
  BY DEF Queued
<1>3. Numbers(<<>>) = {}
  BY DEF Numbers
<1>4. /\ Numbers(InHand)' \subseteq Numbers(InHand) /\ Numbers(Queued)' \subseteq Numbers(Queued)
      /\ Numbers(sending)' = Numbers(sending)
  BY <1>1, <1>2, <1>3 DEF Numbers
<1>5. QED
  BY <1>4 DEF Loses, Parts

LEMMA ServerLoses ==
  ASSUME WayInv, Fresh, ServerNext, UNCHANGED client
  PROVE  Loses \/ TakerWrite
<1>1. CASE TakerReceive
  <2>1. /\ UNCHANGED <<server_log, sending>> /\ taker = "receive"
    BY <1>1 DEF TakerReceive, client
  <2>2. CASE Waiting("server")
    <3>1. /\ Queued # <<>> /\ taker' = "write" /\ buffer' = Head(Queued)
          /\ inbox' = [inbox EXCEPT !["server"] = Tail(Queued)]
      BY <1>1, <2>2 DEF TakerReceive, Waiting, Queued, Oldest, ReceiveFrom
    <3> DEFINE q == Tail(Queued)  h == Head(Queued)
    <3>2. /\ Len(q) = Len(Queued) - 1 /\ \A k \in 1..Len(q) : q[k] = Queued[k + 1]
          /\ h = Queued[1] /\ Len(Queued) \in Nat \ {0} /\ DOMAIN q = 1..Len(q)
          /\ DOMAIN Queued = 1..Len(Queued)
      BY <3>1, HeadTailProperties DEF WayInv, WayTypes
    <3>3. Queued' = q /\ InHand' = <<h>>
      BY <3>1 DEF Queued, InHand, WayInv, WayTypes, Ports
    <3> HIDE DEF q, h
    <3>4. 1 \in DOMAIN Queued /\ \A k \in DOMAIN q : k + 1 \in DOMAIN Queued /\ q[k] = Queued[k + 1]
      BY <3>2
    <3>5. Numbers(q) \subseteq Numbers(Queued)
      BY <3>4 DEF Numbers
    <3>6. Numbers(<<h>>) \subseteq Numbers(Queued)
      BY <3>2, <3>4 DEF Numbers
    <3>7. /\ Numbers(Queued)' = Numbers(q) /\ Numbers(InHand)' = Numbers(<<h>>)
          /\ Numbers(sending)' = Numbers(sending)
      BY <2>1, <3>3 DEF Numbers
    <3>8. QED
      BY <2>1, <3>5, <3>6, <3>7 DEF Loses, Parts
  <2>3. CASE ~Waiting("server")
    BY <1>1, <2>1, <2>3, SameLoses DEF TakerReceive, sockets
  <2>4. QED
    BY <2>2, <2>3
<1>2. CASE StartServer
  <2>1. UNCHANGED <<server_log, buffer, sending>> /\ taker' = "test" /\ UNCHANGED inbox
    BY <1>2 DEF StartServer, Bind, Fresh, client
  <2>2. QED
    BY <2>1, SameLoses
<1>3. CASE DumpExact \/ DumpAll \/ Enter \/ ShutDown \/ JoinTaker \/ TakerTest \/ SetLevel
  <2>1. UNCHANGED <<server_log, buffer, sending, inbox>> /\ (taker' = "write" => taker = "write")
    BY <1>3 DEF DumpExact, DumpAll, Enter, ShutDown, JoinTaker, TakerTest, SetLevel, sockets, client
  <2>2. QED
    BY <2>1, SameLoses
<1>4. CASE SendCommand
  <2>1. /\ SendTo("client", current_server_log_level) /\ current_server_log_level \in Levels
        /\ UNCHANGED <<server_log, buffer, sending, taker>>
    BY <1>4 DEF SendCommand, WayInv, WayTypes, client
  <2>2. inbox'["server"] = inbox["server"]
    BY <2>1, SocketTypes DEF WayInv, Ports
  <2>3. QED
    BY <2>1, <2>2, SameLoses
<1>5. CASE CloseServer \/ AbortServer
  <2>1. /\ Close("server") /\ UNCHANGED <<server_log, buffer, sending>>
        /\ taker' = "write" => taker = "write"
    BY <1>5 DEF CloseServer, AbortServer, client
  <2>2. inbox'["server"] = inbox["server"] \/ inbox'["server"] = <<>>
    BY <2>1, SocketTypes DEF WayInv, Ports
  <2>3. QED
    BY <2>1, <2>2, SameLoses
<1>6. QED
  BY <1>1, <1>2, <1>3, <1>4, <1>5 DEF ServerNext, MenuStep, UserStep, TakerStep

LEMMA ClientLoses ==
  ASSUME WayInv, ClientNext, UNCHANGED server
  PROVE  Loses \/ LogTest
<1>1. UNCHANGED <<server_log, buffer, taker>>
  BY DEF server
<1>2. CASE \/ InitializeLog \/ InitializeFails \/ SetLogLevel \/ BeginLoop \/ LeaveLoop
           \/ ExitLog \/ JoinListener \/ CloseClient \/ RunAgain \/ ShutdownHandler
           \/ ListenerTest \/ ListenerReceive
  <2>1. UNCHANGED sending
    BY <1>2 DEF InitializeLog, InitializeFails, SetLogLevel, BeginLoop, LeaveLoop, ExitLog,
           JoinListener, CloseClient, RunAgain, ShutdownHandler, ListenerTest, ListenerReceive
  <2>2. \/ UNCHANGED inbox
        \/ Close("client")
        \/ Waiting("client") /\ ReceiveFrom("client")
    BY <1>2 DEF InitializeLog, InitializeFails, SetLogLevel, BeginLoop, LeaveLoop, ExitLog,
           JoinListener, CloseClient, RunAgain, ShutdownHandler, ListenerTest, ListenerReceive,
           Bind, sockets
  <2>3. inbox'["server"] = inbox["server"] \/ inbox'["server"] = <<>>
    BY <2>2, SocketTypes DEF WayInv, Ports
  <2>4. QED
    BY <1>1, <2>1, <2>3, SameLoses
<1>3. CASE LogSend
  <2>1. /\ sending' = <<>> /\ Head(sending) = sending[1] /\ 1 \in DOMAIN sending
        /\ sending[1] \in Numbered
    BY <1>3 DEF LogSend, WayInv, WayTypes
  <2>2. Numbers(InHand)' = Numbers(InHand) /\ Numbers(sending)' = {}
    BY <1>1, <2>1 DEF InHand, Numbers
  <2>3. CASE UNCHANGED inbox
    <3>1. Numbers(Queued)' = Numbers(Queued)
      BY <2>3 DEF Queued, Numbers
    <3>2. QED
      BY <1>1, <2>2, <3>1 DEF Loses, Parts
  <2>4. CASE inbox' = [inbox EXCEPT !["server"] = Append(@, Head(sending))]
    <3> DEFINE q == Append(Queued, sending[1])  n == Len(Queued)
    <3>1. /\ n \in Nat /\ DOMAIN Queued = 1..n /\ DOMAIN q = 1..(n + 1)
          /\ \A k \in 1..n : q[k] = Queued[k]
          /\ q[n + 1] = sending[1]
      BY <2>1, AppendProperties DEF WayInv, WayTypes
    <3>2. Queued' = q
      BY <2>1, <2>4 DEF WayInv, WayTypes, Queued, Ports
    <3> HIDE DEF q, n
    <3>3. \A k \in DOMAIN q : (k \in DOMAIN Queued /\ q[k] = Queued[k]) \/ q[k] = sending[1]
      BY <3>1
    <3>4. Numbers(q) \subseteq Numbers(Queued) \cup Numbers(sending)
      BY <2>1, <3>3 DEF Numbers
    <3>5. Numbers(Queued)' = Numbers(q)
      BY <3>2 DEF Numbers
    <3>6. QED
      BY <1>1, <2>2, <3>4, <3>5 DEF Loses, Parts
  <2>5. QED
    BY <1>3, <2>3, <2>4 DEF LogSend, SendTo, sockets
<1>4. QED
  BY <1>2, <1>3 DEF ClientNext, SimStep, ListenerStep

\* The number of a message is above all others when it is sent.
LEMMA TestSends ==
  ASSUME WayInv, LogTest, UNCHANGED server
  PROVE  /\ UNCHANGED server_log /\ Parts \subseteq Parts'
         /\ Parts' \ Parts \subseteq {<<"log", number + 1>>} /\ number \in Nat
         /\ \A x \in Parts \cup Numbers(server_log) : x[2] < number + 1
<1>1. PICK l \in LogLevels(sim) :
        sending' = IF l < log_level THEN <<>> ELSE <<[level |-> l, number |-> number + 1]>>
  BY DEF LogTest
<1>2. /\ sending = <<>> /\ number \in Nat
      /\ UNCHANGED <<server_log, buffer, taker, inbox>>
  BY DEF LogTest, sockets, server, WayInv, WayTypes
<1>3. Numbers(InHand)' = Numbers(InHand) /\ Numbers(Queued)' = Numbers(Queued)
  BY <1>2 DEF InHand, Queued, Numbers
<1>4. Numbers(sending) = {}
  BY <1>2 DEF Numbers
<1>5. Numbers(sending)' \subseteq {<<"log", number + 1>>}
  <2> DEFINE s == <<[level |-> l, number |-> number + 1]>>
  <2>1. Numbers(s) = {<<"log", number + 1>>}
    BY DEF Numbers
  <2>2. Numbers(<<>>) = {}
    BY DEF Numbers
  <2> HIDE DEF s
  <2>3. sending' = <<>> \/ sending' = s
    BY <1>1 DEF s
  <2>4. Numbers(sending)' = Numbers(<<>>) \/ Numbers(sending)' = Numbers(s)
    BY <2>3 DEF Numbers
  <2>5. QED
    BY <2>1, <2>2, <2>4
<1>6. ASSUME NEW s, UpTo(s, number), NEW x \in Numbers(s),
             \A k \in DOMAIN s : s[k].number \in Nat
      PROVE  x[2] < number + 1
  BY <1>2, <1>6 DEF Numbers, UpTo
<1>7. \A x \in Parts \cup Numbers(server_log) : x[2] < number + 1
  <2>1. /\ UpTo(server_log, number) /\ UpTo(InHand, number) /\ UpTo(Queued, number)
    BY DEF WayInv, WayInOrder
  <2>2. /\ \A k \in DOMAIN server_log : server_log[k].number \in Nat
        /\ \A k \in DOMAIN Queued : Queued[k].number \in Nat
        /\ \A k \in DOMAIN InHand : InHand[k].number \in Nat
    BY WaySequences, NumbersAreNat DEF WayInv
  <2>3. QED
    BY <1>4, <1>6, <2>1, <2>2 DEF Parts
<1>8. QED
  BY <1>2, <1>3, <1>4, <1>5, <1>7 DEF Parts

\* The message that is written is older than all that are under way.
LEMMA WriteDelivers ==
  ASSUME WayInv, TakerWrite, UNCHANGED client
  PROVE  /\ Parts' \subseteq Parts
         /\ Numbers(server_log)' = Numbers(server_log) \cup (Parts \ Parts')
         /\ \A x \in Parts \ Parts' : \A y \in Parts' : ~(y[2] < x[2])
<1>1. /\ InHand = <<buffer>> /\ InHand' = <<>> /\ buffer \in Numbered
      /\ UNCHANGED <<inbox, sending>>
      /\ server_log' = Append(server_log, buffer) /\ server_log \in Seq(Numbered)
  BY DEF TakerWrite, client, InHand, WayInv, WayTypes, sockets
<1>2. /\ Numbers(InHand)' = {} /\ Numbers(Queued)' = Numbers(Queued)
      /\ Numbers(sending)' = Numbers(sending)
  BY <1>1 DEF Queued, Numbers
<1>3. Numbers(server_log)' = Numbers(server_log) \cup Numbers(InHand)
  <2>1. <<buffer>> \in Seq(Numbered) /\ server_log' = server_log \o InHand
    BY <1>1, AppendIsConcat
  <2>2. Numbers(server_log)' = Numbers(server_log \o InHand)
    BY <2>1 DEF Numbers
  <2>3. QED
    BY <1>1, <2>1, <2>2, NumbersConcat
<1>4. ASSUME NEW x \in Numbers(InHand), NEW y \in Numbers(Queued) \cup Numbers(sending)
      PROVE  x[2] < y[2] /\ x[2] \in Nat /\ y[2] \in Nat
  <2>1. /\ \A k \in DOMAIN Queued : Queued[k].number \in Nat
        /\ \A k \in DOMAIN sending : sending[k].number \in Nat
        /\ \A k \in DOMAIN InHand : InHand[k].number \in Nat
    BY WaySequences, NumbersAreNat DEF WayInv
  <2>2. Before(InHand, Queued) /\ Before(InHand, sending)
    BY DEF WayInv, WayInOrder
  <2>3. QED
    BY <2>1, <2>2 DEF Numbers, Before
<1>5. \A x \in Numbers(InHand) : \A y \in Numbers(Queued) \cup Numbers(sending) :
        x # y /\ ~(y[2] < x[2])
  BY <1>4
<1>6. Parts' = Numbers(Queued) \cup Numbers(sending) /\ Parts = Numbers(InHand) \cup Parts'
  BY <1>2 DEF Parts
<1>7. Parts \ Parts' = Numbers(InHand)
  BY <1>5, <1>6
<1>8. QED
  BY <1>3, <1>5, <1>6, <1>7

\* What the types say of the places.
Facts == /\ Numbers(UnderWay) = Parts
         /\ InHand \in Seq(Numbered) /\ Queued \in Seq(Numbered) /\ sending \in Seq(Numbered)

LEMMA ChannelStep ==
  ASSUME WayInv, Fresh, [Next]_vars, Numbers(UnderWay)' = Parts',
         InHand' \in Seq(Numbered), Queued' \in Seq(Numbered), sending' \in Seq(Numbered)
  PROVE  [Channel!Next]_<<Numbers(UnderWay), Numbers(server_log), {"log"}>>
<1>0. Numbers(UnderWay) = Parts
  BY UnderWayIs DEF WayInv
<1>1. CASE Loses
  <2>1. Numbers(server_log)' = Numbers(server_log)
    BY <1>1 DEF Loses, Numbers
  <2>2. \A x \in Parts : x[1] \in {"log"}
    BY DEF Parts, Numbers
  <2>3. Channel!Break
    BY <1>0, <1>1, <2>1, <2>2 DEF Loses, Channel!Break
  <2>4. QED
    BY <2>3 DEF Channel!Next
<1>2. CASE LogTest /\ UNCHANGED server
  <2>1. /\ UNCHANGED server_log /\ Parts \subseteq Parts'
        /\ Parts' \ Parts \subseteq {<<"log", number + 1>>} /\ number \in Nat
        /\ \A x \in Parts \cup Numbers(server_log) : x[2] < number + 1
    BY <1>2, TestSends
  <2>2. Numbers(server_log)' = Numbers(server_log)
    BY <2>1 DEF Numbers
  <2>3. Parts' \subseteq {"log"} \X Nat
    <3>1. /\ \A k \in DOMAIN InHand' : InHand'[k].number \in Nat
          /\ \A k \in DOMAIN Queued' : Queued'[k].number \in Nat
          /\ \A k \in DOMAIN sending' : sending'[k].number \in Nat
      BY NumbersAreNat
    <3>2. QED
      BY <3>1 DEF Parts, Numbers
  <2>4. \A z \in Parts' \ Parts : \A x \in Parts \cup Numbers(server_log) :
          x[1] = z[1] => Channel!Earlier(x, z)
    BY <2>1 DEF Channel!Earlier
  <2>5. Channel!Send
    BY <1>0, <2>1, <2>2, <2>3, <2>4 DEF Channel!Send
  <2>6. QED
    BY <2>5 DEF Channel!Next
<1>3. CASE TakerWrite /\ UNCHANGED client
  <2>1. /\ Parts' \subseteq Parts
        /\ Numbers(server_log)' = Numbers(server_log) \cup (Parts \ Parts')
        /\ \A x \in Parts \ Parts' : \A y \in Parts' : ~(y[2] < x[2])
    BY <1>3, WriteDelivers
  <2>2. Channel!Deliver
    BY <1>0, <2>1 DEF Channel!Deliver, Channel!Earlier
  <2>3. QED
    BY <2>2 DEF Channel!Next
<1>4. CASE UNCHANGED vars
  <2>1. Loses
    BY <1>4, SameLoses DEF vars, server, client, sockets
  <2>2. QED
    BY <1>1, <2>1
<1>5. QED
  BY <1>1, <1>2, <1>3, <1>4, ServerLoses, ClientLoses DEF Next

\* Logger.cpp:98-123, LogServer.cpp:84-90: Log, the sockets, the receive thread and
\* the file implement an ordered channel that may lose messages: over several
\* runs of the client, and whenever the server is stopped, the file grows by
\* messages that were logged, each once and in their order.
THEOREM RlImplementsChannel == Spec => ImplementsChannel
<1>1. Init => WayInv /\ Fresh /\ Channel!Init
  <2> SUFFICES ASSUME Init PROVE Fresh /\ Channel!Init
    BY WayInit
  <2>1. Fresh
    BY DEF Init, ServerInit, Fresh
  <2>2. Numbers(server_log) = {}
    BY DEF Init, ServerInit, Numbers
  <2>3. Parts = {}
    BY DEF Init, ServerInit, SocketsInit, ClientInit, Parts, Numbers, InHand, Queued, Ports
  <2>4. Numbers(UnderWay) = {}
    BY <2>3, WayInit, UnderWayIs DEF WayInv
  <2>5. QED
    BY <2>1, <2>2, <2>4 DEF Channel!Init
<1>2. WayInv /\ [Next]_vars => WayInv'
  BY WayStep
<1>3. Fresh /\ [Next]_vars => Fresh'
  BY FreshStep
<1>4. WayInv => WayTypes
  BY DEF WayInv
<1>5. WayInv /\ Fresh /\ [Next]_vars /\ Facts /\ Facts'
        => [Channel!Next]_<<Numbers(UnderWay), Numbers(server_log), {"log"}>>
  BY ChannelStep DEF Facts
<1>6. WayTypes => Facts
  BY UnderWayIs, WaySequences DEF Facts
<1>7. QED
  BY <1>1, <1>2, <1>3, <1>4, <1>5, <1>6, PTL
     DEF Spec, ImplementsChannel, Channel!Spec
=============================================================================
