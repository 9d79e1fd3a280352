------------------------------ MODULE ChatProofs ------------------------------
(***************************************************************************)
(* The shutdown of the Lab9 server for every number of clients and texts,  *)
(* whichever clients are killed: SIGPIPE does not end it.  The argument:   *)
(* a connection is reset towards the server only after the server wrote    *)
(* Quit to it, a client is in client_fds once, and each entry is written   *)
(* to once.  Then the texts: each is in one place on the way of its client *)
(* to the screen, and the way is an ordered channel.  Last, the end of the *)
(* server: it leaves no connection open.                                   *)
(***************************************************************************)
EXTENDS Chat, SequenceTheorems, TLAPS

-----------------------------------------------------------------------------
(* Types.                                                                  *)

LEMMA FromType ==
  ASSUME NEW c \in Clients, NEW s \in Seq(Nat) PROVE From(c, s) \in Seq(Texts)
<1>1. Len(s) \in Nat /\ DOMAIN s = 1..Len(s) /\ \A k \in 1..Len(s) : s[k] \in Nat
  OBVIOUS
<1>2. From(c, s) \in [1..Len(s) -> Texts]
  BY <1>1 DEF From, Texts
<1>3. QED
  BY <1>1, <1>2, SeqDef

\* The operations on the connections keep their types.
LEMMA TcpTypes ==
  ASSUME TcpTypeOK, NEW c \in Clients
  PROVE  /\ TcpConnect(c) => TcpTypeOK'
         /\ TcpAccept => TcpTypeOK' /\ Head(backlog) \in Clients
         /\ \A text \in Nat : TcpClientWrite(c, text) => TcpTypeOK'
         /\ TcpServerWrite(c) => TcpTypeOK'
         /\ TcpClientClose(c) => TcpTypeOK'
<1>1. TcpConnect(c) => TcpTypeOK'
  BY DEF TcpTypeOK, TcpConnect
<1>2. TcpAccept => TcpTypeOK' /\ Head(backlog) \in Clients
  BY DEF TcpTypeOK, TcpAccept
<1>3. ASSUME NEW text \in Nat, TcpClientWrite(c, text) PROVE TcpTypeOK'
  <2>1. CASE ServerHolds(c)
    <3>1. Append(toServer[c], text) \in Seq(Nat)
      BY AppendProperties DEF TcpTypeOK
    <3>2. QED
      BY <1>3, <2>1, <3>1 DEF TcpTypeOK, TcpClientWrite
  <2>2. CASE ~ServerHolds(c)
    BY <1>3, <2>2 DEF TcpTypeOK, TcpClientWrite
  <2>3. QED
    BY <2>1, <2>2
<1>4. TcpServerWrite(c) => TcpTypeOK'
  BY DEF TcpTypeOK, TcpServerWrite
<1>5. TcpClientClose(c) => TcpTypeOK'
  <2>1. SUFFICES ASSUME TcpClientClose(c) PROVE TcpTypeOK'
    OBVIOUS
  <2>2. server_reset' \in [Clients -> BOOLEAN]
    BY <2>1, Zenon DEF TcpTypeOK, TcpClientClose
  <2>3. QED
    BY <2>1, <2>2 DEF TcpTypeOK, TcpClientClose
<1>6. QED
  BY <1>1, <1>2, <1>3, <1>4, <1>5

LEMMA TcpServerCloseTypes ==
  ASSUME TcpTypeOK, NEW C, TcpServerClose(C), UNCHANGED <<listening, backlog>>
  PROVE  TcpTypeOK'
BY DEF TcpTypeOK, TcpServerClose

\* Every step of the main thread keeps the types.
LEMMA ServerTypes == ASSUME TypeOK, ServerMain \/ (SVSigint /\ UNCHANGED clVars)
                     PROVE  TypeOK'
<1> USE DEF TypeOK
<1>0. CLTypeOK'
  BY DEF ServerMain, CLTypeOK, clVars
<1>1. CASE SVAccept
  <2>1. CASE ~sv_running \/ backlog = <<>>
    BY <1>0, <1>1, <2>1 DEF SVAccept, SVGoto, SVTypeOK, TcpTypeOK, tcp
  <2>2. CASE sv_running /\ backlog # <<>>
    <3>1. TcpAccept /\ TcpTypeOK' /\ Head(backlog) \in Clients
      BY <1>1, <2>2, TcpTypes DEF SVAccept, TcpTypeOK
    <3>0. client_fds' = Append(client_fds, Head(backlog))
      BY <1>1, <2>2 DEF SVAccept
    <3>2. client_fds' \in Seq(Clients)
      BY <3>0, <3>1, AppendProperties DEF SVTypeOK
    <3>3. sv_thread' \in [Clients -> {"none", "test", "read", "reading", "push", "exited"}]
      BY <1>1, <2>2, <3>1 DEF SVAccept, SVTypeOK
    <3>4. SVTypeOK'
      BY <1>1, <2>2, <3>2, <3>3 DEF SVAccept, SVGoto, SVTypeOK
    <3>5. QED
      BY <1>0, <3>1, <3>4
  <2>3. QED
    BY <2>1, <2>2 DEF SVTypeOK
<1>2. CASE SVDrain
  BY <1>0, <1>2 DEF SVDrain, SVGoto, SVTypeOK, TcpTypeOK, tcp
<1>3. CASE SVQuit
  <2>1. quitting \in 1..Len(client_fds) => client_fds[quitting] \in Clients
    BY DEF SVTypeOK
  <2>2. QED
    <3>1. TcpTypeOK'
      <4>1. CASE server_reset[client_fds[quitting]]
        BY <1>3, <4>1 DEF SVQuit, TcpTypeOK, tcp
      <4>2. CASE ~server_reset[client_fds[quitting]]
        <5>1. TcpServerWrite(client_fds[quitting]) /\ client_fds[quitting] \in Clients
          BY <1>3, <2>1, <4>2 DEF SVQuit, SVTypeOK
        <5>2. QED
          BY <5>1, TcpTypes
      <4>3. QED
        BY <4>1, <4>2
    <3>2. sv_main' \in {"killed", "close"}
      BY <1>3 DEF SVQuit, SVGoto
    <3>3. QED
      BY <1>0, <1>3, <3>1, <3>2 DEF SVQuit, SVTypeOK
<1>4. CASE SVClose
  <2>1. TcpTypeOK'
    BY <1>4, TcpServerCloseTypes DEF SVClose, TcpTypeOK
  <2>2. SVTypeOK'
    BY <1>4 DEF SVClose, SVGoto, SVTypeOK
  <2>3. QED
    BY <1>0, <2>1, <2>2
<1>5. CASE SVEndOfQuit \/ SVJoin
  BY <1>0, <1>5 DEF SVEndOfQuit, SVJoin, SVGoto, SVTypeOK, TcpTypeOK, tcp
<1>6. CASE SVCloseListen
  <2>1. TcpTypeOK'
    <3>1. listening' \in BOOLEAN /\ backlog' \in Seq(Clients)
      BY <1>6, EmptySeq DEF SVCloseListen
    <3>2. QED
      BY <1>6, <3>1 DEF SVCloseListen, TcpServerClose, TcpTypeOK
  <2>2. SVTypeOK'
    BY <1>6 DEF SVCloseListen, SVGoto, SVTypeOK
  <2>3. QED
    BY <1>0, <2>1, <2>2
<1>7. CASE SVSigint
  BY <1>0, <1>7 DEF SVSigint, SVTypeOK, TcpTypeOK, tcp
<1>8. QED
  BY <1>1, <1>2, <1>3, <1>4, <1>5, <1>6, <1>7 DEF ServerMain, SVStep

\* So does every step of a receive thread.
LEMMA ReceiverTypes == ASSUME TypeOK, NEW c \in Clients, Receiver(c) PROVE TypeOK'
<1> USE DEF TypeOK
<1>0. CLTypeOK'
  BY DEF Receiver, CLTypeOK, clVars
<1>1. CASE THTest(c)
  BY <1>0, <1>1 DEF THTest, THGoto, SVTypeOK, TcpTypeOK, tcp
<1>2. CASE THRead(c)
  BY <1>0, <1>2 DEF THRead, THGoto, SVTypeOK, TcpTypeOK, tcp
<1>3. CASE THData(c)
  <2>1. TcpTypeOK'
    <3>1. CASE server_end[c] = "held"
      BY <1>3, <3>1, TcpServerCloseTypes DEF THData
    <3>2. CASE server_end[c] # "held"
      BY <1>3, <3>2, EmptySeq DEF THData, TcpTypeOK
    <3>3. QED
      BY <3>1, <3>2
  <2>2. in_hand' \in [Clients -> Seq(Nat)]
    BY <1>3 DEF THData, SVTypeOK, TcpTypeOK
  <2>3. QED
    BY <1>0, <1>3, <2>1, <2>2 DEF THData, THGoto, SVTypeOK
<1>4. CASE THNoData(c)
  <2>1. TcpTypeOK'
    BY <1>4, TcpServerCloseTypes DEF THNoData, Release, TcpTypeOK, tcp
  <2>2. QED
    BY <1>0, <1>4, <2>1 DEF THNoData, THGoto, SVTypeOK
<1>5. CASE THPush(c)
  <2>1. message_queue' \in Seq(Texts)
    BY <1>5, FromType, ConcatProperties DEF THPush, SVTypeOK
  <2>2. in_hand' \in [Clients -> Seq(Nat)]
    BY <1>5, EmptySeq DEF THPush, SVTypeOK
  <2>3. QED
    BY <1>0, <1>5, <2>1, <2>2 DEF THPush, THGoto, SVTypeOK, TcpTypeOK, tcp
<1>6. QED
  BY <1>1, <1>2, <1>3, <1>4, <1>5 DEF Receiver, THStep

\* And every step of a client.
LEMMA ClientTypes ==
  ASSUME TypeOK, NEW c \in Clients,
         \/ ClientMain(c) \/ ClientThread(c)
         \/ CLKill(c) /\ UNCHANGED svVars
  PROVE  TypeOK'
<1> USE DEF TypeOK
<1>0. SVTypeOK'
  BY DEF ClientMain, ClientThread, SVTypeOK, svVars
<1>1. ASSUME NEW how \in {"exited", "killed"}, EndClient(c, how) PROVE TypeOK'
  <2>1. TcpTypeOK'
    BY <1>1, TcpTypes DEF EndClient
  <2>2. QED
    BY <1>0, <1>1, <2>1 DEF EndClient, CLTypeOK
<1>2. CASE CLConnect(c)
  BY <1>0, <1>1, <1>2, TcpTypes DEF CLConnect, CLGoto, CLTypeOK
<1>3. CASE CLCreate(c)
  BY <1>0, <1>1, <1>3 DEF CLCreate, CLGoto, CLTypeOK, TcpTypeOK, tcp
<1>4. CASE CLSetRunning(c)
  BY <1>0, <1>4 DEF CLSetRunning, CLGoto, CLTypeOK, TcpTypeOK, tcp
<1>5. CASE CLLoop(c)
  BY <1>0, <1>1, <1>5 DEF CLLoop, CLGoto, CLTypeOK, TcpTypeOK, tcp
<1>6. CASE CLWrite(c)
  <2>1. CASE client_reset[c] = "pipe"
    BY <1>1, <1>6, <2>1 DEF CLWrite
  <2>2. CASE client_reset[c] # "pipe"
    <3>1. written[c] \in Nat /\ written[c] + 1 \in Nat
      BY DEF CLTypeOK
    <3>2. TcpTypeOK'
      BY <1>6, <2>2, <3>1, TcpTypes DEF CLWrite, TcpTypeOK, tcp
    <3>3. written' \in [Clients -> Nat]
      BY <1>6, <2>2, <3>1 DEF CLWrite, CLTypeOK
    <3>4. QED
      BY <1>0, <1>6, <2>2, <3>2, <3>3 DEF CLWrite, CLGoto, CLTypeOK
  <2>3. QED
    BY <2>1, <2>2
<1>7. CASE CLTest(c)
  BY <1>0, <1>7 DEF CLTest, CLTypeOK, TcpTypeOK, tcp
<1>8. CASE CLRead(c)
  <2>1. toClient' \in [Clients -> BOOLEAN] /\ cl_running' \in [Clients -> BOOLEAN]
    BY <1>8, Zenon DEF CLRead, TcpTypeOK, CLTypeOK, tcp
  <2>2. QED
    BY <1>0, <1>8, <2>1 DEF CLRead, CLTypeOK, TcpTypeOK, tcp
<1>9. CASE CLKill(c)
  BY <1>1, <1>9 DEF CLKill
<1>10. QED
  BY <1>2, <1>3, <1>4, <1>5, <1>6, <1>7, <1>8, <1>9
     DEF ClientMain, ClientThread, CLMain, CLThread

LEMMA ChatTypeInit == Init => TypeOK
<1> SUFFICES ASSUME Init PROVE TypeOK
  OBVIOUS
<1>1. TcpTypeOK
  <2>1. listening \in BOOLEAN /\ backlog \in Seq(Clients)
    BY EmptySeq DEF Init, TcpInit
  <2>2. QED
    BY <2>1, EmptySeq DEF Init, TcpInit, TcpTypeOK
<1>2. SVTypeOK
  BY EmptySeq DEF Init, SVInit, SVTypeOK
<1>3. CLTypeOK
  BY DEF Init, CLInit, CLTypeOK
<1>4. QED
  BY <1>1, <1>2, <1>3 DEF TypeOK

LEMMA TypeNext == TypeOK /\ [Next]_vars => TypeOK'
<1>1. TypeOK /\ UNCHANGED vars => TypeOK'
  BY DEF TypeOK, TcpTypeOK, SVTypeOK, CLTypeOK, vars, tcp, svVars, clVars
<1>2. QED
  BY <1>1, ServerTypes, ReceiverTypes, ClientTypes DEF Next

\* Type correctness of server, clients and connections, for any number of
\* clients and texts.
THEOREM ChatTypeCorrect == Spec => []TypeOK
BY TypeNext, ChatTypeInit, PTL DEF Spec
-----------------------------------------------------------------------------
(* SIGPIPE does not end the server.                                        *)

Distinct(s) == \A j, k \in DOMAIN s : s[j] = s[k] => j = k

\* A client is on one list, once; before connect() it is on none.
Lists ==
  /\ Distinct(backlog) /\ \A k \in DOMAIN backlog : server_end[backlog[k]] = "backlog"
  /\ Distinct(client_fds)
  /\ \A k \in DOMAIN client_fds : server_end[client_fds[k]] \in {"open", "held", "closed"}
  /\ \A c \in Clients : cl_main[c] = "connect" => server_end[c] = "none"

\* The loop over client_fds has written to client c.
Quitted(c) ==
  \E k \in DOMAIN client_fds :
    client_fds[k] = c /\ (k < quitting \/ (k = quitting /\ sv_main = "close"))

\* Only a client that was written to can reset the connection.
ResetsFollow == \A c \in Clients : (toClient[c] => Quitted(c)) /\ (server_reset[c] => Quitted(c))

Quits == /\ sv_main # "killed" /\ (sv_main \in {"loop", "drain"} => quitting = 1)
         /\ (sv_main = "close" => quitting \in DOMAIN client_fds)
         /\ ResetsFollow

QuitInv == TypeOK /\ Lists /\ Quits

\* The lists change when a client connects or is accepted.
LEMMA ListsConnect ==
  ASSUME TypeOK, Lists, NEW c \in Clients, cl_main[c] = "connect", TcpConnect(c),
         UNCHANGED client_fds, NEW to, to # "connect", cl_main' = [cl_main EXCEPT ![c] = to]
  PROVE  Lists'
<1>0. /\ backlog \in Seq(Clients) /\ client_fds \in Seq(Clients)
      /\ server_end \in [Clients -> {"none", "backlog", "open", "held", "closed"}]
      /\ cl_main \in [Clients -> {"connect", "create", "flag", "loop", "write", "exited",
                                  "killed"}]
  BY DEF TypeOK, TcpTypeOK, CLTypeOK, SVTypeOK
<1>1. server_end[c] = "none" /\ \A k \in DOMAIN backlog : backlog[k] # c
  BY DEF Lists
<1>2. backlog' = Append(backlog, c) /\ backlog \in Seq(Clients)
  BY <1>0 DEF TcpConnect
<1>3. /\ DOMAIN backlog' = 1..(Len(backlog) + 1) /\ DOMAIN backlog = 1..Len(backlog)
      /\ \A k \in 1..Len(backlog) : backlog'[k] = backlog[k]
      /\ backlog'[Len(backlog) + 1] = c /\ Len(backlog) \in Nat
  BY <1>2
<1>4. server_end' = [server_end EXCEPT ![c] = "backlog"]
  BY DEF TcpConnect
<1>5. Distinct(backlog)' /\ \A k \in DOMAIN backlog' : server_end'[backlog'[k]] = "backlog"
  <2>1. \A k \in 1..Len(backlog) : backlog[k] \in Clients
    BY <1>2
  <2>2. QED
    <3>1. \A j, k \in 1..Len(backlog) : backlog[j] = backlog[k] => j = k
      BY <1>3 DEF Lists, Distinct
    <3>2. Distinct(backlog)'
      BY <1>1, <1>3, <3>1 DEF Distinct
    <3>3. \A k \in 1..Len(backlog) : server_end[backlog[k]] = "backlog"
      BY <1>3 DEF Lists
    <3>4. \A k \in 1..Len(backlog) : server_end'[backlog'[k]] = "backlog"
      BY <1>0, <1>1, <1>3, <1>4, <2>1, <3>3
    <3>5. server_end'[backlog'[Len(backlog) + 1]] = "backlog"
      BY <1>0, <1>3, <1>4
    <3>6. QED
      BY <1>3, <3>2, <3>4, <3>5
<1>6. Distinct(client_fds)'
  BY DEF Distinct, Lists
<1>7. \A k \in DOMAIN client_fds : client_fds[k] # c /\ client_fds[k] \in Clients
  BY <1>0, <1>1 DEF Lists
<1>8. QED
  BY <1>0, <1>4, <1>5, <1>6, <1>7 DEF Lists

LEMMA ListsAccept ==
  ASSUME TypeOK, Lists, TcpAccept, client_fds' = Append(client_fds, Head(backlog)),
         UNCHANGED cl_main
  PROVE  Lists'
<1> DEFINE c == Head(backlog)
<1>0. /\ backlog \in Seq(Clients) /\ client_fds \in Seq(Clients)
      /\ server_end \in [Clients -> {"none", "backlog", "open", "held", "closed"}]
  BY DEF TypeOK, TcpTypeOK, CLTypeOK, SVTypeOK
<1>1. /\ backlog \in Seq(Clients) /\ backlog # <<>> /\ backlog' = Tail(backlog)
      /\ server_end' = [server_end EXCEPT ![c] = "open"]
  BY <1>0 DEF TcpAccept
<1>2. /\ c = backlog[1] /\ c \in Clients /\ 1 \in DOMAIN backlog
      /\ DOMAIN backlog = 1..Len(backlog) /\ DOMAIN backlog' = 1..(Len(backlog) - 1)
      /\ Len(backlog) \in Nat
      /\ \A k \in 1..(Len(backlog) - 1) : backlog'[k] = backlog[k + 1]
  BY <1>1
<1>3. server_end[c] = "backlog"
  <2>1. \A k \in DOMAIN backlog : server_end[backlog[k]] = "backlog"
    BY DEF Lists
  <2>2. QED
    BY <1>2, <2>1
<1>4. Distinct(backlog)' /\ \A k \in DOMAIN backlog' : backlog'[k] # c
  <2>1. \A j, k \in 1..Len(backlog) : backlog[j] = backlog[k] => j = k
    BY <1>2 DEF Lists, Distinct
  <2>2. \A k \in 1..(Len(backlog) - 1) : k + 1 \in 1..Len(backlog)
    BY <1>2
  <2>3. \A k \in DOMAIN backlog' : backlog'[k] # c
    <3>1. SUFFICES ASSUME NEW k \in 1..(Len(backlog) - 1), backlog[k + 1] = backlog[1]
                   PROVE  FALSE
      BY <1>2
    <3>2. k + 1 = 1
      BY <1>2, <2>1, <2>2, <3>1
    <3>3. QED
      BY <3>2
  <2>4. ASSUME NEW j \in DOMAIN backlog', NEW k \in DOMAIN backlog', backlog'[j] = backlog'[k]
        PROVE  j = k
    <3>1. j \in 1..(Len(backlog) - 1) /\ k \in 1..(Len(backlog) - 1)
      BY <1>2
    <3>2. backlog[j + 1] = backlog[k + 1]
      BY <1>2, <2>4, <3>1
    <3>3. j + 1 = k + 1
      BY <2>1, <2>2, <3>1, <3>2
    <3>4. QED
      BY <3>1, <3>3
  <2>5. QED
    BY <2>3, <2>4 DEF Distinct
<1>5. \A k \in DOMAIN backlog' : server_end'[backlog'[k]] = "backlog"
  <2>1. \A k \in DOMAIN backlog' : backlog'[k] \in Clients /\ server_end[backlog'[k]] = "backlog"
    <3>1. \A k \in 1..Len(backlog) : backlog[k] \in Clients /\ server_end[backlog[k]] = "backlog"
      BY <1>1, <1>2 DEF Lists
    <3>2. \A k \in 1..(Len(backlog) - 1) : k + 1 \in 1..Len(backlog)
      BY <1>2
    <3>3. QED
      BY <1>2, <3>1, <3>2
  <2>2. QED
    BY <1>0, <1>1, <1>4, <2>1
<1>6. \A k \in DOMAIN client_fds : client_fds[k] # c /\ client_fds[k] \in Clients
  <2>1. \A k \in DOMAIN client_fds : server_end[client_fds[k]] \in {"open", "held", "closed"}
    BY DEF Lists
  <2>2. QED
    BY <1>0, <1>3, <2>1
<1>7. /\ DOMAIN client_fds' = 1..(Len(client_fds) + 1)
      /\ DOMAIN client_fds = 1..Len(client_fds) /\ Len(client_fds) \in Nat
      /\ \A k \in 1..Len(client_fds) : client_fds'[k] = client_fds[k]
      /\ client_fds'[Len(client_fds) + 1] = c
  BY <1>0, <1>2
<1>8. Distinct(client_fds)'
  <2>1. \A j, k \in 1..Len(client_fds) : client_fds[j] = client_fds[k] => j = k
    BY <1>7 DEF Lists, Distinct
  <2>2. \A k \in 1..Len(client_fds) : client_fds'[k] # c
    BY <1>6, <1>7
  <2>3. \A k \in 1..(Len(client_fds) + 1) : k \in 1..Len(client_fds) \/ k = Len(client_fds) + 1
    BY <1>7
  <2>4. QED
    BY <1>7, <2>1, <2>2, <2>3 DEF Distinct
<1>9. \A k \in DOMAIN client_fds' : server_end'[client_fds'[k]] \in {"open", "held", "closed"}
  <2>1. \A k \in 1..Len(client_fds) :
          server_end'[client_fds'[k]] \in {"open", "held", "closed"}
    BY <1>0, <1>1, <1>2, <1>6, <1>7 DEF Lists
  <2>2. server_end'[client_fds'[Len(client_fds) + 1]] = "open"
    BY <1>0, <1>1, <1>2, <1>7
  <2>3. QED
    BY <1>7, <2>1, <2>2
<1>10. \A d \in Clients : cl_main'[d] = "connect" => server_end'[d] = "none"
  BY <1>0, <1>1, <1>3 DEF Lists
<1>11. QED
  BY <1>4, <1>5, <1>8, <1>9, <1>10 DEF Lists

\* They do not change otherwise: a descriptor in client_fds only goes from
\* open over held to closed.
LEMMA ListsKept ==
  ASSUME TypeOK, Lists, UNCHANGED <<backlog, client_fds>>, NEW c \in Clients,
         \/ UNCHANGED server_end
         \/ /\ server_end[c] \in {"open", "held", "closed"}
            /\ \E to \in {"held", "closed"} : server_end' = [server_end EXCEPT ![c] = to],
         \A d \in Clients : cl_main'[d] = "connect" => cl_main[d] = "connect"
  PROVE  Lists'
<1>1. /\ \A k \in DOMAIN backlog : backlog[k] \in Clients
      /\ \A k \in DOMAIN client_fds : client_fds[k] \in Clients
  BY DEF TypeOK, TcpTypeOK, SVTypeOK
<1>2. Distinct(backlog)' /\ Distinct(client_fds)'
  BY DEF Lists, Distinct
<1>3. CASE UNCHANGED server_end
  BY <1>2, <1>3 DEF Lists
<1>4. CASE /\ server_end[c] \in {"open", "held", "closed"}
           /\ \E to \in {"held", "closed"} : server_end' = [server_end EXCEPT ![c] = to]
  BY <1>1, <1>2, <1>4 DEF Lists, TypeOK, TcpTypeOK
<1>5. QED
  BY <1>3, <1>4
\* Every step keeps the lists.
LEMMA ListsNext == ASSUME TypeOK, Lists, Quits, [Next]_vars PROVE Lists'
<1>0. ASSUME NEW c \in Clients, UNCHANGED <<backlog, client_fds, server_end>>,
             \A d \in Clients : cl_main'[d] = "connect" => cl_main[d] = "connect"
      PROVE  Lists'
  BY <1>0, ListsKept
<1>1. CASE ServerMain
  <2>1. cl_main' = cl_main
    BY <1>1 DEF ServerMain, clVars
  <2>2. CASE SVAccept
    <3>1. CASE ~sv_running \/ backlog = <<>>
      BY <2>1, <2>2, <3>1 DEF SVAccept, Lists, tcp
    <3>2. CASE sv_running /\ backlog # <<>>
      BY <2>1, <2>2, <3>2, ListsAccept DEF SVAccept
    <3>3. QED
      BY <3>1, <3>2 DEF TypeOK, SVTypeOK
  <2>3. CASE SVDrain \/ SVEndOfQuit \/ SVJoin
    BY <2>1, <2>3 DEF SVDrain, SVEndOfQuit, SVJoin, Lists, tcp
  <2>4. CASE SVQuit
    <3>1. UNCHANGED <<backlog, client_fds, server_end>>
      BY <2>4 DEF SVQuit, TcpServerWrite, tcp
    <3>2. QED
      BY <2>1, <3>1 DEF Lists
  <2>5. CASE SVClose
    <3> DEFINE c == client_fds[quitting]
    <3>1. quitting \in DOMAIN client_fds
      <4>1. sv_main = "close"
        BY <2>5 DEF SVClose, SVGoto
      <4>2. QED
        BY <4>1 DEF Quits
    <3>2. c \in Clients /\ server_end[c] \in {"open", "held", "closed"}
      BY <3>1 DEF Lists, TypeOK, SVTypeOK
    <3>3. UNCHANGED <<backlog, client_fds>>
      BY <2>5 DEF SVClose
    <3>4. \E to \in {"held", "closed"} : server_end' = [server_end EXCEPT ![c] = to]
      BY <2>5, <3>2 DEF SVClose, TcpServerClose, TypeOK, TcpTypeOK
    <3>5. QED
      BY <2>1, <3>2, <3>3, <3>4, ListsKept
  <2>6. CASE SVCloseListen
    <3>1. backlog' = <<>> /\ client_fds' = client_fds
      BY <2>6 DEF SVCloseListen
    <3>2. \A c \in Clients : server_end'[c] = IF server_end[c] = "backlog" THEN "closed"
                                              ELSE server_end[c]
      BY <2>6 DEF SVCloseListen, TcpServerClose
    <3>3. \A k \in DOMAIN client_fds : client_fds[k] \in Clients
      BY DEF TypeOK, SVTypeOK
    <3>4. QED
      BY <2>1, <3>1, <3>2, <3>3 DEF Lists, Distinct
  <2>7. QED
    BY <1>1, <2>2, <2>3, <2>4, <2>5, <2>6 DEF ServerMain, SVStep
<1>2. CASE SVSigint /\ UNCHANGED clVars
  BY <1>2 DEF SVSigint, clVars, Lists, tcp
<1>3. ASSUME NEW c \in Clients, Receiver(c) PROVE Lists'
  <2>1. UNCHANGED <<backlog, client_fds, cl_main>>
    BY <1>3 DEF Receiver, THStep, THTest, THRead, THData, THNoData, THPush, THGoto,
               Release, clVars, tcp
  <2>2. CASE UNCHANGED server_end
    BY <1>0, <2>1, <2>2
  <2>3. CASE server_end[c] = "held" /\ TcpServerClose({c})
    <3>1. server_end' = [server_end EXCEPT ![c] = "closed"]
      BY <2>3 DEF TcpServerClose, TypeOK, TcpTypeOK
    <3>2. QED
      BY <2>1, <2>3, <3>1, ListsKept
  <2>4. QED
    BY <1>3, <2>2, <2>3 DEF Receiver, THStep, THTest, THRead, THData, THNoData, THPush,
                            Release, tcp
<1>4. ASSUME NEW c \in Clients, NEW how \in {"exited", "killed"}, EndClient(c, how),
             UNCHANGED svVars
      PROVE  Lists'
  BY <1>0, <1>4 DEF EndClient, TcpClientClose, svVars, TypeOK, CLTypeOK
<1>5. ASSUME NEW c \in Clients, ClientMain(c) PROVE Lists'
  <2>1. UNCHANGED svVars
    BY <1>5 DEF ClientMain
  <2>2. CASE CLConnect(c)
    <3>1. CASE listening
      BY <2>1, <2>2, <3>1, ListsConnect DEF CLConnect, CLGoto, svVars
    <3>2. CASE ~listening
      BY <1>4, <2>1, <2>2, <3>2 DEF CLConnect
    <3>3. QED
      BY <3>1, <3>2
  <2>3. CASE CLCreate(c) \/ CLSetRunning(c) \/ CLLoop(c)
    BY <1>0, <1>4, <2>1, <2>3
       DEF CLCreate, CLSetRunning, CLLoop, CLGoto, svVars, tcp, TypeOK, CLTypeOK
  <2>4. CASE CLWrite(c)
    BY <1>0, <1>4, <2>1, <2>4
       DEF CLWrite, CLGoto, TcpClientWrite, svVars, tcp, TypeOK, CLTypeOK
  <2>5. QED
    BY <1>5, <2>2, <2>3, <2>4 DEF ClientMain, CLMain
<1>6. ASSUME NEW c \in Clients, ClientThread(c) PROVE Lists'
  <2>1. UNCHANGED <<backlog, client_fds, server_end, cl_main>>
    BY <1>6 DEF ClientThread, CLThread, CLTest, CLRead, svVars, tcp
  <2>2. QED
    BY <1>0, <2>1
<1>7. ASSUME NEW c \in Clients, CLKill(c), UNCHANGED svVars PROVE Lists'
  BY <1>4, <1>7 DEF CLKill
<1>8. CASE UNCHANGED vars
  BY <1>8 DEF vars, tcp, svVars, clVars, Lists
<1>9. QED
  BY <1>1, <1>2, <1>3, <1>5, <1>6, <1>7, <1>8 DEF Next
\* What was written to stays so.
LEMMA QuittedKept ==
  ASSUME TypeOK, client_fds' = client_fds,
         \/ UNCHANGED <<sv_main, quitting>>
         \/ sv_main # "close" /\ quitting' = quitting
         \/ sv_main = "close" /\ quitting' = quitting + 1
  PROVE  \A c \in Clients : Quitted(c) => Quitted(c)'
<1>1. quitting \in Nat /\ DOMAIN client_fds \subseteq Nat
  BY DEF TypeOK, SVTypeOK
<1>2. QED
  BY <1>1 DEF Quitted

\* A step that puts no Quit on the way, and turns at most a Quit into a reset.
LEMMA ResetsKept ==
  ASSUME TypeOK, ResetsFollow, \A c \in Clients : Quitted(c) => Quitted(c)',
         \A c \in Clients : toClient'[c] => toClient[c],
         \A c \in Clients : server_reset'[c] => (server_reset[c] \/ toClient[c])
  PROVE  ResetsFollow'
BY Zenon DEF ResetsFollow

\* Every step keeps what the loop over client_fds relies on.
LEMMA QuitsNext == ASSUME QuitInv, [Next]_vars PROVE Quits'
<1> USE DEF QuitInv
<1>0. ASSUME UNCHANGED svVars,
             \A c \in Clients : toClient'[c] => toClient[c],
             \A c \in Clients : server_reset'[c] => (server_reset[c] \/ toClient[c])
      PROVE  Quits'
  <2>1. UNCHANGED <<sv_main, quitting, client_fds>>
    BY <1>0 DEF svVars
  <2>2. ResetsFollow'
    BY <1>0, <2>1, QuittedKept, ResetsKept DEF Quits
  <2>3. QED
    BY <2>1, <2>2 DEF Quits
<1>1. CASE SVAccept
  <2>1. quitting = 1 /\ quitting' = 1 /\ sv_main = "loop" /\ sv_main' \in {"drain", "quit"}
    BY <1>1 DEF SVAccept, SVGoto, Quits
  <2>2. \A c \in Clients : ~Quitted(c)
    BY <2>1 DEF Quitted, TypeOK, SVTypeOK
  <2>3. UNCHANGED <<toClient, server_reset>>
    BY <1>1 DEF SVAccept, TcpAccept, tcp
  <2>4. ResetsFollow'
    BY <2>2, <2>3, Zenon DEF Quits, ResetsFollow
  <2>5. QED
    BY <2>1, <2>4 DEF Quits
<1>2. CASE SVDrain \/ SVEndOfQuit \/ SVJoin \/ SVCloseListen
  <2>1. /\ UNCHANGED <<client_fds, quitting, toClient, server_reset>> /\ sv_main # "close"
        /\ sv_main' \in {"loop", "join", "closeListen", "done"}
        /\ (sv_main' = "loop" => sv_main = "drain")
    BY <1>2 DEF SVDrain, SVEndOfQuit, SVJoin, SVCloseListen, SVGoto, TcpServerClose, tcp
  <2>2. ResetsFollow'
    BY <2>1, QuittedKept, ResetsKept DEF Quits
  <2>3. QED
    BY <2>1, <2>2 DEF Quits
<1>3. CASE SVQuit
  <2> DEFINE c == client_fds[quitting]
  <2>1. sv_main = "quit" /\ quitting' = quitting /\ client_fds' = client_fds
    BY <1>3 DEF SVQuit, SVGoto
  <2>2. /\ quitting \in DOMAIN client_fds /\ c \in Clients /\ quitting \in Nat
        /\ DOMAIN client_fds \subseteq Nat
    BY <1>3 DEF SVQuit, TypeOK, SVTypeOK
  <2>3. ~Quitted(c)
    <3>1. \A k \in DOMAIN client_fds : client_fds[k] = c => k = quitting
      BY <2>2 DEF Lists, Distinct
    <3>2. QED
      BY <2>1, <2>2, <3>1 DEF Quitted
  <2>4. ~server_reset[c]
    BY <2>2, <2>3, Zenon DEF Quits, ResetsFollow
  <2>5. sv_main' = "close" /\ TcpServerWrite(c)
    BY <1>3, <2>4 DEF SVQuit, SVGoto
  <2>6. Quitted(c)'
    BY <2>1, <2>2, <2>5 DEF Quitted
  <2>7. \A d \in Clients : Quitted(d) => Quitted(d)'
    BY <2>1, QuittedKept
  <2>8. \A d \in Clients : d # c => /\ toClient'[d] = toClient[d]
                                    /\ server_reset'[d] = server_reset[d]
    BY <2>5 DEF TcpServerWrite, TypeOK, TcpTypeOK
  <2>9. ResetsFollow'
    <3>1. SUFFICES ASSUME NEW d \in Clients
                   PROVE  (toClient'[d] => Quitted(d)') /\ (server_reset'[d] => Quitted(d)')
      BY Zenon DEF ResetsFollow
    <3>2. CASE d = c
      <4>1. Quitted(d)'
        BY <2>1, <2>2, <2>5, <3>2 DEF Quitted
      <4>2. QED
        BY <4>1, Zenon
    <3>3. CASE d # c
      BY <2>7, <2>8, <3>3, Zenon DEF Quits, ResetsFollow
    <3>4. QED
      BY <3>2, <3>3
  <2>10. QED
    BY <2>1, <2>2, <2>5, <2>9 DEF Quits
<1>4. CASE SVClose
  <2>1. /\ sv_main = "close" /\ sv_main' = "quit" /\ quitting' = quitting + 1
        /\ UNCHANGED <<client_fds, toClient, server_reset>>
    BY <1>4 DEF SVClose, SVGoto, TcpServerClose
  <2>2. ResetsFollow'
    BY <2>1, QuittedKept, ResetsKept DEF Quits
  <2>3. QED
    BY <2>1, <2>2 DEF Quits
<1>5. ASSUME UNCHANGED <<sv_main, quitting, client_fds, toClient, server_reset>>
      PROVE  Quits'
  BY <1>5, QuittedKept, ResetsKept DEF Quits
<1>6. CASE SVSigint
  BY <1>5, <1>6 DEF SVSigint, tcp
<1>7. ASSUME NEW c \in Clients, THStep(c) PROVE Quits'
  BY <1>5, <1>7 DEF THStep, THTest, THRead, THData, THNoData, THPush, Release,
                    TcpServerClose, tcp
<1>8. ASSUME NEW c \in Clients, TcpClientClose(c), UNCHANGED svVars PROVE Quits'
  <2>1. toClient' = toClient
    BY <1>8 DEF TcpClientClose
  <2>2. \A d \in Clients : server_reset'[d] => (server_reset[d] \/ toClient[d])
    BY <1>8, Zenon DEF TcpClientClose, TypeOK, TcpTypeOK
  <2>3. QED
    BY <1>0, <1>8, <2>1, <2>2
<1>9. ASSUME NEW c \in Clients, ClientMain(c) PROVE Quits'
  <2>1. UNCHANGED svVars
    BY <1>9 DEF ClientMain
  <2>2. UNCHANGED <<toClient, server_reset>> \/ TcpClientClose(c)
    BY <1>9 DEF ClientMain, CLMain, CLConnect, CLCreate, CLSetRunning, CLLoop, CLWrite,
                EndClient, TcpConnect, TcpClientWrite, tcp
  <2>3. QED
    BY <1>0, <1>8, <2>1, <2>2
<1>10. ASSUME NEW c \in Clients, ClientThread(c) PROVE Quits'
  <2>1. UNCHANGED svVars /\ server_reset' = server_reset
    BY <1>10 DEF ClientThread, CLThread, CLTest, CLRead, tcp
  <2>2. toClient' = toClient \/ toClient' = [toClient EXCEPT ![c] = FALSE]
    BY <1>10 DEF ClientThread, CLThread, CLTest, CLRead, tcp
  <2>3. \A d \in Clients : toClient'[d] => toClient[d]
    BY <2>2, Zenon DEF TypeOK, TcpTypeOK
  <2>4. QED
    BY <1>0, <2>1, <2>3
<1>11. ASSUME NEW c \in Clients, CLKill(c), UNCHANGED svVars PROVE Quits'
  BY <1>8, <1>11 DEF CLKill, EndClient
<1>12. CASE UNCHANGED vars
  BY <1>5, <1>12 DEF vars, tcp, svVars
<1>13. QED
  BY <1>1, <1>2, <1>3, <1>4, <1>6, <1>7, <1>9, <1>10, <1>11, <1>12
     DEF Next, ServerMain, SVStep, Receiver

LEMMA QuitInit == Init => QuitInv
<1>1. SUFFICES ASSUME Init PROVE Lists /\ Quits
  BY ChatTypeInit DEF QuitInv
<1>2. Lists
  <2>1. backlog = <<>> /\ client_fds = <<>> /\ DOMAIN backlog = {} /\ DOMAIN client_fds = {}
    BY <1>1 DEF Init, TcpInit, SVInit
  <2>2. \A c \in Clients : server_end[c] = "none"
    BY <1>1 DEF Init, TcpInit
  <2>3. QED
    BY <2>1, <2>2 DEF Lists, Distinct
<1>3. ResetsFollow
  <2>1. \A c \in Clients : toClient[c] = FALSE /\ server_reset[c] = FALSE
    BY <1>1 DEF Init, TcpInit
  <2>2. QED
    BY <2>1, Zenon DEF ResetsFollow
<1>4. sv_main = "loop" /\ quitting = 1
  BY <1>1 DEF Init, SVInit
<1>5. QED
  BY <1>2, <1>3, <1>4 DEF Quits

LEMMA QuitStep == QuitInv /\ [Next]_vars => QuitInv'
<1>1. SUFFICES ASSUME QuitInv, [Next]_vars PROVE QuitInv'
  OBVIOUS
<1>2. TypeOK'
  BY <1>1, TypeNext DEF QuitInv
<1>3. QED
  BY <1>1, <1>2, ListsNext, QuitsNext DEF QuitInv

-----------------------------------------------------------------------------
(* No text is lost.                                                        *)

LEMMA ConcatParts ==
  ASSUME NEW S, NEW s \in Seq(S), NEW t \in Seq(S)
  PROVE  /\ s \o t \in Seq(S) /\ Len(s) \in Nat /\ Len(t) \in Nat
         /\ DOMAIN s = 1..Len(s) /\ DOMAIN t = 1..Len(t)
         /\ DOMAIN (s \o t) = 1..(Len(s) + Len(t)) /\ Len(s \o t) = Len(s) + Len(t)
         /\ \A k \in 1..Len(s) : (s \o t)[k] = s[k]
         /\ \A k \in 1..Len(t) : (s \o t)[Len(s) + k] = t[k]
<1>1. Len(s) \in Nat /\ Len(t) \in Nat /\ DOMAIN s = 1..Len(s) /\ DOMAIN t = 1..Len(t)
  BY LenProperties
<1>2. /\ s \o t \in Seq(S) /\ Len(s \o t) = Len(s) + Len(t)
      /\ \A i \in 1..(Len(s) + Len(t)) :
           (s \o t)[i] = IF i <= Len(s) THEN s[i] ELSE t[i - Len(s)]
  BY ConcatProperties
<1>3. DOMAIN (s \o t) = 1..Len(s \o t)
  BY <1>2, LenProperties
<1>4. \A k \in 1..Len(s) : (s \o t)[k] = s[k]
  BY <1>1, <1>2
<1>5. \A k \in 1..Len(t) : (s \o t)[Len(s) + k] = t[k]
  BY <1>1, <1>2
<1>6. QED
  BY <1>1, <1>2, <1>3, <1>4, <1>5

\* A thread holds texts only between its read() and its push, and it is inside
\* read() only on a connection that is not closed yet.
Threads ==
  \A c \in Clients :
    /\ sv_thread[c] # "push" => in_hand[c] = <<>>
    /\ sv_thread[c] = "reading" => server_end[c] \in {"open", "held"}
    /\ server_end[c] \in {"none", "backlog"} => sv_thread[c] = "none"

TextInv == QuitInv /\ Threads /\ NothingLost

LEMMA ComingFrame ==
  ASSUME NEW c \in Clients, in_hand'[c] = in_hand[c], toServer'[c] = toServer[c]
  PROVE  Coming(c)' = Coming(c)
BY DEF Coming

LEMMA TextTypes ==
  ASSUME TypeOK
  PROVE  /\ printed \in Seq(Texts) /\ message_queue \in Seq(Texts)
         /\ HandedOver \in Seq(Texts)
         /\ \A c \in Clients : /\ in_hand[c] \in Seq(Nat) /\ toServer[c] \in Seq(Nat)
                               /\ written[c] \in Nat /\ Coming(c) \in Seq(Nat)
                               /\ Len(Coming(c)) \in Nat
<1>1. /\ printed \in Seq(Texts) /\ message_queue \in Seq(Texts)
      /\ \A c \in Clients : in_hand[c] \in Seq(Nat) /\ toServer[c] \in Seq(Nat) /\ written[c] \in Nat
  BY DEF TypeOK, SVTypeOK, TcpTypeOK, CLTypeOK
<1>2. HandedOver \in Seq(Texts)
  BY <1>1, ConcatProperties DEF HandedOver
<1>3. \A c \in Clients : Coming(c) \in Seq(Nat)
  BY <1>1, ConcatProperties DEF Coming
<1>4. QED
  BY <1>1, <1>2, <1>3, LenProperties

\* The property of one client depends on four pieces of the state only.
LEMMA KeptFrame ==
  ASSUME NEW c \in Clients, NEW n, Kept(c, n),
         server_end'[c] # "closed" => server_end[c] # "closed",
         HandedOver' = HandedOver, Coming(c)' = Coming(c), written'[c] = written[c]
  PROVE  Kept(c, n)'
BY DEF Kept, InSequence

\* When a connection is closed, what was read from it still comes.
LEMMA KeptOnClose ==
  ASSUME TypeOK, NEW c \in Clients, NEW n, Kept(c, n),
         server_end'[c] = "closed", toServer'[c] = <<>>,
         HandedOver' = HandedOver, in_hand'[c] = in_hand[c], written'[c] = written[c]
  PROVE  Kept(c, n)'
<1> DEFINE C == Coming(c)  T == toServer[c]  h == in_hand[c]
<1>1. /\ h \in Seq(Nat) /\ T \in Seq(Nat) /\ written[c] \in Nat
      /\ C = h \o T /\ Coming(c)' = h
  <2>1. h \in Seq(Nat) /\ T \in Seq(Nat) /\ written[c] \in Nat
    BY TextTypes
  <2>2. Coming(c)' = h \o <<>>
    BY DEF Coming
  <2>3. QED
    BY <2>1, <2>2, ConcatEmptySeq DEF Coming
<1>2. InSequence(c, n) /\ n \in Nat /\ n + Len(C) <= written[c] /\ \A k \in DOMAIN C : C[k] = n + k
  BY DEF Kept, InSequence
<1> HIDE DEF C, T, h
<1>3. /\ DOMAIN h = 1..Len(h) /\ DOMAIN C = 1..(Len(h) + Len(T)) /\ Len(C) = Len(h) + Len(T)
      /\ Len(h) \in Nat /\ Len(T) \in Nat /\ \A k \in 1..Len(h) : C[k] = h[k]
  BY <1>1, ConcatParts
<1>4. \A k \in DOMAIN h : h[k] = n + k
  <2>1. SUFFICES ASSUME NEW k \in 1..Len(h) PROVE h[k] = n + k
    BY <1>3
  <2>2. k \in 1..(Len(h) + Len(T))
    BY <1>3
  <2>3. QED
    BY <1>2, <1>3, <2>2
<1>5. InSequence(c, n)'
  BY <1>1, <1>2, <1>4 DEF InSequence
<1>6. n + Len(h) <= written[c]
  BY <1>1, <1>2, <1>3
<1>7. QED
  BY <1>1, <1>5, <1>6 DEF Kept

\* A step that leaves the texts alone, except for those that are lost with the
\* connections it closes.
Quiet ==
  /\ UNCHANGED <<printed, message_queue, in_hand, written>>
  /\ \A c \in Clients :
       \/ /\ toServer'[c] = toServer[c]
          /\ server_end'[c] = "closed" <=> server_end[c] = "closed"
       \/ toServer'[c] = <<>> /\ server_end'[c] = "closed"

LEMMA QuietKeeps == ASSUME TextInv, Quiet PROVE NothingLost'
<1>1. SUFFICES ASSUME NEW c \in Clients PROVE \E n \in 0..written[c]' : Kept(c, n)'
  BY DEF NothingLost
<1>2. PICK n \in 0..written[c] : Kept(c, n)
  BY DEF TextInv, NothingLost
<1>3. TypeOK /\ HandedOver' = HandedOver /\ in_hand' = in_hand /\ written' = written
  BY DEF TextInv, QuitInv, Quiet, HandedOver
<1>4. CASE toServer'[c] = toServer[c] /\ (server_end'[c] = "closed" <=> server_end[c] = "closed")
  <2>1. Coming(c)' = Coming(c)
    BY <1>3, <1>4, ComingFrame
  <2>2. QED
    BY <1>2, <1>3, <1>4, <2>1, KeptFrame
<1>5. CASE toServer'[c] = <<>> /\ server_end'[c] = "closed"
  BY <1>2, <1>3, <1>5, KeptOnClose
<1>6. QED
  BY <1>4, <1>5 DEF Quiet

\* The drain moves texts from the queue to the printed ones.
LEMMA DrainKeeps == ASSUME TextInv, SVDrain, UNCHANGED written PROVE NothingLost'
<1>1. printed \in Seq(Texts) /\ message_queue \in Seq(Texts) /\ HandedOver \in Seq(Texts)
  BY TextTypes DEF TextInv, QuitInv
<1>2. HandedOver' = HandedOver \o <<>>
  BY DEF SVDrain, HandedOver
<1>3. HandedOver' = HandedOver
  BY <1>1, <1>2, ConcatEmptySeq
<1>4. SUFFICES ASSUME NEW c \in Clients PROVE \E n \in 0..written[c]' : Kept(c, n)'
  BY DEF NothingLost
<1>5. PICK n \in 0..written[c] : Kept(c, n)
  BY DEF TextInv, NothingLost
<1>6. UNCHANGED <<in_hand, toServer, server_end>>
  BY DEF SVDrain, tcp
<1>7. Coming(c)' = Coming(c)
  BY <1>6, ComingFrame
<1>8. QED
  BY <1>3, <1>5, <1>6, <1>7, KeptFrame

\* read() moves texts from the connection to the thread's hand.
LEMMA DataKeeps ==
  ASSUME TextInv, NEW c \in Clients, THData(c), UNCHANGED written PROVE NothingLost'
<1>1. SUFFICES ASSUME NEW d \in Clients PROVE \E n \in 0..written[d]' : Kept(d, n)'
  BY DEF NothingLost
<1>2. PICK n \in 0..written[d] : Kept(d, n)
  BY DEF TextInv, NothingLost
<1>3. HandedOver' = HandedOver
  BY DEF THData, HandedOver
<1>4. TypeOK /\ server_end[c] \in {"open", "held"}
  BY DEF TextInv, QuitInv, Threads, THData, THGoto
<1>5. in_hand' = [in_hand EXCEPT ![c] = toServer[c]] /\ in_hand[c] = <<>>
  BY DEF THData, THGoto, TextInv, Threads
<1>6. CASE d = c
  <2>1. in_hand'[c] = toServer[c] /\ toServer'[c] = <<>> /\ toServer[c] \in Seq(Nat)
    BY <1>4, <1>5 DEF THData, TcpServerClose, TypeOK, SVTypeOK, TcpTypeOK
  <2>2. Coming(c)' = Coming(c)
    BY <1>5, <2>1, ConcatEmptySeq DEF Coming
  <2>3. QED
    BY <1>2, <1>3, <1>4, <1>6, <2>2, KeptFrame
<1>7. CASE d # c
  <2>1. in_hand'[d] = in_hand[d] /\ toServer'[d] = toServer[d] /\ server_end'[d] = server_end[d]
    BY <1>4, <1>5, <1>7 DEF THData, TcpServerClose, TypeOK, SVTypeOK, TcpTypeOK
  <2>2. Coming(d)' = Coming(d)
    BY <2>1, ComingFrame
  <2>3. QED
    BY <1>2, <1>3, <2>1, <2>2, KeptFrame
<1>8. QED
  BY <1>6, <1>7

\* The push moves texts from the thread's hand to the end of the queue.
LEMMA PushKeeps ==
  ASSUME TextInv, NEW c \in Clients, THPush(c), UNCHANGED written PROVE NothingLost'
<1> DEFINE H == HandedOver  h == in_hand[c]  F == From(c, h)
<1>0. TypeOK
  BY DEF TextInv, QuitInv
<1>1. SUFFICES ASSUME NEW d \in Clients PROVE \E n \in 0..written[d]' : Kept(d, n)'
  BY DEF NothingLost
<1>2. (\E n \in 0..written[d] : Kept(d, n)) /\ UNCHANGED <<server_end, toServer>>
  BY <1>1 DEF THPush, tcp, TextInv, NothingLost
<1>3. /\ H \in Seq(Texts) /\ h \in Seq(Nat) /\ F \in Seq(Texts) /\ Len(h) \in Nat /\ Len(H) \in Nat
      /\ printed \in Seq(Texts) /\ message_queue \in Seq(Texts)
  BY <1>0, TextTypes, FromType, LenProperties
<1>4. Len(F) = Len(h) /\ DOMAIN F = 1..Len(h) /\ \A k \in 1..Len(h) : F[k] = [from |-> c, text |-> h[k]]
  BY <1>3 DEF From
<1>5. HandedOver' = H \o F
  <2>1. HandedOver' = printed \o (message_queue \o F)
    BY DEF THPush, HandedOver
  <2>2. QED
    BY <1>3, <2>1, ConcatAssociative DEF HandedOver
<1> HIDE DEF F, h
<1> HIDE DEF H
<1>6. /\ DOMAIN HandedOver' = 1..(Len(H) + Len(h)) /\ DOMAIN H = 1..Len(H)
      /\ \A k \in 1..Len(H) : HandedOver'[k] = H[k]
      /\ \A k \in 1..Len(h) : HandedOver'[Len(H) + k] = [from |-> c, text |-> h[k]]
  <2>1. /\ DOMAIN H = 1..Len(H) /\ DOMAIN (H \o F) = 1..(Len(H) + Len(F))
        /\ \A k \in 1..Len(H) : (H \o F)[k] = H[k]
        /\ \A k \in 1..Len(F) : (H \o F)[Len(H) + k] = F[k]
    BY <1>3, ConcatParts
  <2>2. QED
    BY <1>4, <1>5, <2>1
<1>7. \A k \in (Len(H) + 1)..(Len(H) + Len(h)) :
        HandedOver'[k] = [from |-> c, text |-> h[k - Len(H)]]
  <2>1. SUFFICES ASSUME NEW k \in (Len(H) + 1)..(Len(H) + Len(h))
                 PROVE  HandedOver'[k] = [from |-> c, text |-> h[k - Len(H)]]
    OBVIOUS
  <2>2. k - Len(H) \in 1..Len(h) /\ k = Len(H) + (k - Len(H))
    BY <1>3, <2>1
  <2>3. QED
    BY <1>6, <2>2
<1>8. in_hand' = [in_hand EXCEPT ![c] = <<>>] /\ in_hand \in [Clients -> Seq(Nat)]
  BY <1>0 DEF THPush, TypeOK, SVTypeOK
<1>9. CASE d # c
  <2>1. Coming(d)' = Coming(d)
    BY <1>2, <1>8, <1>9, ComingFrame
  <2>0. PICK n \in 0..written[d] : Kept(d, n)
    BY <1>2
  <2>2. InSequence(d, n) /\ written'[d] = written[d] /\ n \in Nat
    BY <2>0 DEF Kept, InSequence
  <2>3. InSequence(d, n)'
    <3>1. \A t \in 1..n : \E k \in DOMAIN HandedOver' : HandedOver'[k] = [from |-> d, text |-> t]
      BY <1>3, <1>6, <2>2 DEF InSequence, H
    <3>2. \A k \in DOMAIN HandedOver' : HandedOver'[k].from = d => k \in 1..Len(H)
      <4>1. SUFFICES ASSUME NEW k \in 1..(Len(H) + Len(h)), k \notin 1..Len(H)
                     PROVE  HandedOver'[k].from # d
        BY <1>6
      <4>2. k \in (Len(H) + 1)..(Len(H) + Len(h))
        BY <1>3, <4>1
      <4>3. HandedOver'[k] = [from |-> c, text |-> h[k - Len(H)]]
        BY <1>7, <4>2
      <4>4. QED
        BY <1>9, <4>3
    <3>3. \A k \in DOMAIN Coming(d)' : Coming(d)'[k] = n + k
      BY <2>1, <2>2 DEF InSequence
    <3>4. \A k \in DOMAIN HandedOver' : HandedOver'[k].from = d => HandedOver'[k].text \in 1..n
      BY <1>6, <2>2, <3>2 DEF InSequence, H
    <3>5. \A j, k \in DOMAIN HandedOver' :
            HandedOver'[j].from = d /\ HandedOver'[k].from = d /\ j < k
              => HandedOver'[j].text < HandedOver'[k].text
      BY <1>6, <2>2, <3>2 DEF InSequence, H
    <3>6. QED
      BY <2>2, <3>1, <3>3, <3>4, <3>5 DEF InSequence
  <2>4. Kept(d, n)'
    BY <1>2, <2>0, <2>1, <2>2, <2>3 DEF Kept
  <2>5. QED
    BY <2>0, <2>2, <2>4
<1>10. CASE d = c
  <2> DEFINE T == toServer[c]
  <2>0. PICK n, q : n \in 0..written[c] /\ Kept(c, n) /\ q = Len(h)
    BY <1>2, <1>10
  <2>1. T \in Seq(Nat) /\ Len(T) \in Nat /\ written[c] \in Nat
    BY <1>0, TextTypes, LenProperties
  <2>2. /\ Len(Coming(c)) = Len(h) + Len(T) /\ DOMAIN Coming(c) = 1..(Len(h) + Len(T))
        /\ \A k \in 1..Len(h) : Coming(c)[k] = h[k]
        /\ \A k \in 1..Len(T) : Coming(c)[Len(h) + k] = T[k]
    <3>1. Coming(c) = h \o T
      BY DEF Coming, h
    <3> HIDE DEF T
    <3>2. QED
      BY <1>3, <2>1, <3>1, ConcatParts
  <2>3. Coming(c)' = T
    <3>1. in_hand'[c] = <<>> /\ toServer'[c] = T
      BY <1>2, <1>8
    <3>2. QED
      BY <2>1, <3>1, ConcatEmptySeq DEF Coming
  <2>4. InSequence(c, n) /\ n \in Nat /\ written'[c] = written[c]
    BY <1>10, <2>0 DEF Kept, InSequence
  <2> DEFINE p == n + q
  <2>5. /\ p \in 0..written'[c] /\ p + Len(Coming(c)') <= written'[c]
        /\ server_end'[c] # "closed" => p + Len(Coming(c)') = written'[c]
    <3>1. Len(Coming(c)') = Len(T)
      BY <2>3
    <3>2. n + (q + Len(T)) <= written[c] /\ q \in Nat
      BY <1>3, <2>0, <2>2 DEF Kept
    <3>3. server_end'[c] # "closed" => n + (q + Len(T)) = written[c]
      BY <1>2, <2>0, <2>2 DEF Kept
    <3> HIDE DEF T
    <3>4. QED
      BY <2>1, <2>4, <3>1, <3>2, <3>3
  <2> HIDE DEF T
  <2>6. \A k \in 1..Len(h) : h[k] = n + k
    <3>1. SUFFICES ASSUME NEW k \in 1..Len(h) PROVE h[k] = n + k
      OBVIOUS
    <3>2. k \in 1..(Len(h) + Len(T))
      BY <1>3, <2>1 DEF T
    <3>3. QED
      BY <2>2, <2>4, <3>1, <3>2 DEF InSequence
  <2>7. \A k \in DOMAIN T : T[k] = p + k
    <3>1. SUFFICES ASSUME NEW k \in 1..Len(T) PROVE T[k] = p + k
      BY <2>1 DEF T
    <3>2. Len(h) + k \in 1..(Len(h) + Len(T))
      BY <1>3, <2>1 DEF T
    <3>3. Coming(c)[Len(h) + k] = T[k]
      BY <2>2
    <3>4. Coming(c)[Len(h) + k] = n + (Len(h) + k)
      BY <2>2, <2>4, <3>2 DEF InSequence
    <3>5. QED
      BY <1>3, <2>0, <2>1, <2>4, <3>1, <3>3, <3>4 DEF T
  <2>8. \A k \in 1..Len(H) : H[k].from = c => H[k].text \in 1..n
    BY <1>6, <2>4 DEF InSequence, H
  <2>9. \A k \in (Len(H) + 1)..(Len(H) + Len(h)) :
          HandedOver'[k].from = c /\ HandedOver'[k].text = n + (k - Len(H))
    <3>1. SUFFICES ASSUME NEW k \in (Len(H) + 1)..(Len(H) + Len(h))
                   PROVE  HandedOver'[k].from = c /\ HandedOver'[k].text = n + (k - Len(H))
      OBVIOUS
    <3>2. k - Len(H) \in 1..Len(h)
      BY <1>3
    <3>3. HandedOver'[k] = [from |-> c, text |-> h[k - Len(H)]]
      BY <1>7
    <3>4. QED
      BY <2>6, <3>2, <3>3
  <2>10. InSequence(c, p)'
    <3>1. ASSUME NEW k \in DOMAIN HandedOver', HandedOver'[k].from = c
          PROVE  \/ /\ k \in 1..Len(H) /\ HandedOver'[k] = H[k]
                    /\ HandedOver'[k].text \in 1..n
                 \/ /\ k \in (Len(H) + 1)..(Len(H) + Len(h))
                    /\ HandedOver'[k].text = n + (k - Len(H))
      <4>1. k \in 1..(Len(H) + Len(h))
        BY <1>6, <3>1
      <4>2. CASE k \in 1..Len(H)
        BY <1>6, <2>8, <3>1, <4>2
      <4>3. CASE k \in (Len(H) + 1)..(Len(H) + Len(h))
        BY <2>9, <4>3
      <4>4. QED
        BY <1>3, <4>1, <4>2, <4>3
    <3>2. p \in Nat
      BY <1>3, <2>0, <2>4
    <3>3. \A t \in 1..p : \E k \in DOMAIN HandedOver' : HandedOver'[k] = [from |-> c, text |-> t]
      <4>1. SUFFICES ASSUME NEW t \in 1..p
                     PROVE  \E k \in DOMAIN HandedOver' : HandedOver'[k] = [from |-> c, text |-> t]
        OBVIOUS
      <4>2. CASE t \in 1..n
        <5>1. PICK k \in 1..Len(H) : H[k] = [from |-> c, text |-> t]
          BY <1>6, <2>4, <4>2 DEF InSequence, H
        <5>2. k \in DOMAIN HandedOver' /\ HandedOver'[k] = H[k]
          BY <1>3, <1>6
        <5>3. QED
          BY <5>1, <5>2
      <4>3. CASE t \notin 1..n
        <5>1. t - n \in 1..Len(h) /\ n + (t - n) = t
          BY <1>3, <2>0, <2>4, <4>3
        <5>2. HandedOver'[Len(H) + (t - n)] = [from |-> c, text |-> t]
          BY <1>6, <2>6, <5>1
        <5>3. Len(H) + (t - n) \in DOMAIN HandedOver'
          BY <1>3, <1>6, <5>1
        <5>4. QED
          BY <5>2, <5>3
      <4>4. QED
        BY <4>2, <4>3
    <3>4. \A k \in DOMAIN HandedOver' : HandedOver'[k].from = c => HandedOver'[k].text \in 1..p
      <4>1. SUFFICES ASSUME NEW k \in DOMAIN HandedOver', HandedOver'[k].from = c
                     PROVE  HandedOver'[k].text \in 1..p
        OBVIOUS
      <4>2. QED
        BY <1>3, <2>0, <2>4, <3>1, <4>1
    <3>5. \A j, k \in DOMAIN HandedOver' :
            HandedOver'[j].from = c /\ HandedOver'[k].from = c /\ j < k
              => HandedOver'[j].text < HandedOver'[k].text
      <4>1. SUFFICES ASSUME NEW j \in DOMAIN HandedOver', NEW k \in DOMAIN HandedOver',
                            HandedOver'[j].from = c, HandedOver'[k].from = c, j < k
                     PROVE  HandedOver'[j].text < HandedOver'[k].text
        OBVIOUS
      <4>2. CASE k \in 1..Len(H)
        <5>1. j \in 1..Len(H)
          BY <1>3, <1>6, <4>1, <4>2
        <5>2. H[j].text < H[k].text
          BY <1>6, <2>4, <4>1, <4>2, <5>1 DEF InSequence, H
        <5>3. QED
          BY <1>6, <4>2, <5>1, <5>2
      <4>3. CASE k \notin 1..Len(H)
        <5>1. k > Len(H) /\ HandedOver'[k].text = n + (k - Len(H)) /\ k \in Int
          BY <1>3, <3>1, <4>1, <4>3
        <5>2. \/ HandedOver'[j].text \in 1..n
              \/ HandedOver'[j].text = n + (j - Len(H)) /\ j \in Int
          BY <1>3, <3>1, <4>1
        <5>3. QED
          BY <1>3, <2>4, <4>1, <5>1, <5>2
      <4>4. QED
        BY <4>2, <4>3
    <3>6. \A k \in DOMAIN Coming(c)' : Coming(c)'[k] = p + k
      BY <2>3, <2>7
    <3>7. QED
      BY <3>2, <3>3, <3>4, <3>5, <3>6 DEF InSequence
  <2>11. Kept(c, p)'
    BY <2>5, <2>10 DEF Kept
  <2>12. QED
    BY <1>10, <2>5, <2>11
<1>11. QED
  BY <1>9, <1>10

\* A write() that the connection accepts adds the next text to it.
Writes(c) ==
  /\ ServerHolds(c)
  /\ toServer' = [toServer EXCEPT ![c] = Append(@, written[c] + 1)]
  /\ written' = [written EXCEPT ![c] = @ + 1]
  /\ UNCHANGED <<printed, message_queue, in_hand, server_end>>

LEMMA WriteKeeps == ASSUME TextInv, NEW c \in Clients, Writes(c) PROVE NothingLost'
<1>0. TypeOK /\ HandedOver' = HandedOver /\ in_hand' = in_hand
  BY DEF TextInv, QuitInv, Writes, HandedOver
<1>1. /\ toServer' = [toServer EXCEPT ![c] = Append(@, written[c] + 1)] /\ UNCHANGED server_end
      /\ written' = [written EXCEPT ![c] = @ + 1] /\ ServerHolds(c)
  BY DEF Writes
<1>2. QED
  <2>1. SUFFICES ASSUME NEW d \in Clients PROVE \E n \in 0..written[d]' : Kept(d, n)'
    BY DEF NothingLost
  <2>0. PICK n \in 0..written[d] : Kept(d, n)
    BY DEF TextInv, NothingLost
  <2>3. CASE d # c
    <3>1. toServer'[d] = toServer[d] /\ written'[d] = written[d]
      BY <1>0, <1>1, <2>3 DEF TypeOK, TcpTypeOK, CLTypeOK
    <3>2. Coming(d)' = Coming(d)
      BY <1>0, <3>1, ComingFrame
    <3>3. QED
      BY <1>0, <2>0, <1>1, <3>1, <3>2, KeptFrame
  <2>4. CASE d = c
    <3> DEFINE C == Coming(c)  T == toServer[c]  h == in_hand[c]
    <3>1. PICK w : w = written[c]
      OBVIOUS
    <3>2. InSequence(c, n) /\ n \in Nat /\ n + Len(C) = w
      BY <1>1, <2>0, <2>4, <3>1 DEF ServerHolds, Kept, InSequence
    <3>3. /\ C \in Seq(Nat) /\ T \in Seq(Nat) /\ h \in Seq(Nat) /\ w \in Nat /\ Len(C) \in Nat
          /\ w + 1 \in Nat
      BY <1>0, <3>1, TextTypes
    <3>4. Coming(c)' = Append(C, w + 1)
      <4>1. toServer'[c] = Append(T, w + 1)
        BY <1>0, <1>1, <3>1 DEF TypeOK, TcpTypeOK
      <4>2. Coming(c)' = h \o Append(T, w + 1) /\ C = h \o T
        BY <1>0, <4>1 DEF Coming
      <4> HIDE DEF C, T, h
      <4>3. Append(T, w + 1) = T \o <<w + 1>> /\ <<w + 1>> \in Seq(Nat)
        BY <3>3, AppendIsConcat
      <4>4. h \o (T \o <<w + 1>>) = (h \o T) \o <<w + 1>>
        BY <3>3, <4>3, ConcatAssociative
      <4>5. Append(C, w + 1) = C \o <<w + 1>>
        BY <3>3, AppendIsConcat
      <4>6. QED
        BY <4>2, <4>3, <4>4, <4>5
    <3> HIDE DEF T, h
    <3>5. written'[c] = w + 1
      BY <1>0, <1>1, <3>1 DEF TypeOK, CLTypeOK
    <3>6. \A k \in DOMAIN C : C[k] = n + k
      BY <3>2 DEF InSequence
    <3> HIDE DEF C
    <3>7. /\ Len(Append(C, w + 1)) = Len(C) + 1 /\ DOMAIN Append(C, w + 1) = 1..(Len(C) + 1)
          /\ DOMAIN C = 1..Len(C)
          /\ \A k \in 1..Len(C) : Append(C, w + 1)[k] = C[k]
          /\ Append(C, w + 1)[Len(C) + 1] = w + 1
      BY <3>3
    <3>8. w + 1 = n + (Len(C) + 1)
      BY <3>1, <3>2, <3>3
    <3>9. \A k \in DOMAIN Coming(c)' : Coming(c)'[k] = n + k
      <4>1. SUFFICES ASSUME NEW k \in 1..(Len(C) + 1) PROVE Append(C, w + 1)[k] = n + k
        BY <3>4, <3>7
      <4>2. CASE k = Len(C) + 1
        BY <3>7, <3>8, <4>2
      <4>3. CASE k \in 1..Len(C)
        BY <3>6, <3>7, <4>3
      <4>4. QED
        BY <3>3, <4>2, <4>3
    <3>10. n + Len(Coming(c)') = written'[c] /\ n \in 0..written'[c]
      BY <3>2, <3>3, <3>4, <3>5, <3>7, <3>8
    <3>11. InSequence(c, n)'
      BY <1>0, <3>2, <3>9 DEF InSequence
    <3>12. QED
      BY <2>4, <3>2, <3>3, <3>5, <3>10, <3>11 DEF Kept
  <2>5. QED
    BY <2>3, <2>4

\* What a step of the server does with the texts.
LEMMA ServerTexts ==
  ASSUME TextInv, ServerMain \/ (SVSigint /\ UNCHANGED clVars)
  PROVE  Quiet \/ (SVDrain /\ UNCHANGED written)
<1>0. UNCHANGED written /\ TypeOK /\ Lists /\ Quits /\ Threads
  BY DEF ServerMain, clVars, TextInv, QuitInv
<1>1. CASE SVDrain
  BY <1>0, <1>1
<1>2. CASE SVAccept
  <2>1. UNCHANGED <<printed, message_queue, in_hand, toServer>>
    BY <1>2 DEF SVAccept, TcpAccept, tcp
  <2>2. \A c \in Clients : server_end'[c] = "closed" <=> server_end[c] = "closed"
    <3>1. CASE UNCHANGED server_end
      BY <3>1
    <3>2. CASE TcpAccept
      <4>1. 1 \in DOMAIN backlog /\ Head(backlog) = backlog[1] /\ backlog[1] \in Clients
        BY <1>0, <3>2 DEF TcpAccept, TypeOK, TcpTypeOK
      <4>2. server_end[Head(backlog)] = "backlog"
        BY <1>0, <4>1 DEF Lists
      <4>3. QED
        BY <1>0, <3>2, <4>1, <4>2 DEF TcpAccept, TypeOK, TcpTypeOK
    <3>3. QED
      BY <1>2, <3>1, <3>2 DEF SVAccept, tcp
  <2>3. QED
    BY <1>0, <2>1, <2>2 DEF Quiet
<1>3. CASE SVQuit \/ SVEndOfQuit \/ SVJoin \/ SVSigint
  BY <1>0, <1>3 DEF SVQuit, SVEndOfQuit, SVJoin, SVSigint, TcpServerWrite, tcp, Quiet
<1>4. CASE SVClose
  <2> DEFINE c == client_fds[quitting]
  <2>1. c \in Clients
    BY <1>0, <1>4 DEF SVClose, SVGoto, Quits, TypeOK, SVTypeOK
  <2>2. UNCHANGED <<printed, message_queue, in_hand>>
    BY <1>4 DEF SVClose
  <2>3. CASE sv_thread[c] = "reading"
    <3>1. server_end[c] \in {"open", "held"}
      BY <1>0, <2>1, <2>3 DEF Threads
    <3>2. server_end' = [server_end EXCEPT ![c] = "held"] /\ toServer' = toServer
      BY <1>4, <2>3 DEF SVClose
    <3>3. \A d \in Clients : server_end'[d] = "closed" <=> server_end[d] = "closed"
      BY <1>0, <2>1, <3>1, <3>2 DEF TypeOK, TcpTypeOK
    <3>4. QED
      BY <1>0, <2>2, <3>2, <3>3 DEF Quiet
  <2>4. CASE sv_thread[c] # "reading"
    BY <1>0, <1>4, <2>2, <2>4 DEF SVClose, TcpServerClose, Quiet
  <2>5. QED
    BY <2>3, <2>4
<1>5. CASE SVCloseListen
  BY <1>0, <1>5 DEF SVCloseListen, TcpServerClose, Quiet
<1>6. QED
  BY <1>1, <1>2, <1>3, <1>4, <1>5 DEF ServerMain, SVStep

\* Of a receive thread.
LEMMA ReceiverTexts ==
  ASSUME TextInv, NEW c \in Clients, Receiver(c)
  PROVE  Quiet \/ ((THData(c) \/ THPush(c)) /\ UNCHANGED written)
<1>0. UNCHANGED written
  BY DEF Receiver, clVars
<1>1. CASE THData(c) \/ THPush(c)
  BY <1>0, <1>1
<1>2. CASE THTest(c) \/ THRead(c) \/ THNoData(c)
  BY <1>0, <1>2 DEF THTest, THRead, THNoData, Release, TcpServerClose, tcp, Quiet
<1>3. QED
  BY <1>1, <1>2 DEF Receiver, THStep

\* Of a client.
LEMMA ClientTexts ==
  ASSUME TextInv, NEW c \in Clients,
         ClientMain(c) \/ ClientThread(c) \/ (CLKill(c) /\ UNCHANGED svVars)
  PROVE  Quiet \/ Writes(c)
<1>0. UNCHANGED <<printed, message_queue, in_hand>> /\ TypeOK
  BY DEF ClientMain, ClientThread, svVars, TextInv, QuitInv
<1>1. CASE toServer' = toServer /\ written' = written /\ server_end' = server_end
  BY <1>0, <1>1 DEF Quiet
<1>2. CASE CLWrite(c)
  <2>1. CASE EndClient(c, "killed") \/ UNCHANGED <<tcp, written>>
    BY <1>1, <2>1 DEF EndClient, TcpClientClose, tcp
  <2>2. CASE /\ ServerHolds(c) /\ TcpClientWrite(c, written[c] + 1)
             /\ written' = [written EXCEPT ![c] = @ + 1]
    BY <1>0, <2>2 DEF TcpClientWrite, Writes
  <2>3. CASE ~ServerHolds(c) /\ TcpClientWrite(c, written[c] + 1) /\ written' = written
    BY <1>1, <2>3 DEF TcpClientWrite
  <2>4. QED
    BY <1>2, <2>1, <2>2, <2>3 DEF CLWrite
<1>3. CASE CLConnect(c)
  <2>1. CASE listening
    <3>1. server_end[c] = "none" /\ server_end' = [server_end EXCEPT ![c] = "backlog"]
          /\ toServer' = toServer /\ written' = written
      BY <1>3, <2>1 DEF CLConnect, TcpConnect, TextInv, QuitInv, Lists
    <3>2. \A d \in Clients : server_end'[d] = "closed" <=> server_end[d] = "closed"
      BY <1>0, <3>1 DEF TypeOK, TcpTypeOK
    <3>3. QED
      BY <1>0, <3>1, <3>2 DEF Quiet
  <2>2. CASE ~listening
    BY <1>1, <1>3, <2>2 DEF CLConnect, EndClient, TcpClientClose
  <2>3. QED
    BY <2>1, <2>2
<1>4. CASE CLCreate(c) \/ CLSetRunning(c) \/ CLLoop(c) \/ ClientThread(c) \/ CLKill(c)
  BY <1>1, <1>4 DEF CLCreate, CLSetRunning, CLLoop, ClientThread, CLThread, CLTest, CLRead,
                    CLKill, EndClient, TcpClientClose, tcp
<1>5. QED
  BY <1>2, <1>3, <1>4 DEF ClientMain, CLMain

\* What any step does with them.
TextStep ==
  \/ Quiet
  \/ SVDrain /\ UNCHANGED written
  \/ \E c \in Clients : \/ THData(c) /\ UNCHANGED written
                        \/ THPush(c) /\ UNCHANGED written
                        \/ Writes(c)

LEMMA StepIsTextStep == ASSUME TextInv, [Next]_vars PROVE TextStep
<1>1. CASE UNCHANGED vars
  BY <1>1 DEF vars, tcp, svVars, clVars, Quiet, TextStep
<1>2. CASE ServerMain \/ (SVSigint /\ UNCHANGED clVars)
  BY <1>2, ServerTexts DEF TextStep
<1>3. ASSUME NEW c \in Clients, Receiver(c) PROVE TextStep
  BY <1>3, ReceiverTexts DEF TextStep
<1>4. ASSUME NEW c \in Clients,
             ClientMain(c) \/ ClientThread(c) \/ (CLKill(c) /\ UNCHANGED svVars)
      PROVE  TextStep
  BY <1>4, ClientTexts DEF TextStep
<1>5. QED
  BY <1>1, <1>2, <1>3, <1>4 DEF Next

\* Every step keeps what is known of the threads.
LEMMA ThreadsNext == ASSUME TextInv, [Next]_vars PROVE Threads'
<1>0. TypeOK /\ Lists /\ Quits /\ Threads
  BY DEF TextInv, QuitInv
<1> USE <1>0
<1>1. ASSUME UNCHANGED <<sv_thread, in_hand>>,
             \A c \in Clients : server_end[c] \in {"open", "held"} =>
                server_end'[c] \in {"open", "held"} \/ sv_thread[c] # "reading",
             \A c \in Clients : server_end'[c] \in {"none", "backlog"} =>
                server_end[c] \in {"none", "backlog"}
      PROVE  Threads'
  BY <1>1 DEF Threads
<1>2. CASE SVAccept
  <2>1. CASE UNCHANGED <<tcp, sv_thread>>
    BY <1>1, <1>2, <2>1 DEF SVAccept, tcp
  <2>2. CASE TcpAccept /\ sv_thread' = [sv_thread EXCEPT ![Head(backlog)] = "test"]
    <3>1. 1 \in DOMAIN backlog /\ Head(backlog) = backlog[1] /\ backlog[1] \in Clients
      BY <2>2 DEF TcpAccept, TypeOK, TcpTypeOK
    <3>2. server_end[Head(backlog)] = "backlog"
      BY <3>1 DEF Lists
    <3>3. in_hand' = in_hand /\ server_end' = [server_end EXCEPT ![Head(backlog)] = "open"]
      BY <1>2, <2>2 DEF SVAccept, TcpAccept
    <3>4. QED
      <4> DEFINE h == Head(backlog)
      <4>1. h \in Clients
        BY <3>1
      <4>2. \A d \in Clients : d # h =>
              sv_thread'[d] = sv_thread[d] /\ server_end'[d] = server_end[d]
        BY <2>2, <3>3 DEF TypeOK, TcpTypeOK, SVTypeOK
      <4>3. sv_thread'[h] = "test" /\ in_hand'[h] = in_hand[h]
        BY <2>2, <3>3, <4>1 DEF TypeOK, SVTypeOK
      <4>4. in_hand[h] = <<>>
        BY <3>2, <4>1 DEF Threads
      <4> HIDE DEF h
      <4>5. QED
        BY <2>2, <3>3, <4>1, <4>2, <4>3, <4>4 DEF Threads, TypeOK, TcpTypeOK
  <2>3. QED
    BY <1>2, <2>1, <2>2 DEF SVAccept
<1>3. CASE SVDrain \/ SVQuit \/ SVEndOfQuit \/ SVJoin \/ SVSigint \/ SVCloseListen
  BY <1>1, <1>3 DEF SVDrain, SVQuit, SVEndOfQuit, SVJoin, SVSigint, SVCloseListen,
                    TcpServerWrite, TcpServerClose, tcp
<1>4. CASE SVClose
  BY <1>1, <1>4 DEF SVClose, TcpServerClose, TypeOK, TcpTypeOK
<1>5. ASSUME NEW c \in Clients, THTest(c) \/ THRead(c) PROVE Threads'
  BY <1>5 DEF THTest, THRead, THGoto, tcp, Threads, TypeOK, SVTypeOK
<1>6. ASSUME NEW c \in Clients, THData(c) PROVE Threads'
  BY <1>6 DEF THData, THGoto, TcpServerClose, Threads, TypeOK, SVTypeOK, TcpTypeOK
<1>7. ASSUME NEW c \in Clients, THNoData(c) PROVE Threads'
  BY <1>7 DEF THNoData, THGoto, Release, TcpServerClose, tcp, Threads, TypeOK, SVTypeOK,
              TcpTypeOK
<1>8. ASSUME NEW c \in Clients, THPush(c) PROVE Threads'
  BY <1>8 DEF THPush, THGoto, tcp, Threads, TypeOK, SVTypeOK
<1>9. ASSUME NEW c \in Clients,
             ClientMain(c) \/ ClientThread(c) \/ (CLKill(c) /\ UNCHANGED svVars)
      PROVE  Threads'
  <2>1. UNCHANGED <<sv_thread, in_hand>>
    BY <1>9 DEF ClientMain, ClientThread, svVars
  <2>2. server_end' = server_end \/ (cl_main[c] = "connect" /\ TcpConnect(c))
    BY <1>9 DEF ClientMain, CLMain, CLConnect, CLCreate, CLSetRunning, CLLoop, CLWrite,
                ClientThread, CLThread, CLTest, CLRead, CLKill, EndClient, TcpClientWrite,
                TcpClientClose, tcp
  <2>3. QED
    BY <1>1, <2>1, <2>2 DEF TcpConnect, Lists, TypeOK, TcpTypeOK
<1>10. CASE UNCHANGED vars
  BY <1>1, <1>10 DEF vars, tcp, svVars
<1>11. QED
  BY <1>2, <1>3, <1>4, <1>5, <1>6, <1>7, <1>8, <1>9, <1>10
     DEF Next, ServerMain, SVStep, Receiver, THStep

LEMMA TextInvInit == Init => TextInv
<1>1. SUFFICES ASSUME Init PROVE TextInv
  OBVIOUS
<1>2. QuitInv
  BY <1>1, QuitInit
<1>3. Threads
  BY <1>1 DEF Init, SVInit, Threads
<1>4. HandedOver = <<>> /\ \A c \in Clients : Coming(c) = <<>> /\ written[c] = 0
  BY <1>1 DEF Init, SVInit, TcpInit, CLInit, HandedOver, Coming
<1>5. ASSUME NEW c \in Clients PROVE Kept(c, 0) /\ 0 \in 0..written[c]
  <2>1. InSequence(c, 0) /\ Len(Coming(c)) = 0 /\ written[c] = 0
    BY <1>4 DEF InSequence
  <2>2. QED
    BY <2>1 DEF Kept
<1>6. NothingLost
  BY <1>5 DEF NothingLost
<1>7. QED
  BY <1>2, <1>3, <1>6 DEF TextInv

LEMMA TextInvStep == TextInv /\ [Next]_vars => TextInv'
<1>1. SUFFICES ASSUME TextInv, [Next]_vars PROVE TextInv'
  OBVIOUS
<1>2. QuitInv' /\ Threads'
  BY <1>1, QuitStep, ThreadsNext DEF TextInv
<1>3. NothingLost'
  BY <1>1, StepIsTextStep, QuietKeeps, DrainKeeps, DataKeeps, PushKeeps, WriteKeeps DEF TextStep
<1>4. QED
  BY <1>2, <1>3 DEF TextInv

LEMMA TextsHold == Spec => []TextInv
BY TextInvInit, TextInvStep, PTL DEF Spec

\* server.cpp:45-54 and 117-122: whatever the clients write, each text is in one
\* place between the connection and the screen, and in order, and none is lost
\* until the server closes the connection; for every number of clients and texts.
THEOREM ChatLosesNothing == Spec => []NothingLost
<1>1. TextInv => NothingLost
  BY DEF TextInv
<1>2. QED
  BY <1>1, TextsHold, PTL

-----------------------------------------------------------------------------
(* The channel from each client to the screen.                             *)

ComingTexts(c) == {<<c, Coming(c)[k]>> : k \in DOMAIN Coming(c)}
Pending == Numbered(message_queue) \cup AllComing
Broken  == {c \in Clients : server_end[c] = "closed"}

LEMMA AllComingIs == AllComing = UNION {ComingTexts(c) : c \in Clients}
BY DEF AllComing, ComingTexts

\* What a concatenation holds is what its parts hold.
LEMMA NumberedConcat ==
  ASSUME NEW s \in Seq(Texts), NEW t \in Seq(Texts)
  PROVE  Numbered(s \o t) = Numbered(s) \cup Numbered(t)
<1>1. /\ Len(s) \in Nat /\ Len(t) \in Nat /\ DOMAIN s = 1..Len(s) /\ DOMAIN t = 1..Len(t)
      /\ DOMAIN (s \o t) = 1..(Len(s) + Len(t))
      /\ \A k \in 1..Len(s) : (s \o t)[k] = s[k]
      /\ \A k \in 1..Len(t) : (s \o t)[Len(s) + k] = t[k]
  BY ConcatParts
<1> DEFINE u == s \o t  m == Len(s)  n == Len(t)
<1> HIDE DEF u, m, n
<1>2. ASSUME NEW k \in DOMAIN u PROVE (k \in DOMAIN s /\ u[k] = s[k]) \/ (\E j \in DOMAIN t : u[k] = t[j])
  <2>1. CASE k \in 1..m
    BY <1>1, <2>1 DEF u, m, n
  <2>2. CASE k \notin 1..m
    <3>1. k - m \in 1..n /\ m + (k - m) = k
      BY <1>1, <2>2 DEF u, m, n
    <3>2. u[m + (k - m)] = t[k - m]
      BY <1>1, <3>1 DEF u, m, n
    <3>3. QED
      BY <1>1, <3>1, <3>2 DEF n
  <2>3. QED
    BY <2>1, <2>2
<1>3. \A k \in DOMAIN s : k \in DOMAIN u /\ u[k] = s[k]
  BY <1>1 DEF u, m, n
<1>4. \A k \in DOMAIN t : m + k \in DOMAIN u /\ u[m + k] = t[k]
  BY <1>1 DEF u, m, n
<1>5. Numbered(u) \subseteq Numbered(s) \cup Numbered(t)
  BY <1>2 DEF Numbered
<1>6. Numbered(s) \subseteq Numbered(u)
  BY <1>3 DEF Numbered
<1>7. Numbered(t) \subseteq Numbered(u)
  BY <1>4 DEF Numbered
<1>8. QED
  BY <1>5, <1>6, <1>7 DEF u

\* The numbers of one client: first the texts handed over, then the coming ones,
\* none above what it has written.
LEMMA NumbersOf ==
  ASSUME TextInv, NEW c \in Clients
  PROVE  \E n \in 0..written[c] :
           /\ \A x \in Numbered(HandedOver) : x[1] = c => x[2] \in 1..n
           /\ \A x \in ComingTexts(c) : x[1] = c /\ x[2] \in (n + 1)..written[c]
<1>1. PICK n \in 0..written[c] : Kept(c, n)
  BY DEF TextInv, NothingLost
<1>2. ASSUME NEW x \in Numbered(HandedOver), x[1] = c PROVE x[2] \in 1..n
  <2>1. PICK k \in DOMAIN HandedOver : x = <<HandedOver[k].from, HandedOver[k].text>>
    BY DEF Numbered
  <2>2. QED
    BY <1>1, <1>2, <2>1 DEF Kept, InSequence
<1>3. ASSUME NEW x \in ComingTexts(c) PROVE x[1] = c /\ x[2] \in (n + 1)..written[c]
  <2> DEFINE C == Coming(c)
  <2>1. PICK k \in DOMAIN C : x = <<c, C[k]>>
    BY DEF ComingTexts
  <2>2. C \in Seq(Nat) /\ Len(C) \in Nat /\ written[c] \in Nat /\ n \in Nat
    BY TextTypes DEF TextInv, QuitInv
  <2>3. C[k] = n + k /\ n + Len(C) <= written[c]
    BY <1>1 DEF Kept, InSequence
  <2> HIDE DEF C
  <2>4. k \in 1..Len(C)
    BY <2>2
  <2>5. n + k \in (n + 1)..written[c]
    BY <2>2, <2>3, <2>4
  <2>6. QED
    BY <2>1, <2>3, <2>5
<1>4. QED
  BY <1>2, <1>3

LEMMA HandedOverIs ==
  ASSUME TypeOK
  PROVE  Numbered(HandedOver) = Numbered(printed) \cup Numbered(message_queue)
BY TextTypes, NumberedConcat DEF HandedOver

LEMMA PendingType ==
  ASSUME TypeOK
  PROVE  Pending \subseteq Clients \X Nat
<1>1. Numbered(message_queue) \subseteq Clients \X Nat
  <2>1. \A k \in DOMAIN message_queue : message_queue[k] \in Texts
    BY TextTypes
  <2>2. QED
    BY <2>1 DEF Numbered, Texts
<1>2. ASSUME NEW c \in Clients PROVE ComingTexts(c) \subseteq Clients \X Nat
  <2>1. \A k \in DOMAIN Coming(c) : Coming(c)[k] \in Nat
    BY TextTypes
  <2>2. QED
    BY <2>1 DEF ComingTexts
<1>3. QED
  BY <1>1, <1>2, AllComingIs DEF Pending

\* Coming texts that are lost belong to a connection that is being closed.
LEMMA ComingOnClose ==
  ASSUME TypeOK, NEW c \in Clients, in_hand'[c] = in_hand[c], toServer'[c] = <<>>
  PROVE  ComingTexts(c)' \subseteq ComingTexts(c)
<1> DEFINE C == Coming(c)  T == toServer[c]  h == in_hand[c]
<1>1. h \in Seq(Nat) /\ T \in Seq(Nat) /\ C = h \o T /\ Coming(c)' = h
  <2>1. h \in Seq(Nat) /\ T \in Seq(Nat)
    BY TextTypes
  <2>2. Coming(c)' = h \o <<>>
    BY DEF Coming
  <2>3. QED
    BY <2>1, <2>2, ConcatEmptySeq DEF Coming
<1> HIDE DEF C, T, h
<1>2. /\ DOMAIN h = 1..Len(h) /\ DOMAIN C = 1..(Len(h) + Len(T))
      /\ Len(h) \in Nat /\ Len(T) \in Nat /\ \A k \in 1..Len(h) : C[k] = h[k]
  BY <1>1, ConcatParts
<1>3. \A k \in DOMAIN h : k \in DOMAIN C /\ C[k] = h[k]
  BY <1>2
<1>4. ComingTexts(c)' = {<<c, h[k]>> : k \in DOMAIN h}
  BY <1>1 DEF ComingTexts
<1>5. ComingTexts(c) = {<<c, C[k]>> : k \in DOMAIN C}
  BY DEF ComingTexts, C
<1>6. QED
  BY <1>3, <1>4, <1>5

\* A step that moves nothing: connections break, and lose what they hold.
LEMMA QuietBreaks == ASSUME TextInv, Quiet PROVE Channel!Break
<1>1. TypeOK /\ UNCHANGED <<Numbered(message_queue), Numbered(printed)>>
  BY DEF TextInv, QuitInv, Quiet, Numbered
<1>2. ASSUME NEW c \in Clients
      PROVE  /\ ComingTexts(c)' \subseteq ComingTexts(c)
             /\ server_end[c] = "closed" => server_end'[c] = "closed"
             /\ server_end'[c] # "closed" => ComingTexts(c)' = ComingTexts(c)
  <2>1. in_hand'[c] = in_hand[c]
    BY DEF Quiet
  <2>2. CASE toServer'[c] = toServer[c] /\ (server_end'[c] = "closed" <=> server_end[c] = "closed")
    BY <2>1, <2>2 DEF ComingTexts, Coming
  <2>3. CASE toServer'[c] = <<>> /\ server_end'[c] = "closed"
    BY <1>1, <2>1, <2>3, ComingOnClose
  <2>4. QED
    BY <2>2, <2>3 DEF Quiet
<1>3. /\ AllComing = UNION {ComingTexts(c) : c \in Clients}
      /\ AllComing' = UNION {ComingTexts(c)' : c \in Clients}
  BY DEF AllComing, ComingTexts
<1>4. \A c \in Clients : \A x \in ComingTexts(c) : x[1] = c
  BY DEF ComingTexts
<1>5. Pending' \subseteq Pending /\ \A x \in Pending \ Pending' : x[1] \in Broken'
  BY <1>1, <1>2, <1>3, <1>4 DEF Pending, Broken
<1>6. Broken \subseteq Broken' /\ Broken' \subseteq Clients
  BY <1>2 DEF Broken
<1>7. QED
  BY <1>1, <1>5, <1>6 DEF Channel!Break, Pending, Broken

\* The drain delivers the queue.
LEMMA DrainDelivers == ASSUME TextInv, SVDrain PROVE Channel!Deliver
<1>1. TypeOK
  BY DEF TextInv, QuitInv
<1>2. Numbered(printed)' = Numbered(printed) \cup Numbered(message_queue)
  <2>1. Numbered(printed)' = Numbered(printed \o message_queue)
    BY DEF SVDrain, Numbered
  <2>2. QED
    BY <1>1, <2>1, TextTypes, NumberedConcat
<1>3. Numbered(message_queue)' = {}
  BY DEF SVDrain, Numbered
<1>4. AllComing' = AllComing /\ Broken' = Broken
  BY DEF SVDrain, tcp, AllComing, Coming, Broken
<1>5. ASSUME NEW x \in Numbered(message_queue), NEW y \in AllComing
      PROVE  ~Channel!Earlier(y, x) /\ x # y
  <2>1. PICK c \in Clients : y \in ComingTexts(c)
    BY AllComingIs
  <2>2. PICK n \in 0..written[c] :
          /\ \A z \in Numbered(HandedOver) : z[1] = c => z[2] \in 1..n
          /\ \A z \in ComingTexts(c) : z[1] = c /\ z[2] \in (n + 1)..written[c]
    BY NumbersOf
  <2>3. y[1] = c /\ y[2] \in (n + 1)..written[c] /\ (x[1] = c => x[2] \in 1..n)
    BY <1>1, <2>1, <2>2, HandedOverIs
  <2>4. x[1] = c => ~(y[2] < x[2]) /\ x[2] # y[2]
    BY <2>3
  <2>5. QED
    BY <2>3, <2>4 DEF Channel!Earlier
<1>6. /\ Pending' \subseteq Pending /\ Pending \ Pending' = Numbered(message_queue)
      /\ \A x \in Pending \ Pending' : \A y \in Pending' : ~Channel!Earlier(y, x)
  BY <1>3, <1>4, <1>5 DEF Pending
<1>7. QED
  BY <1>2, <1>4, <1>6 DEF Channel!Deliver, Pending, Broken

\* read() leaves the texts on their way.
LEMMA DataBreaks == ASSUME TextInv, NEW c \in Clients, THData(c) PROVE Channel!Break
<1>1. TypeOK /\ in_hand' = [in_hand EXCEPT ![c] = toServer[c]] /\ in_hand[c] = <<>>
  BY DEF THData, THGoto, TextInv, QuitInv, Threads
<1>2. UNCHANGED <<Numbered(message_queue), Numbered(printed)>>
  BY DEF THData, Numbered
<1>3. ASSUME NEW d \in Clients PROVE Coming(d)' = Coming(d)
  <2>1. CASE d = c
    <3>1. in_hand'[c] = toServer[c] /\ toServer'[c] = <<>> /\ toServer[c] \in Seq(Nat)
      BY <1>1 DEF THData, TcpServerClose, TypeOK, SVTypeOK, TcpTypeOK
    <3>2. QED
      BY <1>1, <2>1, <3>1, ConcatEmptySeq DEF Coming
  <2>2. CASE d # c
    <3>1. in_hand'[d] = in_hand[d] /\ toServer'[d] = toServer[d]
      BY <1>1, <2>2 DEF THData, TcpServerClose, TypeOK, SVTypeOK, TcpTypeOK
    <3>2. QED
      BY <3>1, ComingFrame
  <2>3. QED
    BY <2>1, <2>2
<1>4. AllComing' = AllComing
  BY <1>3 DEF AllComing
<1>5. Broken \subseteq Broken' /\ Broken' \subseteq Clients
  BY <1>1 DEF THData, TcpServerClose, TypeOK, TcpTypeOK, Broken
<1>6. QED
  BY <1>2, <1>4, <1>5 DEF Channel!Break, Pending, Broken

\* The push moves them from the thread to the queue, and the channel not at all.
LEMMA PushStutters ==
  ASSUME TextInv, NEW c \in Clients, THPush(c)
  PROVE  Pending' = Pending /\ UNCHANGED <<Numbered(printed), Broken>>
<1> DEFINE C == Coming(c)  T == toServer[c]  h == in_hand[c]  F == From(c, h)
<1>1. TypeOK
  BY DEF TextInv, QuitInv
<1>2. /\ h \in Seq(Nat) /\ T \in Seq(Nat) /\ F \in Seq(Texts) /\ message_queue \in Seq(Texts)
      /\ C = h \o T
  BY <1>1, TextTypes, FromType DEF Coming
<1>3. DOMAIN F = DOMAIN h /\ \A k \in DOMAIN h : F[k].from = c /\ F[k].text = h[k]
  BY DEF From
<1>4. in_hand'[c] = <<>> /\ toServer' = toServer
  BY <1>1 DEF THPush, tcp, TypeOK, SVTypeOK
<1>5. \A d \in Clients \ {c} : ComingTexts(d)' = ComingTexts(d)
  <2>1. \A d \in Clients \ {c} : in_hand'[d] = in_hand[d]
    BY <1>1 DEF THPush, TypeOK, SVTypeOK
  <2>2. \A d \in Clients \ {c} : Coming(d)' = Coming(d)
    BY <1>4, <2>1, ComingFrame
  <2>3. QED
    BY <2>2 DEF ComingTexts
<1>6. Coming(c)' = T
  BY <1>2, <1>4, ConcatEmptySeq DEF Coming
<1>7. message_queue' = message_queue \o F
  BY DEF THPush
<1> HIDE DEF F
<1>8. Numbered(message_queue)' = Numbered(message_queue) \cup Numbered(F)
  <2>1. Numbered(message_queue \o F) = Numbered(message_queue) \cup Numbered(F)
    BY <1>2, NumberedConcat
  <2>2. Numbered(message_queue)' = Numbered(message_queue \o F)
    BY <1>7 DEF Numbered
  <2>3. QED
    BY <2>1, <2>2
<1>9. Numbered(F) = {<<c, h[k]>> : k \in DOMAIN h}
  BY <1>3 DEF Numbered
<1>10. ComingTexts(c) = Numbered(F) \cup ComingTexts(c)'
  <2>1. ComingTexts(c)' = {<<c, T[k]>> : k \in DOMAIN T}
    BY <1>6 DEF ComingTexts
  <2>2. ComingTexts(c) = {<<c, C[k]>> : k \in DOMAIN C}
    BY DEF ComingTexts
  <2> HIDE DEF C, T, h
  <2>3. /\ DOMAIN h = 1..Len(h) /\ DOMAIN T = 1..Len(T) /\ DOMAIN C = 1..(Len(h) + Len(T))
        /\ Len(h) \in Nat /\ Len(T) \in Nat
        /\ \A k \in 1..Len(h) : C[k] = h[k]
        /\ \A k \in 1..Len(T) : C[Len(h) + k] = T[k]
    BY <1>2, ConcatParts
  <2>4. \A k \in DOMAIN h : k \in DOMAIN C /\ C[k] = h[k]
    BY <2>3
  <2>5. \A k \in DOMAIN T : Len(h) + k \in DOMAIN C /\ C[Len(h) + k] = T[k]
    BY <1>2, <2>3, ConcatParts
  <2>6. ASSUME NEW k \in DOMAIN C
        PROVE  (\E j \in DOMAIN h : C[k] = h[j]) \/ (\E j \in DOMAIN T : C[k] = T[j])
    <3>1. CASE k \in 1..Len(h)
      BY <2>3, <3>1
    <3>2. CASE k \notin 1..Len(h)
      <4>1. k - Len(h) \in DOMAIN T /\ Len(h) + (k - Len(h)) = k
        BY <2>3, <3>2
      <4>2. C[Len(h) + (k - Len(h))] = T[k - Len(h)]
        BY <2>5, <4>1
      <4>3. QED
        BY <4>1, <4>2
    <3>3. QED
      BY <3>1, <3>2
  <2>7. ComingTexts(c) \subseteq Numbered(F) \cup ComingTexts(c)'
    BY <1>9, <2>1, <2>2, <2>6
  <2>8. Numbered(F) \subseteq ComingTexts(c)
    BY <1>9, <2>2, <2>4
  <2>9. ComingTexts(c)' \subseteq ComingTexts(c)
    BY <2>1, <2>2, <2>5
  <2>10. QED
    BY <2>7, <2>8, <2>9
<1>11. /\ AllComing = UNION {ComingTexts(d) : d \in Clients}
       /\ AllComing' = UNION {ComingTexts(d)' : d \in Clients}
  BY DEF AllComing, ComingTexts
<1>12. Pending' = Pending
  BY <1>5, <1>8, <1>10, <1>11 DEF Pending
<1>13. QED
  BY <1>12 DEF THPush, tcp, Numbered, Broken

\* write() sends the next text.
LEMMA WriteSends == ASSUME TextInv, NEW c \in Clients, Writes(c) PROVE Channel!Send
<1> DEFINE C == Coming(c)  T == toServer[c]  h == in_hand[c]  w == written[c]
           x == <<c, w + 1>>
<1>1. /\ TypeOK /\ h \in Seq(Nat) /\ T \in Seq(Nat) /\ C \in Seq(Nat) /\ w \in Nat
      /\ C = h \o T /\ Len(C) \in Nat
  BY TextTypes DEF TextInv, QuitInv, Coming
<1>2. /\ UNCHANGED <<Numbered(message_queue), Numbered(printed), Broken>>
      /\ \A d \in Clients \ {c} : ComingTexts(d)' = ComingTexts(d)
  BY <1>1 DEF Writes, Numbered, Broken, ComingTexts, Coming, TypeOK, TcpTypeOK
<1>3. Coming(c)' = Append(C, w + 1)
  <2>1. toServer'[c] = Append(T, w + 1) /\ in_hand'[c] = h
    BY <1>1 DEF Writes, TypeOK, TcpTypeOK
  <2>2. Coming(c)' = h \o Append(T, w + 1)
    BY <2>1 DEF Coming
  <2> HIDE DEF C, T, h
  <2>3. Append(T, w + 1) = T \o <<w + 1>> /\ <<w + 1>> \in Seq(Nat)
    BY <1>1, AppendIsConcat
  <2>4. h \o (T \o <<w + 1>>) = (h \o T) \o <<w + 1>>
    BY <1>1, <2>3, ConcatAssociative
  <2>5. Append(C, w + 1) = C \o <<w + 1>>
    BY <1>1, AppendIsConcat
  <2>6. QED
    BY <1>1, <2>2, <2>3, <2>4, <2>5
<1>4. ComingTexts(c)' = ComingTexts(c) \cup {x}
  <2>1. ComingTexts(c)' = {<<c, Append(C, w + 1)[k]>> : k \in DOMAIN Append(C, w + 1)}
    BY <1>3 DEF ComingTexts
  <2>2. ComingTexts(c) = {<<c, C[k]>> : k \in DOMAIN C}
    BY DEF ComingTexts
  <2> HIDE DEF C, T, h, w, x
  <2>3. /\ DOMAIN Append(C, w + 1) = DOMAIN C \cup {Len(C) + 1}
        /\ \A k \in DOMAIN C : Append(C, w + 1)[k] = C[k]
        /\ Append(C, w + 1)[Len(C) + 1] = w + 1
    <3>1. w + 1 \in Nat
      BY <1>1
    <3>2. /\ DOMAIN Append(C, w + 1) = 1..(Len(C) + 1) /\ DOMAIN C = 1..Len(C)
          /\ \A k \in 1..Len(C) : Append(C, w + 1)[k] = C[k]
          /\ Append(C, w + 1)[Len(C) + 1] = w + 1
      BY <1>1, <3>1
    <3>3. 1..(Len(C) + 1) = 1..Len(C) \cup {Len(C) + 1}
      BY <1>1
    <3>4. QED
      BY <3>2, <3>3
  <2>4. QED
    BY <2>1, <2>2, <2>3 DEF x
<1>5. /\ AllComing = UNION {ComingTexts(d) : d \in Clients}
      /\ AllComing' = UNION {ComingTexts(d)' : d \in Clients}
  BY DEF AllComing, ComingTexts
<1>6. Pending' = Pending \cup {x}
  <2> HIDE DEF x
  <2>1. QED
    BY <1>2, <1>4, <1>5 DEF Pending
<1>7. ASSUME NEW y \in Pending \cup Numbered(printed), y[1] = c PROVE y[2] < w + 1
  <2>1. PICK n \in 0..written[c] :
          /\ \A z \in Numbered(HandedOver) : z[1] = c => z[2] \in 1..n
          /\ \A z \in ComingTexts(c) : z[1] = c /\ z[2] \in (n + 1)..written[c]
    BY NumbersOf
  <2>2. CASE y \in Numbered(HandedOver)
    BY <1>1, <1>7, <2>1, <2>2
  <2>3. CASE y \in AllComing
    <3>1. PICK d \in Clients : y \in ComingTexts(d)
      BY <2>3, AllComingIs
    <3>2. d = c
      BY <1>7, <3>1 DEF ComingTexts
    <3>3. QED
      BY <1>1, <2>1, <3>1, <3>2
  <2>4. QED
    BY <1>1, <2>2, <2>3, HandedOverIs DEF Pending
<1>8. Pending' \subseteq Clients \X Nat
  <2>1. x \in Clients \X Nat
    <3>1. w + 1 \in Nat
      BY <1>1
    <3> HIDE DEF w
    <3>2. QED
      BY <3>1
  <2>2. QED
    BY <1>1, <1>6, <2>1, PendingType
<1>9. \A z \in Pending' \ Pending : \A y \in Pending \cup Numbered(printed) :
        y[1] = z[1] => Channel!Earlier(y, z)
  BY <1>6, <1>7 DEF Channel!Earlier
<1>10. QED
  BY <1>2, <1>6, <1>8, <1>9 DEF Channel!Send, Pending, Broken

LEMMA ChannelStep ==
  ASSUME TextInv, TextStep
  PROVE  [Channel!Next]_<<Pending, Numbered(printed), Broken>>
<1>1. ASSUME NEW c \in Clients, Writes(c) PROVE Channel!Send
  BY <1>1, WriteSends
<1>2. ASSUME NEW c \in Clients, THPush(c) PROVE UNCHANGED <<Pending, Numbered(printed), Broken>>
  BY <1>2, PushStutters
<1>3. QED
  BY <1>1, <1>2, QuietBreaks, DrainDelivers, DataBreaks DEF TextStep, Channel!Next

\* server.cpp:45-54 and 117-122, client.cpp:64-75: the connections, the receive
\* threads, the shared queue and its drain implement an ordered channel from
\* each client to the screen, which loses nothing that write() accepted until
\* the server closes the connection; for every number of clients and texts,
\* whoever is killed and whenever the server is stopped.
THEOREM ChatImplementsChannel == Spec => ImplementsChannel
<1>1. Init => Channel!Init
  <2>1. SUFFICES ASSUME Init PROVE Channel!Init
    OBVIOUS
  <2>2. Numbered(message_queue) = {} /\ Numbered(printed) = {}
    BY <2>1 DEF Init, SVInit, Numbered
  <2>3. \A c \in Clients : Coming(c) = <<>>
    <3>1. \A c \in Clients : in_hand[c] = <<>> /\ toServer[c] = <<>>
      BY <2>1 DEF Init, SVInit, TcpInit
    <3>2. <<>> \in Seq(Nat) /\ <<>> \o <<>> = <<>>
      BY ConcatEmptySeq
    <3>3. QED
      BY <3>1, <3>2 DEF Coming
  <2>4. AllComing = {}
    BY <2>3 DEF AllComing
  <2>5. QED
    BY <2>2, <2>4 DEF Channel!Init
<1>2. TextInv /\ [Next]_vars => [Channel!Next]_<<Numbered(message_queue) \cup AllComing,
        Numbered(printed), {c \in Clients : server_end[c] = "closed"}>>
  BY StepIsTextStep, ChannelStep DEF Pending, Broken
<1>3. QED
  BY <1>1, <1>2, TextsHold, PTL DEF Spec, ImplementsChannel, Channel!Spec

-----------------------------------------------------------------------------
(* Everything is released.                                                 *)

\* The descriptor of c is in client_fds; the loop has still to close it.
Accepted(c) == \E k \in DOMAIN client_fds : client_fds[k] = c
ToBeClosed(c) == \E k \in DOMAIN client_fds : client_fds[k] = c /\ quitting <= k

\* An open descriptor is ahead of the loop, one that the loop closed is held by a
\* thread inside read(), and join waits for that thread.
Released ==
  /\ \A c \in Clients : server_end[c] = "open" => ToBeClosed(c)
  /\ \A c \in Clients : server_end[c] = "held" => Accepted(c) /\ sv_thread[c] = "reading"
  /\ sv_main \in {"join", "closeListen", "done"} => quitting > Len(client_fds)
  /\ sv_main \in {"closeListen", "done"} =>
       \A k \in DOMAIN client_fds : sv_thread[client_fds[k]] = "exited"
  /\ sv_main = "done" => ~listening /\ \A c \in Clients : server_end[c] # "backlog"

\* A step that at most closes connections, and moves threads that have not ended
\* and whose descriptor is not held afterwards.
LEMMA ReleasedKept ==
  ASSUME TypeOK, Released, UNCHANGED <<sv_main, client_fds, quitting, listening>>,
         \A c \in Clients : server_end'[c] = server_end[c] \/ server_end'[c] = "closed",
         \A c \in Clients : \/ sv_thread'[c] = sv_thread[c]
                            \/ sv_thread[c] # "exited" /\ server_end'[c] # "held"
  PROVE  Released'
<1>1. \A k \in DOMAIN client_fds : client_fds[k] \in Clients
  BY DEF TypeOK, SVTypeOK
<1>2. \A c \in Clients : server_end'[c] = "open" => ToBeClosed(c)'
  BY DEF Released, ToBeClosed
<1>3. \A c \in Clients : server_end'[c] = "held" => Accepted(c)' /\ sv_thread'[c] = "reading"
  BY DEF Released, Accepted
<1>4. sv_main' \in {"closeListen", "done"} =>
        \A k \in DOMAIN client_fds : sv_thread'[client_fds[k]] = "exited"
  BY <1>1 DEF Released
<1>5. sv_main' = "done" => ~listening' /\ \A c \in Clients : server_end'[c] # "backlog"
  BY DEF Released
<1>6. QED
  BY <1>2, <1>3, <1>4, <1>5 DEF Released

\* The main thread: accept() puts the new descriptor ahead of the loop, the loop
\* closes the one it comes past, join waits, and the last close() frees the rest.
LEMMA ReleasedServer == ASSUME TextInv, Released, SVStep PROVE Released'
<1>0. /\ TypeOK /\ Lists /\ Quits /\ Threads
      /\ client_fds \in Seq(Clients) /\ Len(client_fds) \in Nat /\ quitting \in Nat
      /\ DOMAIN client_fds = 1..Len(client_fds)
      /\ \A k \in 1..Len(client_fds) : client_fds[k] \in Clients
  BY DEF TextInv, QuitInv, TypeOK, SVTypeOK
<1>1. CASE SVAccept
  <2>0. sv_main' \in {"drain", "quit"} /\ quitting = 1 /\ quitting' = 1
    BY <1>0, <1>1 DEF SVAccept, SVGoto, Quits
  <2>1. CASE UNCHANGED <<tcp, client_fds, sv_thread>>
    BY <1>1, <2>0, <2>1 DEF Released, Accepted, ToBeClosed, tcp
  <2>2. CASE /\ TcpAccept /\ client_fds' = Append(client_fds, Head(backlog))
             /\ sv_thread' = [sv_thread EXCEPT ![Head(backlog)] = "test"]
    <3>0. PICK h : h = Head(backlog)
      OBVIOUS
    <3>1. h \in Clients /\ server_end[h] = "backlog"
      <4>1. 1 \in DOMAIN backlog /\ h = backlog[1] /\ backlog[1] \in Clients
        BY <1>0, <2>2, <3>0 DEF TcpAccept, TypeOK, TcpTypeOK
      <4>2. QED
        BY <1>0, <4>1 DEF Lists
    <3>2. /\ server_end'[h] = "open"
          /\ \A d \in Clients : d # h => /\ server_end'[d] = server_end[d]
                                         /\ sv_thread'[d] = sv_thread[d]
      BY <1>0, <2>2, <3>0, <3>1 DEF TcpAccept, TypeOK, TcpTypeOK, SVTypeOK
    <3>3. /\ DOMAIN client_fds' = 1..(Len(client_fds) + 1)
          /\ client_fds'[Len(client_fds) + 1] = h
          /\ \A k \in 1..Len(client_fds) : client_fds'[k] = client_fds[k]
      BY <1>0, <2>2, <3>0, <3>1
    <3>4. \A d \in Clients : (ToBeClosed(d) => ToBeClosed(d)') /\ (Accepted(d) => Accepted(d)')
      BY <1>0, <2>0, <3>3 DEF ToBeClosed, Accepted
    <3>5. ToBeClosed(h)'
      <4>1. Len(client_fds) + 1 \in DOMAIN client_fds' /\ quitting' <= Len(client_fds) + 1
        BY <1>0, <2>0, <3>3
      <4>2. QED
        BY <3>3, <4>1 DEF ToBeClosed
    <3>6. \A d \in Clients : server_end'[d] = "open" => ToBeClosed(d)'
      <4>1. \A d \in Clients : server_end[d] = "open" => ToBeClosed(d)'
        BY <3>4 DEF Released
      <4>2. QED
        BY <3>2, <3>5, <4>1
    <3>7. \A d \in Clients : server_end'[d] = "held" => Accepted(d)' /\ sv_thread'[d] = "reading"
      BY <3>2, <3>4 DEF Released
    <3>8. QED
      BY <2>0, <3>6, <3>7 DEF Released
  <2>3. QED
    BY <1>1, <2>1, <2>2 DEF SVAccept
<1>2. CASE SVDrain \/ SVQuit
  <2>1. /\ sv_main' \in {"loop", "killed", "close"}
        /\ UNCHANGED <<server_end, client_fds, quitting, sv_thread>>
    BY <1>2 DEF SVDrain, SVQuit, SVGoto, TcpServerWrite, tcp
  <2>2. QED
    BY <2>1 DEF Released, Accepted, ToBeClosed
<1>3. CASE SVClose
  <2>0. PICK c : c = client_fds[quitting]
    OBVIOUS
  <2>1. /\ sv_main = "close" /\ sv_main' = "quit" /\ quitting' = quitting + 1
        /\ UNCHANGED <<client_fds, sv_thread>> /\ quitting \in DOMAIN client_fds
    BY <1>0, <1>3 DEF SVClose, SVGoto, Quits
  <2>2. c \in Clients /\ Accepted(c)
    BY <1>0, <2>0, <2>1 DEF Accepted
  <2>3. /\ \A d \in Clients : d # c => server_end'[d] = server_end[d]
        /\ server_end'[c] \in {"held", "closed"}
        /\ server_end'[c] = "held" => sv_thread[c] = "reading"
    BY <1>0, <1>3, <2>0, <2>2 DEF SVClose, TcpServerClose, TypeOK, TcpTypeOK
  <2>4. \A d \in Clients : d # c /\ ToBeClosed(d) => ToBeClosed(d)'
    BY <1>0, <2>0, <2>1 DEF ToBeClosed
  <2>5. \A d \in Clients : Accepted(d) => Accepted(d)'
    BY <2>1 DEF Accepted
  <2>6. \A d \in Clients : server_end'[d] = "open" => ToBeClosed(d)'
    BY <2>3, <2>4 DEF Released
  <2>7. \A d \in Clients : server_end'[d] = "held" => Accepted(d)' /\ sv_thread'[d] = "reading"
    BY <2>1, <2>2, <2>3, <2>5 DEF Released
  <2>8. QED
    BY <2>1, <2>6, <2>7 DEF Released
<1>4. CASE SVEndOfQuit \/ SVJoin
  <2>1. UNCHANGED <<server_end, client_fds, quitting, sv_thread>>
    BY <1>4 DEF SVEndOfQuit, SVJoin, tcp
  <2>2. /\ sv_main' \in {"join", "closeListen"} /\ quitting > Len(client_fds)
        /\ (sv_main' = "closeListen" =>
              \A k \in DOMAIN client_fds : sv_thread[client_fds[k]] = "exited")
    BY <1>4 DEF SVEndOfQuit, SVJoin, SVGoto, Released
  <2>3. QED
    BY <2>1, <2>2 DEF Released, Accepted, ToBeClosed
<1>5. CASE SVCloseListen
  <2>1. /\ sv_main = "closeListen" /\ sv_main' = "done" /\ listening' = FALSE
        /\ UNCHANGED <<client_fds, quitting, sv_thread>>
        /\ \A c \in Clients : server_end'[c] = IF server_end[c] = "backlog" THEN "closed"
                                               ELSE server_end[c]
    BY <1>5 DEF SVCloseListen, SVGoto, TcpServerClose
  <2>2. /\ \A c \in Clients : server_end'[c] # "backlog"
        /\ \A c \in Clients : server_end'[c] \in {"open", "held"} => server_end'[c] = server_end[c]
    BY <2>1
  <2>3. \A c \in Clients : ToBeClosed(c)' = ToBeClosed(c) /\ Accepted(c)' = Accepted(c)
    BY <2>1 DEF ToBeClosed, Accepted
  <2>4. QED
    BY <2>1, <2>2, <2>3 DEF Released
<1>6. QED
  BY <1>1, <1>2, <1>3, <1>4, <1>5 DEF SVStep

\* Every step keeps it.
LEMMA ReleasedNext == ASSUME TextInv, Released, [Next]_vars PROVE Released'
<1>0. TypeOK /\ Lists /\ Quits /\ Threads
  BY DEF TextInv, QuitInv
<1>1. CASE ServerMain
  BY <1>1, ReleasedServer DEF ServerMain
<1>2. CASE UNCHANGED <<sv_main, client_fds, quitting, listening, server_end, sv_thread>>
  BY <1>0, <1>2, ReleasedKept
<1>3. CASE SVSigint
  BY <1>2, <1>3 DEF SVSigint, tcp
<1>4. ASSUME NEW c \in Clients, Receiver(c) PROVE Released'
  <2>1. UNCHANGED <<sv_main, client_fds, quitting, listening>>
    BY <1>4 DEF Receiver, THStep, THTest, THRead, THData, THNoData, THPush, Release, tcp
  <2>2. \A d \in Clients : d # c => sv_thread'[d] = sv_thread[d]
    BY <1>0, <1>4 DEF Receiver, THStep, THTest, THRead, THData, THNoData, THPush, THGoto,
                      TypeOK, SVTypeOK
  <2>3. CASE THTest(c) \/ THRead(c) \/ THPush(c)
    <3>1. server_end' = server_end /\ sv_thread[c] \in {"test", "read", "push"}
      BY <2>3 DEF THTest, THRead, THPush, THGoto, tcp
    <3>2. server_end[c] # "held"
      BY <3>1 DEF Released
    <3>3. QED
      BY <1>0, <2>1, <2>2, <3>1, <3>2, ReleasedKept
  <2>4. CASE THData(c) \/ THNoData(c)
    <3>1. /\ sv_thread[c] = "reading" /\ server_end'[c] # "held"
          /\ \A d \in Clients : server_end'[d] = server_end[d] \/ server_end'[d] = "closed"
      BY <2>4 DEF THData, THNoData, THGoto, Release, TcpServerClose, tcp
    <3>2. QED
      BY <1>0, <2>1, <2>2, <3>1, ReleasedKept
  <2>5. QED
    BY <1>4, <2>3, <2>4 DEF Receiver, THStep
<1>5. ASSUME NEW c \in Clients, ClientMain(c) PROVE Released'
  <2>1. UNCHANGED <<sv_main, client_fds, quitting, sv_thread>>
    BY <1>5 DEF ClientMain, svVars
  <2>2. CASE CLConnect(c) /\ listening
    <3>1. server_end' = [server_end EXCEPT ![c] = "backlog"] /\ listening' = listening
      BY <2>2 DEF CLConnect, TcpConnect
    <3>2. sv_main # "done"
      BY <2>2 DEF Released
    <3>3. \A d \in Clients : server_end'[d] \in {"open", "held"} => server_end'[d] = server_end[d]
      BY <1>0, <3>1 DEF TypeOK, TcpTypeOK
    <3>4. \A d \in Clients : ToBeClosed(d)' = ToBeClosed(d) /\ Accepted(d)' = Accepted(d)
      BY <2>1 DEF ToBeClosed, Accepted
    <3>5. QED
      BY <2>1, <3>2, <3>3, <3>4 DEF Released
  <2>3. CASE UNCHANGED <<listening, server_end>>
    BY <1>2, <2>1, <2>3
  <2>4. QED
    BY <1>5, <2>2, <2>3 DEF ClientMain, CLMain, CLConnect, CLCreate, CLSetRunning, CLLoop,
       CLWrite, EndClient, TcpClientClose, TcpClientWrite, tcp
<1>6. ASSUME NEW c \in Clients, ClientThread(c) \/ (CLKill(c) /\ UNCHANGED svVars)
      PROVE  Released'
  BY <1>2, <1>6 DEF ClientThread, CLThread, CLTest, CLRead, CLKill, EndClient,
                    TcpClientClose, svVars, tcp
<1>7. CASE UNCHANGED vars
  BY <1>2, <1>7 DEF vars, tcp, svVars
<1>8. QED
  BY <1>1, <1>3, <1>4, <1>5, <1>6, <1>7 DEF Next

\* server.cpp:127-146: the loop that writes Quit to every descriptor ever accepted,
\* those of clients that have left included, does not raise SIGPIPE, whichever
\* clients are killed and in whatever order they connect; and a server that has
\* ended, whenever it was interrupted, has released every connection, also those
\* it never accepted and those it closed while a thread was reading them.
THEOREM ServerQuitsCleanly == Spec => []QuitsCleanly
<1>1. Init => Released
  BY DEF Init, TcpInit, SVInit, Released
<1>2. TextInv /\ Released => QuitsCleanly
  <2>1. SUFFICES ASSUME TextInv, Released, sv_main = "done", NEW c \in Clients,
                        ServerHolds(c)
                 PROVE  FALSE
    BY DEF QuitsCleanly, ServerSurvives, TextInv, QuitInv, Quits, Released
  <2>2. client_fds \in Seq(Clients) /\ quitting \in Nat
    BY <2>1 DEF TextInv, QuitInv, TypeOK, SVTypeOK
  <2>3. server_end[c] # "backlog"
    BY <2>1 DEF Released
  <2>4. server_end[c] # "open"
    BY <2>1, <2>2 DEF Released, ToBeClosed
  <2>5. server_end[c] # "held"
    BY <2>1 DEF Released, Accepted
  <2>6. QED
    BY <2>1, <2>3, <2>4, <2>5 DEF ServerHolds
<1>3. TextInv /\ Released /\ [Next]_vars => Released'
  BY ReleasedNext
<1>4. QED
  BY <1>1, <1>2, <1>3, TextsHold, PTL DEF Spec
=============================================================================
