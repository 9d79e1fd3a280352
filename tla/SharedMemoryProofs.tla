------------------------- MODULE SharedMemoryProofs -------------------------
(***************************************************************************)
(* What the semaphores of Lab10 guarantee for every number of turns and    *)
(* every order of steps.  Type correctness needs no assumption.  The rest  *)
(* needs one that the code does not provide: an earlier run, if it was     *)
(* killed, left the mutex free and the start semaphore at 0.  Then the     *)
(* semaphore is a mutex (the abstract lock of Mutex), and a message is     *)
(* read whole, until the first SIGINT; the start gate holds beyond it, and *)
(* so does the account of the mutex's units.                               *)
(***************************************************************************)
EXTENDS SharedMemory, FiniteSetTheorems, TLAPS

-----------------------------------------------------------------------------
(* Types.                                                                  *)

\* A client inside the body of its loop has a turn left: without it the
\* increment of i in Unlock could leave the type.
TurnLeft ==
  \A c \in Clients : pc[c] = "lock" \/ InCS(c) => i[c] < NUM_MESSAGES

\* Each step keeps the types: a semaphore is never below zero, a client has
\* a turn left when it takes one.
LEMMA StepKeepsTypes == TypeOK /\ TurnLeft /\ [Next]_vars => TypeOK' /\ TurnLeft'
<1>0. SUFFICES ASSUME TypeOK, TurnLeft, [Next]_vars PROVE TypeOK' /\ TurnLeft'
  OBVIOUS
<1> USE SharedMemoryAssumption, <1>0
<1>1. CASE UNCHANGED vars
  BY <1>1 DEF TypeOK, TurnLeft, InCS, vars, shared, local
<1>2. ASSUME NEW c \in {1, 2}, OpenMutex(c) \/ OpenStart(c)
      PROVE  TypeOK' /\ TurnLeft'
  BY <1>2 DEF TypeOK, TurnLeft, InCS, OpenMutex, OpenStart, Open, Goto, shared, PCs, Clients
<1>3. ASSUME NEW c \in {1, 2}, WaitStart(c) \/ Attach(c)
      PROVE  TypeOK' /\ TurnLeft'
  BY <1>3 DEF TypeOK, TurnLeft, InCS, WaitStart, Attach, Move, Goto, shared, PCs, Clients
<1>4. CASE CreateMutex \/ CreateStart
  <2>1. CASE CreateMutex
    <3>1. mutex' \in Nat
      BY <2>1 DEF TypeOK, CreateMutex
    <3>2. QED
      BY <2>1, <3>1 DEF TypeOK, TurnLeft, InCS, CreateMutex, Move, Goto, PCs, Clients
  <2>2. CASE CreateStart
    <3>1. start' \in Nat
      BY <2>2 DEF TypeOK, CreateStart
    <3>2. QED
      BY <2>2, <3>1 DEF TypeOK, TurnLeft, InCS, CreateStart, Move, Goto, PCs, Clients
  <2>3. QED
    BY <1>4, <2>1, <2>2
<1>5. CASE CreateShm \/ CreateShmFails
  BY <1>5 DEF TypeOK, TurnLeft, InCS, CreateShm, CreateShmFails, Move, Goto, PCs, Clients
<1>6. CASE InitAddress
  BY <1>6 DEF TypeOK, TurnLeft, InCS, InitAddress, Move, Goto, PCs, Clients
<1>7. CASE InitMessage
  BY <1>7 DEF TypeOK, TurnLeft, InCS, InitMessage, Move, Goto, PCs, Clients
<1>8. CASE PostStart
  BY <1>8 DEF TypeOK, TurnLeft, InCS, PostStart, Move, Goto, PCs, Clients
<1>9. ASSUME NEW c \in Clients, Loop(c) PROVE TypeOK' /\ TurnLeft'
  BY <1>9 DEF TypeOK, TurnLeft, InCS, Loop, Move, Goto, shared, PCs
<1>10. ASSUME NEW c \in Clients, Finish(c) PROVE TypeOK' /\ TurnLeft'
  BY <1>10 DEF TypeOK, TurnLeft, InCS, Finish, Cleanup, Move, Goto, shared, PCs
<1>11. ASSUME NEW c \in Clients, Lock(c) PROVE TypeOK' /\ TurnLeft'
  BY <1>11 DEF TypeOK, TurnLeft, InCS, Lock, Move, Goto, PCs
<1>12. ASSUME NEW c \in Clients, Check(c) PROVE TypeOK' /\ TurnLeft'
  BY <1>12 DEF TypeOK, TurnLeft, InCS, Check, Move, Goto, shared, PCs
<1>13. ASSUME NEW c \in Clients, Read(c) PROVE TypeOK' /\ TurnLeft'
  BY <1>13 DEF TypeOK, TurnLeft, InCS, Read, Move, Goto, PCs
<1>14. ASSUME NEW c \in Clients, SetDest(c) PROVE TypeOK' /\ TurnLeft'
  <2>1. ReplyTo(c, i[c]) \in Clients
    BY DEF TypeOK, ReplyTo, Clients
  <2>2. QED
    BY <1>14, <2>1 DEF TypeOK, TurnLeft, InCS, SetDest, Move, Goto, PCs
<1>15. ASSUME NEW c \in Clients, SetMsg(c) PROVE TypeOK' /\ TurnLeft'
  BY <1>15 DEF TypeOK, TurnLeft, InCS, SetMsg, Move, Goto, PCs
<1>16. ASSUME NEW c \in Clients, Unlock(c) PROVE TypeOK' /\ TurnLeft'
  <2>1. i[c] \in Nat /\ i[c] + 1 \in 0..NUM_MESSAGES
    BY <1>16 DEF TypeOK, TurnLeft, InCS, Unlock
  <2>2. QED
    BY <1>16, <2>1 DEF TypeOK, TurnLeft, InCS, Unlock, Goto, PCs
<1>17. ASSUME NEW c \in Interruptible, Sigint(c) PROVE TypeOK' /\ TurnLeft'
  BY <1>17 DEF TypeOK, TurnLeft, InCS, Sigint, Goto, shared, PCs
<1>18. QED
  BY <1>1, <1>2, <1>3, <1>4, <1>5, <1>6, <1>7, <1>8, <1>9, <1>10, <1>11, <1>12,
     <1>13, <1>14, <1>15, <1>16, <1>17
     DEF Next, Client, Client3, LoopStep, Clients

\* Every value an earlier run may leave behind has its type.
LEMMA ShmTypeInit == Init => TypeOK /\ TurnLeft
<1>1. SUFFICES ASSUME Init PROVE TypeOK /\ TurnLeft
  OBVIOUS
<1>2. PICK old \in Leftovers :
        /\ mutexName = old.names /\ startName = old.names /\ segment = old.names
        /\ mutex = old.mutex /\ start = old.start
        /\ dest = old.dest /\ src = NoClient /\ message = NoClient
  BY <1>1 DEF Init
<1>3. old \in [names : BOOLEAN, mutex : Nat, start : Nat,
               dest : Clients \cup {NoClient}]
  BY SharedMemoryAssumption
<1>4. /\ mutexName \in BOOLEAN /\ startName \in BOOLEAN /\ segment \in BOOLEAN
      /\ mutex \in Nat /\ start \in Nat
  BY <1>2, <1>3
<1>5. /\ src \in Clients \cup {NoClient} /\ dest \in Clients \cup {NoClient}
      /\ message \in Clients \cup {NoClient}
  BY <1>2, <1>3 DEF NoClient
<1>6. /\ pc \in [Clients -> PCs] /\ is_running \in [Clients -> BOOLEAN]
      /\ i \in [Clients -> 0..NUM_MESSAGES] /\ tries \in [Clients -> 0..RETRIES]
  BY <1>1, SharedMemoryAssumption DEF Init, PCs
<1>7. written \in BOOLEAN /\ TurnLeft
  BY <1>1 DEF Init, TurnLeft, InCS, Clients
<1>8. QED
  BY <1>4, <1>5, <1>6, <1>7 DEF TypeOK

\* Whatever was left behind and whoever is interrupted, the state has its
\* types: in particular no semaphore is taken below zero.
THEOREM ShmTypeCorrect == Spec => []TypeOK
  BY ShmTypeInit, StepKeepsTypes, PTL DEF Spec

-----------------------------------------------------------------------------
(* Mutual exclusion and whole messages, undisturbed.                       *)

\* Nobody takes the mutex before client 3 has it; if it is there, it is free.
Created ==
  pc[3] = "createMutex" =>
    (mutexName => mutex = 1) /\ \A c \in Clients : ~InCS(c)

\* Until the first message is written, clients 1 and 2 wait in front of a
\* start semaphore that nobody posted.
Gate ==
  ~written => /\ start = 0
              /\ pc[3] \in {"createMutex", "createStart", "createShm", "init",
                            "initMsg", "done"}
              /\ (pc[3] = "initMsg" => src = 3)
              /\ \A c \in {1, 2} : pc[c] \in {"openMutex", "openStart",
                                              "waitStart", "done"}

Past == written => pc[3] \notin {"createMutex", "createStart", "createShm",
                                  "init", "initMsg"}

\* The two fields that a reader compares differ only while one client is
\* between the first and the last assignment of its reply, and then the
\* source is that client.
Replying(c) == pc[c] \in {"setDest", "setMsg"}
WholeMessage ==
  /\ \A c \in Clients : Replying(c) => src = c
  /\ written /\ (\A c \in Clients : ~Replying(c)) => message = src

Seen == Created /\ Gate /\ Past /\ MutualExclusion /\ BinaryMutex /\ WholeMessage

\* The invariant: it speaks of the time before the first SIGINT.
MutexInv == Undisturbed => Seen

\* It holds when the clients start.
LEMMA MutexInit == HarmlessLeftovers /\ Init => MutexInv
<1>1. SUFFICES ASSUME HarmlessLeftovers, Init PROVE Seen
  BY DEF MutexInv
<1>2. (mutexName => mutex = 1) /\ start = 0
  BY <1>1 DEF Init, HarmlessLeftovers
<1>3. pc = [c \in Clients |-> IF c = 3 THEN "createMutex" ELSE "openMutex"] /\ ~written
  BY <1>1 DEF Init
<1>4. QED
  BY <1>2, <1>3 DEF Seen, Created, Gate, Past, MutualExclusion, BinaryMutex,
                    WholeMessage, Replying, InCS, Clients

\* A SIGINT is never forgotten.
LEMMA DisturbedForEver ==
  ASSUME TypeOK, [Next]_vars, Undisturbed' PROVE Undisturbed
<1>1. ASSUME NEW c \in Interruptible, Sigint(c) PROVE FALSE
  BY <1>1, SharedMemoryAssumption DEF TypeOK, Sigint, Undisturbed
<1>2. is_running' = is_running
  BY <1>1 DEF Next, Client, Client3, LoopStep, vars, local, OpenMutex, OpenStart, Open,
     WaitStart, Attach, CreateMutex, CreateStart, CreateShm, CreateShmFails, InitAddress,
     InitMessage, PostStart, Loop, Finish, Lock, Check, Read, SetDest, SetMsg, Unlock, Move
<1>3. QED
  BY <1>2 DEF Undisturbed

\* Each step keeps it.  Of the mutex: whoever enters found it 1, so nobody
\* was inside, and makes it 0; whoever leaves was alone and makes it 1.  Of
\* the message: the writer is alone from its first assignment to its last.
LEMMA MutexStep ==
  ASSUME TypeOK, MutexInv, [Next]_vars PROVE MutexInv'
<1>a. SUFFICES ASSUME Undisturbed' PROVE Seen'
  BY DEF MutexInv
<1>0. Undisturbed /\ Seen
  BY <1>a, DisturbedForEver DEF MutexInv
<1> USE <1>0 DEF TypeOK, Seen, Created, Gate, Past, MutualExclusion, BinaryMutex,
                 WholeMessage, Replying, InCS, Clients
<1>1. CASE UNCHANGED vars
  BY <1>1 DEF vars, shared, local
<1>2. ASSUME NEW c \in {1, 2}, OpenMutex(c) \/ OpenStart(c) PROVE Seen'
  BY <1>2 DEF OpenMutex, OpenStart, Open, Goto, shared
<1>3. ASSUME NEW c \in {1, 2}, WaitStart(c) \/ Attach(c) PROVE Seen'
  BY <1>3 DEF WaitStart, Attach, Move, Goto, shared
<1>4. ASSUME CreateMutex PROVE Seen'
  BY <1>4 DEF CreateMutex, Move, Goto
<1>5. ASSUME CreateStart \/ CreateShm \/ CreateShmFails PROVE Seen'
  BY <1>5 DEF CreateStart, CreateShm, CreateShmFails, Move, Goto
<1>6. ASSUME InitAddress \/ InitMessage PROVE Seen'
  BY <1>6 DEF InitAddress, InitMessage, Move, Goto
<1>7. ASSUME PostStart PROVE Seen'
  BY <1>7 DEF PostStart, Move, Goto
<1>8. ASSUME NEW c \in Clients, Loop(c) PROVE Seen'
  BY <1>8 DEF Loop, Move, Goto, shared
<1>9. ASSUME NEW c \in Clients, Finish(c) PROVE Seen'
  BY <1>9 DEF Finish, Cleanup, Move, Goto, shared
<1>10. ASSUME NEW c \in Clients, Lock(c) PROVE Seen'
  BY <1>10 DEF Lock, Move, Goto
<1>11. ASSUME NEW c \in Clients, Check(c) PROVE Seen'
  BY <1>11 DEF Check, Move, Goto, shared
<1>12. ASSUME NEW c \in Clients, Read(c) PROVE Seen'
  BY <1>12 DEF Read, Move, Goto
<1>13. ASSUME NEW c \in Clients, SetDest(c) PROVE Seen'
  BY <1>13 DEF SetDest, Move, Goto
<1>14. ASSUME NEW c \in Clients, SetMsg(c) PROVE Seen'
  BY <1>14 DEF SetMsg, Move, Goto
<1>15. ASSUME NEW c \in Clients, Unlock(c) PROVE Seen'
  BY <1>15 DEF Unlock, Goto
<1>16. ASSUME NEW c \in Interruptible, Sigint(c) PROVE FALSE
  BY <1>a, <1>16, SharedMemoryAssumption DEF Sigint, Undisturbed
<1>17. QED
  BY <1>1, <1>2, <1>3, <1>4, <1>5, <1>6, <1>7, <1>8, <1>9, <1>10, <1>11, <1>12,
     <1>13, <1>14, <1>15, <1>16 DEF Next, Client, Client3, LoopStep

\* Without harmful leftovers the invariant holds throughout.
LEMMA MutexInvariant == ASSUME HarmlessLeftovers PROVE Spec => []MutexInv
<1>1. Init => MutexInv
  BY MutexInit
<1>2. TypeOK /\ MutexInv /\ [Next]_vars => MutexInv'
  BY MutexStep
<1>3. QED
  BY <1>1, <1>2, ShmTypeCorrect, PTL DEF Spec

\* client.h:28, client3.cpp:68: until the first SIGINT the semaphore is a
\* mutex, neither lost nor doubled, for every number of turns, if an earlier
\* run left it free or not at all.
THEOREM ShmMutex == ASSUME HarmlessLeftovers PROVE Spec => []MutexUndisturbed
<1>1. MutexInv => MutexUndisturbed
  BY DEF MutexInv, Seen, MutexUndisturbed
<1>2. QED
  BY <1>1, MutexInvariant, PTL

\* The clients that Section sees inside.
Inside == {c \in Clients : Undisturbed /\ InCS(c)}

\* A step adds at most the one client that takes the semaphore, when nobody is
\* inside, or removes the one that was inside: by its post, or by the SIGINT
\* that ends the promise.
LEMMA SectionStep ==
  ASSUME TypeOK, MutexInv, MutexInv', [Next]_vars
  PROVE  [\E c \in Clients : \/ Inside = {} /\ Inside' = {c}
                             \/ Inside = {c} /\ Inside' = {}]_Inside
<1>1. CASE ~Undisturbed'
  <2>1. Inside' = {}
    BY <1>1 DEF Inside
  <2>2. \A c, d \in Inside : c = d
    BY DEF Inside, MutexInv, Seen, MutualExclusion
  <2>3. QED
    BY <2>1, <2>2 DEF Inside
<1>2. CASE Undisturbed'
  <2>0. Undisturbed /\ Seen /\ Seen'
    BY <1>2, DisturbedForEver DEF MutexInv
  <2>1. Inside = {c \in Clients : InCS(c)} /\ Inside' = {c \in Clients : InCS(c)'}
    BY <1>2, <2>0 DEF Inside
  <2>2. ASSUME NEW c \in Clients, Lock(c)
        PROVE  Inside = {} /\ Inside' = {c}
    <3>1. \A d \in Clients : ~InCS(d)
      BY <2>0, <2>2 DEF Seen, BinaryMutex, Created, Lock
    <3>2. \A d \in Clients : InCS(d)' <=> d = c
      BY <2>2, <3>1 DEF TypeOK, InCS, Lock, Move, Goto
    <3>3. QED
      BY <2>1, <3>1, <3>2
  <2>3. ASSUME NEW c \in Clients, Unlock(c)
        PROVE  Inside = {c} /\ Inside' = {}
    <3>1. \A d \in Clients : InCS(d) <=> d = c
      BY <2>0, <2>3 DEF Seen, MutualExclusion, InCS, Unlock
    <3>2. \A d \in Clients : ~InCS(d)'
      BY <2>3, <3>1 DEF TypeOK, InCS, Unlock, Goto
    <3>3. QED
      BY <2>1, <3>1, <3>2
  <2>4. ASSUME NEW c \in Clients,
               \/ OpenMutex(c) \/ OpenStart(c) \/ WaitStart(c) \/ Attach(c)
               \/ Loop(c) \/ Finish(c) \/ Check(c) \/ Read(c) \/ SetDest(c) \/ SetMsg(c)
        PROVE  \A d \in Clients : InCS(d)' <=> InCS(d)
    BY <2>4 DEF TypeOK, InCS, OpenMutex, OpenStart, Open, WaitStart, Attach, Loop, Finish,
       Check, Read, SetDest, SetMsg, Move, Goto
  <2>5. ASSUME \/ CreateMutex \/ CreateStart \/ CreateShm \/ CreateShmFails
               \/ InitAddress \/ InitMessage \/ PostStart \/ UNCHANGED vars
        PROVE  \A d \in Clients : InCS(d)' <=> InCS(d)
    BY <2>5 DEF TypeOK, InCS, CreateMutex, CreateStart, CreateShm, CreateShmFails,
       InitAddress, InitMessage, PostStart, Move, Goto, vars, local
  <2>6. ASSUME NEW c \in Interruptible, Sigint(c) PROVE FALSE
    BY <1>2, <2>6, SharedMemoryAssumption DEF TypeOK, Sigint, Undisturbed
  <2>7. (\A d \in Clients : InCS(d)' <=> InCS(d)) => Inside' = Inside
    BY <2>1
  <2>8. QED
    BY <2>2, <2>3, <2>4, <2>5, <2>6, <2>7 DEF Next, Client, Client3, LoopStep, Clients
<1>3. QED
  BY <1>1, <1>2

\* client1.cpp:116-129: until the first SIGINT sem_wait and sem_post implement
\* the abstract lock of Mutex, for every number of turns.
THEOREM ShmImplementsMutex ==
  ASSUME HarmlessLeftovers PROVE Spec => MutexUntilSigint
<1>1. Init => Section!Init
  BY DEF Init, Section!Init, InCS, Clients
<1>2. TypeOK /\ MutexInv /\ MutexInv' /\ [Next]_vars => [Section!Next]_Inside
  BY SectionStep DEF Section!Next, Section!Acquire, Section!Release, Inside
<1>3. QED
  BY <1>1, <1>2, ShmTypeCorrect, MutexInvariant, PTL
  DEF Spec, MutexUntilSigint, Section!Spec, Inside

\* Then a client prints a message whole: the text is by the client named.
THEOREM ShmMessageIntact == ASSUME HarmlessLeftovers PROVE Spec => []MessageIntact
<1>1. MutexInv => MessageIntact
  <2>1. SUFFICES ASSUME Seen, NEW c \in Clients, pc[c] = "read" PROVE message = src
    BY DEF MessageIntact, MutexInv
  <2>2. InCS(c) /\ \A d \in Clients : ~Replying(d)
    BY <2>1 DEF Seen, MutualExclusion, InCS, Replying
  <2>3. written
    BY <2>1 DEF Seen, Gate, Clients
  <2>4. QED
    BY <2>1, <2>2, <2>3 DEF Seen, WholeMessage
<1>2. QED
  BY <1>1, MutexInvariant, PTL

\* Until the first SIGINT a client that is about to answer has the turn.
TurnInv ==
  Undisturbed => \A c \in Clients : pc[c] \in {"read", "setDest"} => dest = c

\* Each step keeps it: the turn changes hands only within a reply, when no
\* other client is inside.
LEMMA TurnStep ==
  ASSUME TypeOK, MutexInv, TurnInv, [Next]_vars PROVE TurnInv'
<1>a. SUFFICES ASSUME Undisturbed' PROVE TurnInv'
  BY DEF TurnInv
<1>0. Undisturbed /\ Seen /\ \A c \in Clients : pc[c] \in {"read", "setDest"} => dest = c
  BY <1>a, DisturbedForEver DEF MutexInv, TurnInv
<1> USE <1>0 DEF TypeOK, TurnInv, Clients
<1>1. CASE UNCHANGED vars
  BY <1>1 DEF vars, shared, local
<1>2. ASSUME NEW c \in {1, 2}, OpenMutex(c) \/ OpenStart(c) \/ WaitStart(c) \/ Attach(c)
      PROVE  TurnInv'
  BY <1>2 DEF OpenMutex, OpenStart, Open, WaitStart, Attach, Move, Goto, shared
<1>3. CASE CreateMutex \/ CreateStart \/ CreateShm \/ CreateShmFails
  BY <1>3 DEF CreateMutex, CreateStart, CreateShm, CreateShmFails, Move, Goto, Seen, Gate,
     Past
<1>4. CASE InitAddress
  BY <1>4 DEF InitAddress, Move, Goto, Seen, Gate, Past
<1>5. CASE InitMessage \/ PostStart
  BY <1>5 DEF InitMessage, PostStart, Move, Goto
<1>6. ASSUME NEW c \in Clients, Loop(c) \/ Finish(c) \/ Lock(c) \/ Unlock(c) PROVE TurnInv'
  BY <1>6 DEF Loop, Finish, Cleanup, Lock, Unlock, Move, Goto, shared
<1>7. ASSUME NEW c \in Clients, Check(c) \/ Read(c) \/ SetMsg(c) PROVE TurnInv'
  BY <1>7 DEF Check, Read, SetMsg, Move, Goto, shared
<1>8. ASSUME NEW c \in Clients, SetDest(c) PROVE TurnInv'
  BY <1>8 DEF SetDest, Move, Goto, Seen, MutualExclusion, InCS
<1>9. ASSUME NEW c \in Interruptible, Sigint(c) PROVE FALSE
  BY <1>a, <1>9, SharedMemoryAssumption DEF Sigint, Undisturbed
<1>10. QED
  BY <1>1, <1>2, <1>3, <1>4, <1>5, <1>6, <1>7, <1>8, <1>9
     DEF Next, Client, Client3, LoopStep

\* client1.cpp:124: until the first SIGINT the turn is handed on by the client
\* that has it, to one of the three, within its critical section, for every
\* number of turns.
THEOREM ShmOneAddressee == ASSUME HarmlessLeftovers PROVE Spec => OneAddressee
<1> DEFINE HandedOn == Undisturbed /\ written /\ dest' # dest =>
                         dest' \in Clients /\ pc[dest] = "setDest" /\ pc'[dest] = "setMsg"
<1>1. Init => TurnInv
  BY DEF Init, TurnInv, Clients
<1>2. TypeOK /\ MutexInv /\ TurnInv /\ [Next]_vars => TurnInv'
  BY TurnStep
<1>3. TypeOK /\ MutexInv /\ TurnInv /\ [Next]_vars => [HandedOn]_vars
  <2> SUFFICES ASSUME TypeOK, MutexInv, TurnInv, Next, Undisturbed, written, dest' # dest
               PROVE  dest' \in Clients /\ pc[dest] = "setDest" /\ pc'[dest] = "setMsg"
    OBVIOUS
  <2>1. PICK c \in Clients : SetDest(c)
    <3>1. ~InitAddress
      BY DEF MutexInv, Seen, Past, InitAddress, Move
    <3>2. \A c \in {1, 2} : ~OpenMutex(c) /\ ~OpenStart(c) /\ ~WaitStart(c) /\ ~Attach(c)
      BY DEF OpenMutex, OpenStart, Open, WaitStart, Attach, Move, shared
    <3>3. ~(CreateMutex \/ CreateStart \/ CreateShm \/ CreateShmFails)
      BY DEF CreateMutex, CreateStart, CreateShm, CreateShmFails, Move, shared
    <3>4. ~(InitMessage \/ PostStart)
      BY DEF InitMessage, PostStart
    <3>5. \A c \in Clients : ~Loop(c) /\ ~Finish(c) /\ ~Lock(c) /\ ~Check(c)
      BY DEF Loop, Finish, Cleanup, Lock, Check, shared
    <3>6. \A c \in Clients : ~Read(c) /\ ~SetMsg(c) /\ ~Unlock(c)
      BY DEF Read, SetMsg, Unlock
    <3>7. \A c \in Interruptible : ~Sigint(c)
      BY DEF Sigint, shared
    <3>8. QED
      BY <3>1, <3>2, <3>3, <3>4, <3>5, <3>6, <3>7
         DEF Next, Client, Client3, LoopStep, Clients
  <2>2. dest = c /\ pc[c] = "setDest"
    BY <2>1 DEF TurnInv, SetDest, Move
  <2>3. pc'[c] = "setMsg"
    BY <2>1 DEF SetDest, Move, Goto, TypeOK
  <2>4. dest' \in Clients
    BY <2>1 DEF SetDest, ReplyTo, TypeOK, Clients
  <2>5. QED
    BY <2>2, <2>3, <2>4
<1>4. QED
  BY <1>1, <1>2, <1>3, ShmTypeCorrect, MutexInvariant, PTL DEF Spec, OneAddressee

-----------------------------------------------------------------------------
(* The start gate, signals included.                                       *)

\* Before the first message is written nobody posted the start semaphore, so
\* a client beyond it was interrupted, and will leave at its loop's test.
StartGate ==
  ~written => /\ start = 0
              /\ pc[3] \in {"createMutex", "createStart", "createShm", "init",
                            "initMsg", "done"}
              /\ \A c \in {1, 2} :
                   \/ pc[c] \in {"openMutex", "openStart", "waitStart", "done"}
                   \/ pc[c] \in {"attach", "loop"} /\ ~is_running[c]

\* Each step keeps the gate; a signal that reaches a waiting client clears
\* is_running in the same step.
LEMMA StartGateStep ==
  ASSUME TypeOK, StartGate, [Next]_vars PROVE StartGate'
<1>1. CASE UNCHANGED vars
  BY <1>1 DEF StartGate, vars, shared, local
<1>2. ASSUME NEW c \in {1, 2}, OpenMutex(c) \/ OpenStart(c) \/ WaitStart(c) \/ Attach(c)
      PROVE  StartGate'
  BY <1>2 DEF TypeOK, StartGate, OpenMutex, OpenStart, Open, WaitStart, Attach, Move,
              Goto, shared, Clients
<1>3. CASE CreateMutex \/ CreateStart \/ CreateShm \/ CreateShmFails
  BY <1>3 DEF TypeOK, StartGate, CreateMutex, CreateStart, CreateShm, CreateShmFails,
              Move, Goto, Clients
<1>4. CASE InitAddress \/ InitMessage \/ PostStart
  BY <1>4 DEF TypeOK, StartGate, InitAddress, InitMessage, PostStart, Move, Goto, Clients
<1>5. ASSUME NEW c \in Clients, Loop(c) \/ Finish(c) \/ Lock(c) \/ Check(c)
      PROVE  StartGate'
  BY <1>5 DEF TypeOK, StartGate, Loop, Finish, Cleanup, Lock, Check, Move, Goto,
              shared, Clients
<1>6. ASSUME NEW c \in Clients, Read(c) \/ SetDest(c) \/ SetMsg(c) \/ Unlock(c)
      PROVE  StartGate'
  BY <1>6 DEF TypeOK, StartGate, Read, SetDest, SetMsg, Unlock, Move, Goto, Clients
<1>7. ASSUME NEW c \in Interruptible, Sigint(c) PROVE StartGate'
  BY <1>7, SharedMemoryAssumption DEF TypeOK, StartGate, Sigint, Goto, shared, Clients
<1>8. QED
  BY <1>1, <1>2, <1>3, <1>4, <1>5, <1>6, <1>7
     DEF Next, Client, Client3, LoopStep, Clients

-----------------------------------------------------------------------------
(* The units of the mutex, signals included.                               *)

Bit(p) == IF p THEN 1 ELSE 0

\* Three clients are counted one by one.
LEMMA CountClients ==
  ASSUME NEW S \in SUBSET Clients
  PROVE  Cardinality(S) = Bit(1 \in S) + Bit(2 \in S) + Bit(3 \in S)
<1> DEFINE A == S \cap {1}
           B == S \cap {1, 2}
<1>1. IsFiniteSet({}) /\ Cardinality({}) = 0
  BY FS_EmptySet
<1>2. IsFiniteSet(A) /\ Cardinality(A) = Bit(1 \in S)
  <2>1. A = IF 1 \in S THEN {1} ELSE {}
    OBVIOUS
  <2> HIDE DEF A
  <2>2. QED
    BY <1>1, <2>1, FS_Singleton DEF Bit
<1>3. IsFiniteSet(B) /\ Cardinality(B) = Bit(1 \in S) + Bit(2 \in S)
  <2>1. B = (IF 2 \in S THEN A \cup {2} ELSE A) /\ 2 \notin A
    OBVIOUS
  <2> HIDE DEF A, B
  <2>2. IsFiniteSet(A \cup {2}) /\ Cardinality(A \cup {2}) = Cardinality(A) + 1
    BY <1>2, <2>1, FS_AddElement
  <2>3. QED
    BY <1>2, <2>1, <2>2 DEF Bit
<1>4. S = (IF 3 \in S THEN B \cup {3} ELSE B) /\ 3 \notin B
  <2>1. \A x \in S : x = 1 \/ x = 2 \/ x = 3
    BY DEF Clients
  <2>2. \A x : x \in S <=> x \in B \/ (3 \in S /\ x = 3)
    BY <2>1
  <2>3. 3 \notin B
    OBVIOUS
  <2> HIDE DEF B
  <2>4. QED
    BY <2>2, <2>3, Zenon
<1> HIDE DEF A, B
<1>5. CASE 3 \in S
  <2>1. Cardinality(B \cup {3}) = Cardinality(B) + 1
    BY <1>3, <1>4, FS_AddElement
  <2>2. QED
    BY <1>3, <1>4, <1>5, <2>1 DEF Bit
<1>6. CASE 3 \notin S
  BY <1>3, <1>4, <1>6 DEF Bit
<1>7. QED
  BY <1>5, <1>6

\* The units in the mutex and inside, and the clients that may add one.
Units == mutex + (Bit(InCS(1)) + Bit(InCS(2)) + Bit(InCS(3)))
MayAdd(c) == ~is_running[c] /\ pc[c] # "lock"
Slack == Bit(MayAdd(1)) + Bit(MayAdd(2)) + Bit(MayAdd(3))

\* In front of client 3's sem_open the mutex is free or not there; behind it
\* the units are accounted for.
UnitsInv == /\ Past
            /\ pc[3] = "createMutex" => (mutexName => mutex = 1)
            /\ pc[3] # "createMutex" => 1 <= Units /\ Units <= 1 + Slack

LEMMA UnitsInvImplies == ASSUME TypeOK, UnitsInv PROVE UnitsAccounted
<1> DEFINE In == {c \in Clients : InCS(c)}
<1>1. Cardinality(In) = Bit(InCS(1)) + Bit(InCS(2)) + Bit(InCS(3))
  <2>1. In \in SUBSET Clients /\ \A c \in 1..3 : c \in In <=> InCS(c)
    BY DEF Clients
  <2> HIDE DEF In
  <2>2. QED
    BY <2>1, CountClients DEF Bit
<1>2. Cardinality(Interrupted) = Slack
  <2>1. /\ Interrupted \in SUBSET Clients
        /\ \A c \in 1..3 : c \in Interrupted <=> MayAdd(c)
    BY DEF Clients, Interrupted, MayAdd
  <2>2. QED
    BY <2>1, CountClients DEF Bit, Slack
<1>3. ASSUME pc[3] # "createMutex"
      PROVE  mutex + Cardinality(In) \in 1..(1 + Cardinality(Interrupted))
  <2> HIDE DEF In
  <2>1. mutex + Cardinality(In) = Units /\ Units \in Int /\ Slack \in Int
    BY <1>1 DEF Units, Slack, Bit, TypeOK
  <2>2. QED
    BY <1>2, <1>3, <2>1 DEF UnitsInv
<1>4. QED
  BY <1>3 DEF UnitsAccounted

\* A step that keeps the mutex and who is inside keeps the account.
LEMMA UnitsFrame ==
  ASSUME TypeOK, UnitsInv, Past', UNCHANGED mutex,
         pc[3] = "createMutex" <=> pc'[3] = "createMutex",
         pc'[3] = "createMutex" => UNCHANGED mutexName,
         \A k \in Clients : InCS(k)' <=> InCS(k),
         \A k \in Clients : MayAdd(k) => MayAdd(k)'
  PROVE  UnitsInv'
<1>1. 1 \in Clients /\ 2 \in Clients /\ 3 \in Clients
  BY DEF Clients
<1>2. Units' = Units
  BY <1>1 DEF Units, Bit
<1>3. Slack <= Slack' /\ Slack \in Int /\ Slack' \in Int
  <2>1. \A k \in {1, 2, 3} : /\ Bit(MayAdd(k)) <= Bit(MayAdd(k)')
                             /\ Bit(MayAdd(k)) \in Int /\ Bit(MayAdd(k)') \in Int
    BY <1>1 DEF Bit
  <2>2. Slack' = Bit(MayAdd(1)') + Bit(MayAdd(2)') + Bit(MayAdd(3)')
    BY DEF Slack, Bit
  <2>3. QED
    BY <2>1, <2>2 DEF Slack
<1>4. Units \in Int
  BY DEF Units, Bit, TypeOK
<1>5. pc'[3] = "createMutex" => (mutexName' => mutex' = 1)
  BY DEF UnitsInv
<1>6. ASSUME pc'[3] # "createMutex" PROVE 1 <= Units' /\ Units' <= 1 + Slack'
  <2>1. 1 <= Units /\ Units <= 1 + Slack
    BY <1>6 DEF UnitsInv
  <2>2. \A u, s, t \in Int : 1 <= u /\ u <= 1 + s /\ s <= t => u <= 1 + t
    OBVIOUS
  <2>3. 1 <= Units /\ Units <= 1 + Slack'
    BY <1>3, <1>4, <2>1, <2>2
  <2>4. QED
    BY <1>2, <2>3, Zenon
<1>7. QED
  BY <1>5, <1>6 DEF UnitsInv

\* A client that may add a unit never comes to sem_wait again.
LEMMA UnitsStep ==
  ASSUME TypeOK, StartGate, UnitsInv, [Next]_vars PROVE UnitsInv'
<1> DEFINE Keeps == /\ Past' /\ UNCHANGED mutex
                    /\ pc[3] = "createMutex" <=> pc'[3] = "createMutex"
                    /\ pc'[3] = "createMutex" => UNCHANGED mutexName
                    /\ \A k \in Clients : InCS(k)' <=> InCS(k)
                    /\ \A k \in Clients : MayAdd(k) => MayAdd(k)'
<1>0. Keeps => UnitsInv'
  BY UnitsFrame
<1>1. UNCHANGED vars => Keeps
  BY DEF vars, shared, local, UnitsInv, Past, InCS, MayAdd
<1>2. ASSUME NEW c \in {1, 2}, OpenMutex(c) \/ OpenStart(c) PROVE Keeps
  BY <1>2 DEF OpenMutex, OpenStart, Open, Goto, shared, TypeOK, UnitsInv, Past, InCS,
              MayAdd, Clients
<1>3. ASSUME NEW c \in {1, 2}, WaitStart(c) \/ Attach(c) PROVE Keeps
  BY <1>3 DEF WaitStart, Attach, Move, Goto, shared, TypeOK, UnitsInv, Past, InCS,
              MayAdd, Clients
<1>4. CASE CreateMutex
  BY <1>4 DEF CreateMutex, Move, Goto, StartGate, TypeOK, UnitsInv, Past, Units, Slack,
              MayAdd, Bit, InCS, Clients
<1>5. CreateStart \/ CreateShm \/ CreateShmFails => Keeps
  BY DEF CreateStart, CreateShm, CreateShmFails, Move, Goto, TypeOK, UnitsInv, Past, InCS,
         MayAdd, Clients
<1>6. InitAddress \/ InitMessage \/ PostStart => Keeps
  BY DEF InitAddress, InitMessage, PostStart, Move, Goto, TypeOK, UnitsInv, Past, InCS,
         MayAdd, Clients
<1>7. ASSUME NEW c \in Clients, Loop(c) PROVE Keeps
  BY <1>7 DEF Loop, Move, Goto, shared, TypeOK, UnitsInv, Past, InCS, MayAdd, Clients
<1>8. ASSUME NEW c \in Clients, Finish(c) PROVE Keeps
  BY <1>8 DEF Finish, Cleanup, Move, Goto, shared, TypeOK, UnitsInv, Past, InCS, MayAdd,
              Clients
<1>9. ASSUME NEW c \in Clients, Lock(c) PROVE UnitsInv'
  BY <1>9, SMTT(30) DEF Lock, Move, Goto, StartGate, TypeOK, UnitsInv, Past, Units, Slack,
              MayAdd, Bit, InCS, Clients
<1>10. ASSUME NEW c \in Clients, Check(c) \/ Read(c) \/ SetDest(c) \/ SetMsg(c) PROVE Keeps
  BY <1>10 DEF Check, Read, SetDest, SetMsg, Move, Goto, shared, TypeOK, UnitsInv, Past,
               InCS, MayAdd, Clients
<1>11. ASSUME NEW c \in Clients, Unlock(c) PROVE UnitsInv'
  BY <1>11, SMTT(30) DEF Unlock, Goto, StartGate, TypeOK, UnitsInv, Past, Units, Slack,
               MayAdd, Bit, InCS, Clients
<1>12. ASSUME NEW c \in Interruptible, Sigint(c) PROVE UnitsInv'
  BY <1>12, SharedMemoryAssumption, SMTT(30)
     DEF Sigint, Goto, shared, StartGate, TypeOK, UnitsInv, Past, Units, Slack, MayAdd,
         Bit, InCS, Clients
<1> HIDE DEF Keeps
<1>13. QED
  BY <1>0, <1>1, <1>2, <1>3, <1>4, <1>5, <1>6, <1>7, <1>8, <1>9, <1>10, <1>11, <1>12
     DEF Next, Client, Client3, LoopStep, Clients

\* client1.cpp:116-129 beyond SIGINT: the mutex is never lost, and each client
\* whose sem_wait a signal cut short adds at most one unit to it, whichever
\* clients SIGINT reaches and how often, if an earlier run left it free.
THEOREM ShmUnitsAccounted ==
  ASSUME HarmlessLeftovers PROVE Spec => []UnitsAccounted
<1>1. Init => StartGate /\ UnitsInv
  <2>1. SUFFICES ASSUME Init PROVE StartGate /\ UnitsInv
    OBVIOUS
  <2>2. start = 0 /\ (mutexName => mutex = 1)
    BY <2>1 DEF Init, HarmlessLeftovers
  <2>3. QED
    BY <2>1, <2>2 DEF Init, StartGate, UnitsInv, Past, Clients
<1>2. TypeOK /\ StartGate /\ [Next]_vars => StartGate'
  BY StartGateStep
<1>3. TypeOK /\ StartGate /\ UnitsInv /\ [Next]_vars => UnitsInv'
  BY UnitsStep
<1>4. TypeOK /\ UnitsInv => UnitsAccounted
  BY UnitsInvImplies
<1>5. QED
  BY <1>1, <1>2, <1>3, <1>4, ShmTypeCorrect, PTL DEF Spec

-----------------------------------------------------------------------------
(* Nobody waits in vain.                                                   *)

\* What clients 1 and 2 have taken from the start semaphore, or gone without,
\* and what client 3 has posted.
Taken(c) == Bit(pc[c] \notin {"openMutex", "openStart", "waitStart"})
Posts == IF ~written \/ pc[3] = "post1" THEN 0 ELSE IF pc[3] = "post2" THEN 1 ELSE 2

\* The posts of client 3 are in the start semaphore, or were taken.
StartUnits == Posts <= start + (Taken(1) + Taken(2))

\* Each wait takes one unit, unless a signal ends it first; nobody takes two.
LEMMA StartUnitsStep ==
  ASSUME TypeOK, StartGate, Past, StartUnits, [Next]_vars PROVE StartUnits'
<1> USE DEF TypeOK, StartUnits, Posts, Taken, Bit
<1>1. CASE UNCHANGED vars
  BY <1>1 DEF vars, shared, local
<1>2. ASSUME NEW c \in {1, 2}, OpenMutex(c) \/ OpenStart(c) \/ WaitStart(c) \/ Attach(c)
      PROVE  StartUnits'
  BY <1>2 DEF OpenMutex, OpenStart, Open, WaitStart, Attach, Move, Goto, shared, Clients
<1>3. CASE CreateMutex \/ CreateStart \/ CreateShm \/ CreateShmFails
  BY <1>3 DEF StartGate, Past, CreateMutex, CreateStart, CreateShm, CreateShmFails,
              Move, Goto, Clients
<1>4. CASE InitAddress \/ InitMessage
  BY <1>4 DEF StartGate, Past, InitAddress, InitMessage, Move, Goto, Clients
<1>5. CASE PostStart
  BY <1>5 DEF StartGate, Past, PostStart, Move, Goto, Clients
<1>6. ASSUME NEW c \in Clients,
             \/ Loop(c) \/ Finish(c) \/ Lock(c) \/ Check(c)
             \/ Read(c) \/ SetDest(c) \/ SetMsg(c) \/ Unlock(c)
      PROVE  StartUnits'
  <2>1. /\ UNCHANGED <<start, written>>
        /\ \E q \in {"loop", "lock", "check", "read", "setDest", "setMsg", "unlock", "done"} :
             Goto(c, q)
        /\ pc[c] \in {"loop", "lock", "check", "read", "setDest", "setMsg", "unlock"}
    BY <1>6 DEF Loop, Finish, Cleanup, Lock, Check, Read, SetDest, SetMsg, Unlock, Move,
                shared
  <2>2. QED
    BY <2>1 DEF Goto, Clients
<1>7. ASSUME NEW c \in Interruptible, Sigint(c) PROVE StartUnits'
  <2>1. /\ UNCHANGED <<start, written>>
        /\ \/ UNCHANGED pc
           \/ pc[c] = "waitStart" /\ Goto(c, "attach")
           \/ pc[c] = "lock" /\ Goto(c, "check")
    BY <1>7 DEF Sigint, shared
  <2>2. QED
    BY <2>1, SharedMemoryAssumption DEF Goto, Clients
<1>8. QED
  BY <1>1, <1>2, <1>3, <1>4, <1>5, <1>6, <1>7
     DEF Next, Client, Client3, LoopStep, Clients

\* No client waits for ever in one of the two semaphores, and none goes in
\* before there is something to read, whichever clients SIGINT reaches, if no
\* earlier run left semaphores that are taken or posted.
THEOREM ShmWaitsAsLongAsNeeded ==
  ASSUME HarmlessLeftovers PROVE Spec => []WaitsAsLongAsNeeded
<1>1. Init => StartGate /\ UnitsInv /\ StartUnits
  <2>1. SUFFICES ASSUME Init PROVE StartGate /\ UnitsInv /\ StartUnits
    OBVIOUS
  <2>2. start = 0 /\ (mutexName => mutex = 1)
    BY <2>1 DEF Init, HarmlessLeftovers
  <2>3. QED
    BY <2>1, <2>2
    DEF Init, StartGate, UnitsInv, Past, StartUnits, Posts, Taken, Bit, Clients
<1>2. TypeOK /\ StartGate /\ [Next]_vars => StartGate'
  BY StartGateStep
<1>3. TypeOK /\ StartGate /\ UnitsInv /\ [Next]_vars => UnitsInv'
  BY UnitsStep
<1>4. TypeOK /\ StartGate /\ UnitsInv /\ StartUnits /\ [Next]_vars => StartUnits'
  BY StartUnitsStep DEF UnitsInv
<1>5. TypeOK /\ StartGate /\ UnitsInv /\ StartUnits => WaitsAsLongAsNeeded
  <2> SUFFICES ASSUME TypeOK, StartGate, UnitsInv, StartUnits PROVE WaitsAsLongAsNeeded
    OBVIOUS
  <2>1. ASSUME NEW c \in Clients, pc[c] = "lock" PROVE mutex > 0 \/ \E d \in Clients : InCS(d)
    <3>1. pc[3] # "createMutex"
      BY <2>1 DEF StartGate, UnitsInv, Past, Clients
    <3>2. 1 <= Units /\ mutex \in Nat
      BY <3>1 DEF UnitsInv, TypeOK
    <3>3. 1 \in Clients /\ 2 \in Clients /\ 3 \in Clients
      BY DEF Clients
    <3>4. QED
      BY <3>2, <3>3 DEF Units, Bit
  <2>2. ASSUME NEW c \in {1, 2}, written, pc[3] \notin {"post1", "post2"},
               pc[c] = "waitStart"
        PROVE  start > 0
    BY <2>2 DEF StartUnits, Posts, Taken, Bit, TypeOK
  <2>3. StartAfterInit
    BY DEF StartGate, StartAfterInit, InCS
  <2>4. QED
    BY <2>1, <2>2, <2>3 DEF WaitsAsLongAsNeeded
<1>6. QED
  BY <1>1, <1>2, <1>3, <1>4, <1>5, ShmTypeCorrect, PTL DEF Spec
=============================================================================
