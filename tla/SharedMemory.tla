---------------------------- MODULE SharedMemory ----------------------------
(***************************************************************************)
(* Lab10: three clients pass one message round in a shared memory segment. *)
(* Client 3 creates two named semaphores and the segment, writes the first *)
(* message and posts /shm_start twice; clients 1 and 2 wait for the names, *)
(* then for a post.  Each client then takes /shm_mutex NUM_MESSAGES times; *)
(* when the message is addressed to it, it prints it and writes a reply.   *)
(*                                                                         *)
(* pc[c] names the next step of client c:                                  *)
(*   openMutex, openStart, waitStart, attach         clients 1 and 2       *)
(*   createMutex, createStart, createShm, init, initMsg,                   *)
(*   post1, post2                                    client 3              *)
(*   loop, lock, check, read, setDest, setMsg, unlock, done     all        *)
(* A message is abstracted to the number of the client that wrote it.      *)
(* sigaction is used without SA_RESTART: SIGINT makes a sem_wait that      *)
(* blocks return, and no return value of sem_wait is tested.               *)
(***************************************************************************)
EXTENDS Integers, FiniteSets

CONSTANTS NUM_MESSAGES,    \* turns of each client's loop
          RETRIES,         \* attempts to open a semaphore
          Interruptible,   \* clients that SIGINT may reach
          Leftovers        \* what earlier runs left behind: see Init

Clients  == 1..3
NoClient == 0

\* An earlier run leaves nothing if client 3 ended in order; if it was killed
\* it leaves the semaphores, at some value, and the segment.
Nothing == [names |-> FALSE, mutex |-> 0, start |-> 0, dest |-> NoClient]

ASSUME SharedMemoryAssumption ==
  /\ NUM_MESSAGES \in Nat /\ RETRIES \in Nat
  /\ Interruptible \subseteq Clients
  /\ Leftovers \subseteq [names : BOOLEAN, mutex : Nat, start : Nat,
                          dest : Clients \cup {NoClient}]

\* What was left does no harm: the earlier run was killed while nobody had the
\* mutex and after both posts of the start semaphore were taken.
HarmlessLeftovers ==
  \A old \in Leftovers : old.start = 0 /\ (old.names => old.mutex = 1)

VARIABLES
  mutexName, startName,   \* the names /shm_mutex and /shm_start exist
  mutex, start,           \* the values of the semaphores
  segment,                \* the key 1234 has a segment
  src, dest, message,     \* the fields of the segment
  written,                \* client 3 of this run has written the first message
  pc, i, tries, is_running

shared == <<mutexName, startName, mutex, start, segment, src, dest, message, written>>
local  == <<pc, i, tries, is_running>>
vars   == <<shared, local>>

PCs == {"openMutex", "openStart", "waitStart", "attach", "createMutex",
        "createStart", "createShm", "init", "initMsg", "post1", "post2", "loop", "lock",
        "check", "read", "setDest", "setMsg", "unlock", "done"}

TypeOK ==
  /\ mutexName \in BOOLEAN /\ startName \in BOOLEAN /\ segment \in BOOLEAN
  /\ mutex \in Nat /\ start \in Nat
  /\ src \in Clients \cup {NoClient} /\ dest \in Clients \cup {NoClient}
  /\ message \in Clients \cup {NoClient} /\ written \in BOOLEAN
  /\ pc \in [Clients -> PCs]
  /\ i \in [Clients -> 0..NUM_MESSAGES]
  /\ tries \in [Clients -> 0..RETRIES]
  /\ is_running \in [Clients -> BOOLEAN]

Init ==
  /\ \E old \in Leftovers :
       /\ mutexName = old.names /\ startName = old.names /\ segment = old.names
       /\ mutex = old.mutex /\ start = old.start
       /\ dest = old.dest /\ src = NoClient /\ message = NoClient
  /\ written = FALSE
  /\ pc = [c \in Clients |-> IF c = 3 THEN "createMutex" ELSE "openMutex"]
  /\ i = [c \in Clients |-> 0]
  /\ tries = [c \in Clients |-> RETRIES]
  /\ is_running = [c \in Clients |-> TRUE]

Goto(c, next) == pc' = [pc EXCEPT ![c] = next]
Move(c, from, to) ==
  pc[c] = from /\ Goto(c, to) /\ UNCHANGED <<i, tries, is_running>>

-----------------------------------------------------------------------------
(* Clients 1 and 2 until their loop.                                       *)

\* sem_open of an existing name, tried RETRIES times a second apart; the
\* client gives up when every attempt failed.
Open(c, from, exists, to) ==
  /\ UNCHANGED <<shared, i, is_running>>
  /\ pc[c] = from
  /\ \/ tries[c] > 0 /\ exists /\ Goto(c, to) /\ tries' = [tries EXCEPT ![c] = RETRIES]
     \/ tries[c] > 0 /\ ~exists /\ tries' = [tries EXCEPT ![c] = @ - 1] /\ UNCHANGED pc
     \/ tries[c] = 0 /\ Goto(c, "done") /\ UNCHANGED tries

OpenMutex(c) == Open(c, "openMutex", mutexName, "openStart")
OpenStart(c) == Open(c, "openStart", startName, "waitStart")

WaitStart(c) ==
  /\ Move(c, "waitStart", "attach")
  /\ start > 0 /\ start' = start - 1
  /\ UNCHANGED <<mutexName, startName, mutex, segment, src, dest, message, written>>

\* shmget and shmat: without a segment the client ends.
Attach(c) == Move(c, "attach", IF segment THEN "loop" ELSE "done") /\ UNCHANGED shared

-----------------------------------------------------------------------------
(* Client 3 until its loop.                                                *)

\* A fault: one unit for each of the other clients.
FaultyCreateMutex ==
  /\ Move(3, "createMutex", "createStart")
  /\ mutexName' = TRUE /\ mutex' = IF mutexName THEN mutex ELSE 2
  /\ UNCHANGED <<startName, start, segment, src, dest, message, written>>

\* O_CREAT gives the initial value only to a semaphore that does not exist.
CreateMutex ==
  /\ Move(3, "createMutex", "createStart")
  /\ mutexName' = TRUE /\ mutex' = IF mutexName THEN mutex ELSE 1
  /\ UNCHANGED <<startName, start, segment, src, dest, message, written>>

CreateStart ==
  /\ Move(3, "createStart", "createShm")
  /\ startName' = TRUE /\ start' = IF startName THEN start ELSE 0
  /\ UNCHANGED <<mutexName, mutex, segment, src, dest, message, written>>

CreateShm ==
  /\ Move(3, "createShm", "init") /\ segment' = TRUE
  /\ UNCHANGED <<mutexName, startName, mutex, start, src, dest, message, written>>

\* cleanup_clients of client 3: the names and the key are removed; who has
\* the semaphores and the segment open keeps them.
Cleanup == /\ mutexName' = FALSE /\ startName' = FALSE /\ segment' = FALSE
           /\ UNCHANGED <<mutex, start, src, dest, message, written>>

\* shmget or shmat fails; the segment, if there is one, stays.
CreateShmFails ==
  /\ Move(3, "createShm", "done")
  /\ mutexName' = FALSE /\ startName' = FALSE
  /\ UNCHANGED <<segment, mutex, start, src, dest, message, written>>

\* The first message, without the mutex: client 3 expects to be alone.
InitAddress ==
  /\ Move(3, "init", "initMsg")
  /\ src' = 3 /\ dest' = 1
  /\ UNCHANGED <<mutexName, startName, mutex, start, segment, message, written>>

InitMessage ==
  /\ Move(3, "initMsg", "post1")
  /\ message' = 3 /\ written' = TRUE
  /\ UNCHANGED <<mutexName, startName, mutex, start, segment, src, dest>>

PostStart ==
  /\ Move(3, "post1", "post2") \/ Move(3, "post2", "loop")
  /\ start' = start + 1
  /\ UNCHANGED <<mutexName, startName, mutex, segment, src, dest, message, written>>

-----------------------------------------------------------------------------
(* The loop of every client.                                               *)

\* A fault: the loop condition does not look at is_running.
FaultyLoop(c) ==
  /\ i[c] < NUM_MESSAGES
  /\ Move(c, "loop", "lock") /\ UNCHANGED shared

Loop(c) ==
  /\ i[c] < NUM_MESSAGES /\ is_running[c]
  /\ Move(c, "loop", "lock") /\ UNCHANGED shared

\* The end of the loop, the exit handler, and the end of the process.
Finish(c) ==
  /\ ~(i[c] < NUM_MESSAGES /\ is_running[c])
  /\ Move(c, "loop", "done")
  /\ IF c = 3 THEN Cleanup ELSE UNCHANGED shared

\* A fault: client 3, who created the segment, does not wait.
FaultyLock(c) ==
  /\ Move(c, "lock", "check")
  /\ \/ c = 3 /\ UNCHANGED mutex
     \/ c # 3 /\ mutex > 0 /\ mutex' = mutex - 1
  /\ UNCHANGED <<mutexName, startName, start, segment, src, dest, message, written>>

Lock(c) ==
  /\ Move(c, "lock", "check")
  /\ mutex > 0 /\ mutex' = mutex - 1
  /\ UNCHANGED <<mutexName, startName, start, segment, src, dest, message, written>>

\* A fault: `continue` for a message of somebody else.
FaultyCheck(c) ==
  Move(c, "check", IF dest = c THEN "read" ELSE "loop") /\ UNCHANGED shared

Check(c) == Move(c, "check", IF dest = c THEN "read" ELSE "unlock") /\ UNCHANGED shared

\* Prints srcClientNo and the message, then begins the reply.
Read(c) ==
  /\ Move(c, "read", "setDest") /\ src' = c
  /\ UNCHANGED <<mutexName, startName, mutex, start, segment, dest, message, written>>

\* A fault: the reply is addressed modulo the number of clients.
FaultyReplyTo(c, n) == (c + n) % 3

\* 2 + (i % 2), 1 + 2*(i % 2) and 1 + (i % 2) in clients 1, 2 and 3.
ReplyTo(c, n) == IF c = 1 THEN 2 + (n % 2)
                 ELSE IF c = 2 THEN 1 + 2 * (n % 2)
                 ELSE 1 + (n % 2)

SetDest(c) ==
  /\ Move(c, "setDest", "setMsg") /\ dest' = ReplyTo(c, i[c])
  /\ UNCHANGED <<mutexName, startName, mutex, start, segment, src, message, written>>

SetMsg(c) ==
  /\ Move(c, "setMsg", "unlock") /\ message' = c
  /\ UNCHANGED <<mutexName, startName, mutex, start, segment, src, dest, written>>

\* A fault: the client that was interrupted leaves the loop without its sem_post.
FaultyUnlock(c) ==
  /\ pc[c] = "unlock" /\ Goto(c, "loop")
  /\ mutex' = IF is_running[c] THEN mutex + 1 ELSE mutex
  /\ i' = [i EXCEPT ![c] = @ + 1]
  /\ UNCHANGED <<mutexName, startName, start, segment, src, dest, message, written,
                 tries, is_running>>

\* sem_post, sleep and ++i.
Unlock(c) ==
  /\ pc[c] = "unlock" /\ Goto(c, "loop")
  /\ mutex' = mutex + 1
  /\ i' = [i EXCEPT ![c] = @ + 1]
  /\ UNCHANGED <<mutexName, startName, start, segment, src, dest, message, written,
                 tries, is_running>>

\* SIGINT clears is_running and interrupts a sem_wait that blocks.
Sigint(c) ==
  /\ pc[c] # "done"
  /\ is_running' = [is_running EXCEPT ![c] = FALSE]
  /\ \/ UNCHANGED pc
     \/ pc[c] = "waitStart" /\ start = 0 /\ Goto(c, "attach")
     \/ pc[c] = "lock" /\ mutex = 0 /\ Goto(c, "check")
  /\ UNCHANGED <<shared, i, tries>>

-----------------------------------------------------------------------------
LoopStep(c) == \/ Loop(c) \/ Finish(c) \/ Lock(c) \/ Check(c) \/ Read(c)
               \/ SetDest(c) \/ SetMsg(c) \/ Unlock(c)
Client(c) == \/ OpenMutex(c) \/ OpenStart(c) \/ WaitStart(c) \/ Attach(c)
             \/ LoopStep(c)
Client3   == \/ CreateMutex \/ CreateStart \/ CreateShm \/ CreateShmFails
             \/ InitAddress \/ InitMessage \/ PostStart \/ LoopStep(3)

Next == \/ Client(1) \/ Client(2) \/ Client3
        \/ \E c \in Interruptible : Sigint(c)

Spec == Init /\ [][Next]_vars

\* The scheduler runs every client that can run.
FairSpec == Spec /\ WF_vars(Client(1)) /\ WF_vars(Client(2)) /\ WF_vars(Client3)

-----------------------------------------------------------------------------
InCS(c) == pc[c] \in {"check", "read", "setDest", "setMsg", "unlock"}

\* client.h:28, "One semaphore is used as a mutex for synchronizing access to
\* shared memory": no two clients are between sem_wait and sem_post.
MutualExclusion == \A c, d \in Clients : InCS(c) /\ InCS(d) => c = d

\* client3.cpp:68, "Create mutex semaphore with initial value 1 (binary
\* semaphore)": once client 3 has it, the mutex is 0 while a client holds it
\* and 1 otherwise, so it is neither lost nor doubled.
BinaryMutex ==
  pc[3] # "createMutex" =>
    mutex = IF \E c \in Clients : InCS(c) THEN 0 ELSE 1

\* SIGINT has reached no client yet.
Undisturbed == \A c \in Clients : is_running[c]

\* The semaphore is a mutex until the first SIGINT (client1.cpp:116-129).
MutexUndisturbed == Undisturbed => MutualExclusion /\ BinaryMutex

\* client1.cpp:116-129, the same as a refinement: until the first SIGINT the
\* clients take and give back one lock, also a semaphore that a killed run
\* left behind at 1.
Section == INSTANCE Mutex
             WITH Proc <- Clients,
                  holders <- {c \in Clients : Undisturbed /\ InCS(c)}
MutexUntilSigint == Section!Spec

\* Until then, what a client prints is one message: the text is by the client
\* that srcClientNo names.  The three fields of a reply are written one by
\* one, destClientNo before the text (client1.cpp:118-126).
MessageIntact ==
  Undisturbed => \A c \in Clients : pc[c] = "read" => message = src

\* Where SIGINT may have let a client through its sem_wait without a unit.
Interrupted == {c \in Clients : ~is_running[c] /\ pc[c] # "lock"}

\* Beyond SIGINT (client1.cpp:116-129): a client whose sem_wait was interrupted
\* goes in and posts all the same.  The mutex is never lost by that, and the
\* units in it and with the clients inside are one, and at most one more for
\* each client that was interrupted.
UnitsAccounted ==
  pc[3] # "createMutex" =>
    mutex + Cardinality({c \in Clients : InCS(c)}) \in 1..(1 + Cardinality(Interrupted))

\* client1.cpp:77, "Wait for start signal from client 3 (synchronization
\* point)": clients 1 and 2 look into the segment only after client 3 wrote
\* the first message, even when SIGINT cuts their wait short.
StartAfterInit == \A c \in {1, 2} : InCS(c) => written

\* Neither too early nor never (client1.cpp:95, 116-129, client3.cpp:109-110):
\* clients 1 and 2 go in after the first message only; once client 3 has posted
\* twice, a post is left for each of the two that waits; and who waits for its
\* turn finds the mutex free, or somebody inside who will post it.
WaitsAsLongAsNeeded ==
  /\ StartAfterInit
  /\ written /\ pc[3] \notin {"post1", "post2"} =>
       \A c \in {1, 2} : pc[c] = "waitStart" => start > 0
  /\ \A c \in Clients : pc[c] = "lock" => mutex > 0 \/ \E d \in Clients : InCS(d)

\* Until the first SIGINT the turn is handed on by the client that has it, to
\* one of the three, in the middle of its critical section (client1.cpp:124,
\* client2.cpp:127, client3.cpp:123).
OneAddressee ==
  [][Undisturbed /\ written /\ dest' # dest =>
       dest' \in Clients /\ pc[dest] = "setDest" /\ pc'[dest] = "setMsg"]_vars

\* Once client 3 has started the others, every client comes to its end,
\* whoever leaves last and whoever is interrupted (client1.cpp:115-135).
AllEnd == (pc[3] = "loop") ~> (\A c \in Clients : pc[c] = "done")
=============================================================================
