# UNX511: a TLA+ model of its interprocess communication

The repository is the course work of UNX511 (Unix systems programming): about
thirty small C and C++ programs, each built around one mechanism of interprocess
communication. What can go wrong in them seldom lies in one process, so the models
are of systems of processes: the programs of an assignment together, with the
kernel object between them and the signals that reach them.

The modules need TLC and the community modules; the proofs need TLAPS with Z3,
Zenon and LS4. Each run below is `tlc -config <cfg> <MC module>`, each proof
`tlapm <Proofs module>`.

## 1. Inventory

Components in the order of their weight for this project. Section 3 says which module
models which; the last three rows, and the arithmetic of `Automobile`, are not modelled,
for the reasons in section 7.

| component | state | operations | with whom, over what |
|---|---|---|---|
| `Assignment2/networkMonitor` | `running`, listening socket, `client_fds` (fd to interface name), `read_fds` | fork and exec of the monitors, `select` loop, accept and naming, answers, SIGINT handler, `cleanup_sockets` | the monitors, AF_UNIX stream |
| `Assignment2/intfMonitor` | `running`, its socket | handshake, poll of `operstate`, "Link Down" and the wait for an answer, SIGINT handler, "Done" | `networkMonitor` |
| `Lab10` clients 1-3 | segment (source, destination, text), two named semaphores, `is_running`, loop counter | start-up in two roles, the turn loop, SIGINT handler, removal of the names | one another, shared memory |
| `Lab8` server | System V queue, `is_running` | non-blocking receive, forward, Quit to all, `IPC_RMID` | the clients, one queue for everything |
| `Lab8` clients 1-3 | `is_running`, local queue and its mutex, two threads | send in turn to the two others, receive thread, print, join, `IPC_RMID` | the server |
| `Assignment3/LogServer` | filter level, `shutdown_flag`, `server_log.txt`, two threads | menu (set level and exact dump, cumulative dump, shut down), receive thread | the logger, UDP both ways |
| `Assignment3/Logger`, `TravelSimulator` | `log_level`, `listen_flag`, `isRunning`, socket, two threads | `InitializeLog`, `SetLogLevel`, `Log`, `ExitLog`, listener, SIGINT handler | the log server |
| `Assignment3/Automobile` | fuel, speed, track | `drive` and its fuel arithmetic | calls `Log` |
| `Lab9` chat server and clients | `client_fds`, message queue and mutex, `is_running`, a thread per client; `is_running` and a thread in each client | accept loop, receive threads with a timeout, shutdown by Quit, close and join; `stopClient.sh` | TCP |
| `Assignment1/Part4` parent and three workers | flags set by SIGUSR1 and SIGUSR2, signal mask, stored pids | fork, `sigsuspend` loops, reports by `kill`, `waitpid` | signals that coalesce |
| `Assignment1/Part2`, `Part3` worker and the two programs that test it | two flags, or one counter, set by handlers | fork, `waitpid` or `pause` until both signals came | the same signals |
| `Lab5b` sysmonExec and intfMonitor | `childPid`; `isRunning` of each child | fork, exec, SIGUSR1 to start, SIGUSR2 to stop, wait | signals, Ctrl-C and Ctrl-Z |
| `Exam/FinalExam1` | System V semaphore | N children that take turns, removal by the parent | the semaphore |
| `Lab5a` hardware device driver | `is_running`, `is_halt`, kernel thread | register, unregister, ioctl | the kernel thread |
| `Lab6` server and client | one connection | one request at a time | AF_UNIX stream |
| `Lab7`; `Lab1`-`Lab4`; file generators of `Assignment1`; `Exam/exam.c` | none that outlives a call | sequential input and output | - |

What is hard about the modelled ones, and what makes them correct:

* **Assignment2.** Connections arrive in any order and end at any moment; one
  `recv` may return two messages; SIGINT comes between any two system calls and
  closes the socket that `select` is about to watch; a `send` to a monitor that has
  gone kills the server. Correct means: the table lists exactly the open
  connections and no name twice; requests are answered by a server that runs, to a
  monitor that still listens; the end of the server releases everybody.
* **Lab10.** The only protection is a semaphore whose `sem_wait` nobody tests and
  which outlives a killed run. Correct means: one client at a time, a reply is read
  whole, nobody reads before the first message is written, and everybody ends.
* **Lab8.** One bounded kernel queue carries requests, deliveries and Quit; any
  process may remove it under the others; failed calls are not noticed, and a failed
  `msgrcv` leaves the message received last in the buffer. Correct means: a message goes
  to its addressee, once and in order as long as no `msgrcv` fails, and never out of
  order; clients that are stopped do end.
* **Assignment3.** Two processes with two threads each share flags and levels without
  locks, over sockets that lose datagrams. Correct means: the log is in the order of
  the `Log` calls, a level takes effect, threads end before their sockets are closed.
* **Lab9.** Descriptors of clients that have left stay in the server's list and are
  written to; descriptors are closed under the threads that read them; a client's
  receive thread may run before the flag it tests is set. Correct means: a text is
  printed once and in order, the shutdown ends whatever the clients do, and the
  clients end after it.
* **Parents and children.** Signals are not queued, arrive before handlers are
  installed, or between a test and the call that waits for them. Correct means: the
  parent draws the right conclusion from what it counted, it outlives its children, and
  it ends unless a signal really was lost, which the code cannot prevent.

`PROJECT.json` lists forty hazards with their source lines and the properties aimed at
them. Six have none, because what could go wrong does go wrong and nothing in the
repository claims otherwise: semaphores that a killed run of `Lab10` left taken or posted
(`client3.cpp:69`), a client of `Lab8` that removes the queue of all (`client1.cpp:89`),
reports that coalesce (`parent_main.c:158`), and in `Lab5b` a SIGUSR1 before the handlers
(`sysmonExec.cpp:60`) and signals handled before the first test of the loop
(`intfMonitor.cpp:59`); the sixth is in `Lab5a`, which is not modelled. The models have
the steps of the first five, and the properties name them as exceptions. Six more hazards were considered
and are not listed: which monitor connects first (`networkMonitor.cpp:355`; a connection may
go by the name of another monitor's interface, which the server only prints); a monitor
whose link stays up and that outlives the server (`intfMonitor.cpp:252`; it reads its
socket only to ask); more connections than the backlog (`networkMonitor.cpp:231`); client
3 of `Lab10` failing after it created the semaphores (`client3.cpp:90`; clients 1 and 2
then wait for ever, which nothing promises to avoid); a SIGINT before the simulator sets
`isRunning`, which is then forgotten (`TravelSimulator.cpp:34`); a level sent while the
simulator does not run, which is lost (`LogServer.cpp:162`). The last two, and the second,
are steps of the models.

## 2. Plan

Written, in this order, the interplay of most processes first:

1. `UnixStream`, `IntfMonitor`, `NetworkMonitor`, composed by `LinkMonitoring`;
2. `SharedMemory`;
3. `MessageQueue`;
4. `UdpSockets`, `LogServer`, `Logger`, composed by `RemoteLogging`;
5. `WorkerReports` and `WorkerTest`, `StartStop`, `SemaphoreTurns`;
6. `TcpStream`, `ChatServer`, `ChatClient`, composed by `Chat`;
7. the abstract specifications: `Mutex`, a lock, which `SharedMemory` and `SemaphoreTurns`
   implement; `OrderedChannel`, which `MessageQueue`, `Chat` and `RemoteLogging` implement;
   `NameRegistry`, which `LinkMonitoring` implements;
8. the safety inside the liveness properties, as invariants that can be proved: that who is
   in a blocking call finds there what ends it, or somebody who still has to provide it
   (`BlockedCallsReturn`, `WaitsAsLongAsNeeded`, `SleepsForAReason`, `SignalsCount`,
   `NoneWithoutTurn`, `QuitsCleanly`).

Each system has a module `MC...` with the values of its constants, the four of step 5 one
together (`MCProcessFamilies`), and a module `...Proofs` (`WorkerProofs` for
`WorkerReports` and `WorkerTest`).

To come:

9. `HardwareDevice` (`Lab5a`), and the fuel arithmetic of `Automobile` against its tank.

## 3. The modules

Conventions. A process is a program counter whose values are named for the system
call, or the test, that comes next; one action is the code from there to the next
point at which another process can interfere. Signal handlers are actions of their
own that may come between any two others. Definitions named `Faulty...` are slips
that a programmer could make in the code of the definition that follows them; they
take no part in the specifications and serve to show that each property notices
one. What a program prints is left out, unless a property is about it.

### 3.1 Network monitor (Assignment2)

`UnixStream` is the kernel's side of one AF_UNIX stream socket: a backlog, and per
connection two ends and two byte queues. A queue is read whole, as `recv` with a
large buffer does; closing with unread data resets the peer; writing to a closed
peer raises SIGPIPE.

`IntfMonitor` is one monitor process (`im_pc`, `im_running`). `IMSendReady`,
`IMRecvMonitor`, `IMSendMonitoring` are the handshake; `IMPollUp`, `IMPollDown`,
`IMRecvCommand`, `IMSleep` the loop; what `operstate` says is a free choice.
`signal()` implies SA_RESTART, so SIGINT clears `running` but wakes no `recv`.

`NetworkMonitor` is the server: `NMForkTurn` the fork loop; `NMPrepare`, `NMSelect`,
`NMSelectFails` the `select` call, which fails once the handler has closed the
listening socket, after which the body runs with `read_fds` as it was;
`NMAccept` the naming; `NMVisit`, `NMReply`, `NMIgnore`, `NMEndOfClient` the scan of
the connections; `NMShutDownClient`, `NMExit` the cleanup; `NMSigint` the handler.

`LinkMonitoring` composes them and holds the properties. The interface names, with
repetitions, are the constant `interface_names`; `N` is the number of monitors and
`BACKLOG` the argument of `listen`.

### 3.2 Shared memory (Lab10)

`SharedMemory` has the three clients over the two semaphores and the three fields of
the segment. Clients 1 and 2 open the names (`Open`, with `RETRIES` attempts), wait
for the start semaphore and attach; client 3 creates everything, writes the first
message without the mutex and posts twice. All then take `NUM_MESSAGES` turns. The
fields of a reply are written one by one (`Read`, `SetDest`, `SetMsg`), so that a
broken mutex shows. `Sigint` clears `is_running` and, without SA_RESTART, makes a
waiting `sem_wait` return. `Leftovers` says what killed runs left in the kernel.
`written` records that client 3 of this run has written its message.

### 3.3 Message queue (Lab8)

`MessageQueue` has the queue with its capacity and removal, the two threads of each
client, and the server. A message is its type, source, destination and number. `Get`,
`Send`, `Receive` and `RemoveQueue` are the kernel's calls; a process holds the
number of the queue it got, and calls on a removed one fail, which the code does not
test. `inHand[c]` is the variable `msg` of c's receive thread. It is declared inside the
loop and never initialized, so that after a `msgrcv` that failed (`RecvFails` on a removed
queue, `SigintRecv` on EINTR) it holds what `Uninitialized(c)` says: the message received
last, whose place on the stack it shares, or Quit, or garbage. The thread pushes that like
any other message, and on a removed queue it does so in every turn of its loop while
`is_running`; `MAX_PUSHED` bounds how often. `SigintMain` and `SigintRecv` are the handler
on either thread. `Way(b)` reads off the state what is in the six places on the way to client
b, from the printed messages to those just sent.

### 3.4 Remote logging (Assignment3)

`UdpSockets` has the two loopback sockets: datagrams keep their order and are lost
when the buffer is full or nobody is bound. `LogServer` has the menu thread
(`SetLevel`, `SendCommand`, `DumpExact`, `DumpAll`, `ShutDown`, `JoinTaker`, ...) and
the receive thread (`TakerTest`, `TakerReceive`, `TakerWrite`); the file is the
sequence of messages written. A dump prints and changes nothing, so that only the pauses
around it are modelled.
`Logger` is the logger inside the simulator: the phases of the main thread, a `Log`
call as comparison (`LogTest`) and `sendto` (`LogSend`), and the listener.
`RemoteLogging` composes them.

### 3.5 Parents and children (Assignment1, Lab5b, FinalExam1)

Four programs of the same shape: a parent forks children, and signals, or a semaphore,
are all they have in common. In each a signal is a member of a set of pending ones, so
that a second one of the same number disappears.

`WorkerReports` is Assignment1 Part4. The parent (`wr_parent`) blocks the signals, forks
(`ForkWorker`, then `StorePid`, between which the child already runs), unblocks, and
goes through its three loops of test (`TestFlag`) and `sigsuspend` (`Suspend`; the state
"suspend" is before the system call, "suspended" inside it), then `Reap`. `Record` is
what the handler makes of a sender, `Deliver` when the kernel runs it, `Report` how a
worker's `kill` joins a pending signal. `coalesced` and `late` are history: reports that
disappeared, and a handler that ran between a test and `sigsuspend`.

`WorkerTest` is Parts 2 and 3, whose worker is the same code; `part` says which parent
runs. Part2 has one step per handler (`Deliver2`), `WTWaitpid` and `Verdict`. Part3
counts in its handler, so that it has two steps, `EnterHandler` and `LeaveHandler`, and
`handlers` is the stack of those that have read the counter and not yet written it;
`mishaps` is history.

`StartStop` is Lab5b. `SSFork` may fail unnoticed, and `kill(-1, ...)` then reaches
everybody; `StartMonitors` and `StopMonitors` send, `WaitMonitors` waits for all.
A child is killed by a signal that comes before `InstallHandlers`, and `SignalHandler` sets
`isRunning` later. The sleeps are steps of any length. `CtrlC`, `CtrlZ` and `Foreground`
are the user; `stopped` are the processes that SIGTSTP has stopped.

`SemaphoreTurns` is FinalExam1: `PerformSemaphoreOperation` is the call of the same
name, on a semaphore that may be gone.

`MCProcessFamilies` checks the four side by side. Their variables are disjoint; an initial
state starts one program and holds the others in a state in which they have ended.

### 3.6 Chat (Lab9)

`TcpStream` is the kernel's side of the connections: texts and Quit under way, a server's
end that is `held` while a thread reads a descriptor that was closed under it, and
resets, after which a write fails and the one after it raises SIGPIPE.

`ChatServer` is the main thread (`SVAccept` and `SVDrain` in turn; `SVQuit`, `SVClose` for
each descriptor, `SVJoin`, `SVCloseListen`), the handler `SVSigint` and the receive
threads (`THTest`, `THRead`, then `THData` or `THNoData`, `THPush`). Each use of the queue
is a step because the mutex is held over it. `ChatClient` is the client's main thread
(`CLConnect`, `CLCreate`, `CLSetRunning`, `CLLoop`, `CLWrite`) and its receive thread
(`CLTest`, `CLRead`, where an uninitialised buffer may hide the Quit); `CLKill` is
`stopClient.sh`. `Creating` and `Killable` are the clients whose `pthread_create` may
succeed and those that `stopClient.sh` may kill. `Chat` composes them and reads off the
state where the texts of a client are: `HandedOver`, what was printed and what is queued,
and `Coming(c)`, what its receive thread holds and what is on the wire.

### 3.7 The abstract specifications

`Mutex` has one variable, the set of holders: a process acquires a free lock, and only
its holder releases it. `SemaphoreTurns` maps the children in their critical section to
it, and `SharedMemory` the clients inside while nobody has been interrupted; the first
SIGINT maps to the release of the lock, if somebody holds it.

`OrderedChannel` has the messages under way (`pending`), those that arrived
(`delivered`) and the ways that may lose messages (`broken`). A message is a way and a
number. `Send` adds messages later than all of their way, `Deliver` hands over messages
that no pending one should have preceded, `Break` breaks ways and drops messages of broken
ones. Three systems implement it:

| | ways | pending | delivered | broken |
|---|---|---|---|---|
| `MessageQueue` | pairs of clients | the queue, the server's and the threads' hands, the local queues, without what was printed | printed | all, once the first queue is removed or SIGINT has reached the server |
| `Chat` | clients | the wire, the threads' hands, `message_queue` | printed | those whose connection the server has closed |
| `RemoteLogging` | one | the logger's hand, the socket, the taker's hand | the log file | that one: UDP may lose at any time |

A text that the last drain of a server left in a local queue stays pending. The channel
holds sets, so that it cannot tell whether a message is delivered a second time. That is said
by `InOrder` of `MessageQueue`, `NothingLost` of `Chat` and `LogInOrder` of `RemoteLogging`,
which speak of sequences: the two last exclude it, the first says where it can happen, since in
`Lab8` it does. The two last are proved and no run lists them any more; they hold in
the runs `chat_shutdown` and `log_safety`, where they can be put in place of the channel.

`NameRegistry` has the clients that wait, the name of each, and a phase. `Give` serves the
oldest client with a name that nobody has, `Refuse` turns it away if there is none, `Leave`
frees one name, `Stop` closes the door and leaves the names, `End` frees them all. In
`LinkMonitoring` the queue is the backlog, and the name of a connection is its entry in
`client_fds` while the server's end is open.

## 4. What is checked

Twelve runs; "s" is the number of distinct states.

| run | system and bounds | shows |
|---|---|---|
| `link_safety` | 3 monitors, names a, b, a; the backlog of 5, SIGINT to monitors 1 and 2; 1.4M s | `OpenIffMapped`: the table is exact however names are freed and reused. `ImplementsRegistry`: the refinement of `NameRegistry`. `LockStepInv`: requests and answers are in lock step. `LiveMonitorKept`: the select loop cuts off no live monitor |
| `link_liveness` | 2 monitors, the backlog of 5, SIGINT to the server and monitor 1; 97k s | `BlockedCallsReturn`: `accept` finds a connection, a `recv` what it waits for or a peer that still has to send it. `DiesOnlyInCleanup`: SIGPIPE cannot end the select loop. `HandshakeEnds`, `LoneLinkDownAnswered` while no signal stopped the server; `ServerEndWakes`, `StopsWithItsMonitors` afterwards |
| `find_sigpipe` | 1 monitor | a comment's claim about EPIPE is refuted |
| `shm_rounds` | 3 turns of 3 clients, SIGINT to all; 412k s | `MutexUntilSigint`, the refinement of `Mutex`; `MessageIntact`, `OneAddressee` until the first SIGINT; `UnitsAccounted`, `WaitsAsLongAsNeeded` (not inside before the first message; every wait has its unit, or an owner of it inside) and `AllEnd` whatever happens |
| `find_shm_mutex` | 2 turns, SIGINT to all | `MutualExclusion` itself is refuted by a SIGINT |
| `mq_signals` | client 1 sends 3 times, room for 2, SIGINT to the server and to client 2, which may push 2 messages after its queue is gone; 164k s | `InOrder` with the repetition it allows, `PrintedIsSent`; `ImplementsChannel`, the refinement of `OrderedChannel`; `AllArrive` with its exceptions, `RemovalFreesInterrupted` |
| `find_mq_full` | 2 clients sending twice, room for 2 | the server's own `msgsnd` waits for ever |
| `log_safety` | 2 runs of the simulator, 7 messages, 1 level set, buffers of 2; 2.5M s | `SocketOutlivesThread`, `AtMostOneLate`; `ImplementsChannel` |
| `log_liveness` | 1 run, 2 levels set; 153k s | `CommandTakesEffect`, `ServerEnds`, `SimulatorEnds` |
| `chat_shutdown` | a client that writes two texts and may be killed, one that ends before its thread starts; 194k s | `ImplementsChannel`; `QuitsCleanly`: no SIGPIPE from descriptors of clients that left, every connection released at the end by the server's own closes, before its exit would do it; `ShutdownEnds`, `ClientsEnd` |
| `process_families` | 3 workers with 2 chunks each; 1 worker; 2 monitors; 4 children; 39k s | `DoneIsTrue`, `SleepsForAReason`, `WRParentEnds` of Part4; `SignalsCount` (a true verdict, a pause only with a reason), `WTParentEnds` of Parts 2 and 3; `MonitoringFamilyEnds` of Lab5b; `NoneWithoutTurn`, `EveryChildExits` and the refinement `TurnsAreExclusive` of FinalExam1 |
| `find_late_suspend` | 3 workers with 1 chunk each | `SuspendsInTime`, a comment's claim that no report comes before `sigsuspend`, is refuted |

**Bounds.** Three monitors over two names are the smallest system in which a connection
finds no free name while another holds a different one, and a freed name is taken by a
third; the backlog is the code's, in which all three may wait in any order. Three turns
make both parities of `i % 2`, on which the addressee of a reply depends, recur. Three
messages of client 1 alternate between both addressees and reach the first twice, which is
what an overtaking needs, and what a repetition of the first between the two would need;
two places in the local queue and on the screen let client 2 push its last message once
more after a failed `msgrcv`. A queue of two is the smallest in which the server's hand,
the queue and a sender compete. In the runs SIGINT reaches the client that receives; that
it may cut short the `msgsnd` of one that sends, and that clients send to one another, is
in the theorems, and the latter in `find_mq_full` as well. Two runs of the simulator let
messages of the first wait at the server while the second starts. In the chat the two
texts of the writer may overtake each other, be read in one buffer or be cut off when the
server is stopped; the second client makes the loop over `client_fds` meet one that has
left. SIGINT to the monitors and SIGINT to the server are in different runs: two monitors
that leave free and reuse names among three, and the server's end is explored with two.
That the registry, the queue's order and the chat hold for all together is what the
theorems say. Only worker 3 allocates more than 50 MB; two chunks let it warn before,
between or after the reports of the others. Of four children one can be inside, one wait
for the semaphore, one have left and one not be forked. `MAX_SENDS`, `MAX_QUEUES`,
`MAX_COMMANDS`, `MAX_RUNS`, `MAX_LOGS`, `MAX_NUMBER`, `MAX_WRITES`, `MAX_CHUNKS` and
`MAX_READS` are bounds on what the user and the environment do; where one is reached the
process goes on with the rest of its loop. `MAX_PUSHED` bounds what only the code's own
loop does, the pushing of what a failed `msgrcv` left in the buffer.

**Deadlock** is not checked: all the programs end, and an intended stop is a state
without successor. That nobody waits for ever is what the liveness properties say.

**Fairness** is weak fairness of each process or thread: the operating system runs
whatever can run, and a timeout passes. Nothing is assumed of the user, of signals,
of the state of the interfaces, or of which way a call that may fail goes. In
`MessageQueue` fairness is weak also for a sender that waits for room, because
`msgsnd` promises no more; this is what `find_mq_full` needs to be a real
counterexample: the place that the server frees is taken by somebody else each time.
In the chat only the server's threads are fair for `ShutdownEnds`, because the server
must end without its clients; that the clients run (`ClientsRun`) is the premise of
`ClientsEnd`. In the families a signal that is not blocked is delivered in the end. The
children of FinalExam1 queue for the semaphore once each, so that weak fairness is enough.

## 5. What is proved

For every value of the constants, by `tlapm`:

* `LinkMonitoringProofs`, no assumption beyond those on the constants. `TypeCorrect`.
  `ConnectionTable` proves the inductive `TableInv`; beside the two properties that
  it contains (`NamesAreUnique`, `TableIsExact`) it needs
  `BacklogMatches`, that the backlog holds each waiting connection once,
  `Unconnected`, that a process before `connect` has none, and `VisitsOpen`, that
  the copies of the table over which the loops run never hold a closed descriptor:
  without the last a second `close` of an entry could not be excluded.
  `LockStepHolds` proves `LockStepInv`, the bytes under way on a connection as a
  function of where its monitor is; from it follow `SigpipeOnlyInCleanup` and
  `LiveMonitorsAreKept`: what the server reads as "Done" or as the end of a connection
  was sent by a process that has ended. `LinkImplementsRegistry` uses `TableInv`, by which a
  name is in `client_fds` just while its connection is open, and `Listens`, that the listening
  socket opens once and connections wait only at an open one. `BlockedCallsDoReturn` adds
  two invariants. `ReadyStays`: a connection that `select` reported stays readable until the
  scan comes to it, since only the server reads there. `EndsInv`: which ends are closed once
  a monitor, or the server, has ended. Every action that enters a blocking call then
  finds there what ends it, and no step of the others takes it away.
* `SharedMemoryProofs`. `ShmTypeCorrect` without assumption; `TurnLeft` is needed because
  only a client that has a turn left may count it. `ShmMutex`, `ShmImplementsMutex` and
  `ShmMessageIntact` if no earlier run left semaphores that are taken or posted
  (`HarmlessLeftovers`): `MutexInv` says, of the time before the first SIGINT, that nobody
  is inside before the mutex exists (`Created`), that clients 1 and 2 wait until the first
  message is written (`Gate`, `Past`), and that source and text differ only within a reply
  (`WholeMessage`). `ShmWaitsAsLongAsNeeded` holds beyond SIGINT: `StartGate` adds that a
  client whose wait was cut short has `is_running` false and leaves at the loop's test;
  `StartUnits` counts the posts that client 3 has made against the units left and the
  clients that took one, so that neither of the two takes the other's. `ShmUnitsAccounted`
  (`UnitsInv`) counts beyond SIGINT as well: the units in the mutex and with the clients
  inside are at least one, so that the mutex is never lost, and at most one more for each
  client that a signal let through, because it has `is_running` false and never comes to
  `sem_wait` again. `ShmOneAddressee` from `TurnInv`: the client about to answer is the
  one that the message names.
* `MessageQueueProofs`, no assumption. `MqInvariant` proves `Inv`: types, which client
  has a receive thread and a queue (`Lives`), and of each place a message can be in, the
  queue, the server's hand, a client's hand, its local queue, that what it holds was
  written by the client it names, or that the reason why it is garbage has happened.
  `MqTypeCorrect` and `MqPrintedIsSent` follow. `MqInOrder` speaks of the six places of
  `Way(b)`, most of whose contents a step moves by one place or leaves alone: the messages of
  two positions after it were in two positions of the same order before (`StayApart`); a
  new message is last, and `Inv` says that no number on the way is as high as its own. The one
  step that is no such move is a failed `msgrcv` that leaves the last message to be pushed again
  (`FailedOrder`). For it `OrderInv` counts the buffer of a receive thread as the third place
  whether or not the thread is about to push it, and lets a message in one of the first three
  places be in an earlier one too, once a `msgrcv` of that client may have failed or where the
  buffer holds what was pushed already (`Stale`). What is in the buffer is then as new as
  anything of its source before it, so that to push it again doubles a message and overtakes
  none. Lemmas about taking the oldest message
  of a type from a sequence come first. `MqImplementsChannel` sorts the steps into three
  kinds (`Sending`, `Transfer`, `Loss`): a message enters; one moves to the next place, which
  the channel sees when that is the screen; or messages vanish, which needs a removed queue or
  a stopped server. `Buffered` says that what lies in a buffer was printed or is still in the
  local queue, so that a failed `msgrcv` brings back nothing that the channel has lost. That a
  printed message preceded all others of its way, and a new one comes last, is the order just
  proved.
* `RemoteLoggingProofs`, no assumption. `RlSocketOutlivesThread` from `TakerLife` and
  `ListenerLife`, which tie the phase of each main thread to that of the thread it joins.
  `RlAtMostOneLate` from `Compared`: once a message below the level was sent, the one that
  waits for `sendto` was compared with the level that still holds. `RlLogInOrder` from
  `WayInOrder`: the file, the taker's hand, the socket and the logger's hand, one after
  the other, are in the order of the calls; each step drops a message or moves it from one
  place to the next. `RlImplementsChannel` reads the same order in sets; `Fresh` adds that
  the file, which the server truncates when it starts, is empty until then.
* `ChatProofs`, for any number of clients and texts. `ChatTypeCorrect`, then `QuitInv`:
  `Lists` keeps the accepted clients and the waiting ones distinct, and `Quits` says that
  the server's end of a connection is reset only after its Quit was written, which the
  loop does once. `ChatLosesNothing` adds `Threads`, that a thread has texts in its hand
  only between `read` and the push, and that the connection it reads is not closed: each
  step then moves the texts of one client, all of them and in order, from one place to the
  next; what still arrives from a connection that the server has closed keeps its place
  (`Kept`). `ChatImplementsChannel` maps a write to `Send`, a drain of the queue to
  `Deliver`, a read that discards and a close to `Break`, everything else to a stutter.
  `ServerQuitsCleanly` takes from `Quits` that SIGPIPE does not end the server, and from
  `Released` that it leaves nothing open: an open descriptor is still ahead of the loop,
  one that was closed under a reader is held by a thread that `SVJoin` waits for, and the
  last `close` frees the clients that were never accepted.
* `WorkerProofs`. `ReportersAreKnown` and `ParentsEndIsTrue` from `ReportsInv`: while the
  signals are blocked nothing is recorded, and once they are not every worker's pid is
  stored. `ParentSleepsForAReason` follows each report that the parent needs: it is recorded,
  pending, or coalesced with another (`Traced`), and a parent that sleeps on a flag already
  set went to sleep too late (`AsleepWithCause`). `WorkerTestCounts` from `WTInv`: a signal is
  sent once, and is then pending or received; the counter of Part3 and the unfinished handlers
  account for what was taken, so that without nesting both signals are counted or one handler
  is still to write the 2 (`Counted`), and who pauses on a complete count went there late
  (`PausedWithCause`).
* `StartStopProofs`, for any number of children. `NobodyStartsEarly` and `ParentIsLast`
  from `StartStopInv`, which adds to them that no child can have been told to start while the
  parent sleeps (`Quiet`). They are proved only; the run checks the liveness.
* `SemaphoreTurnsProofs`, for any number of children. `TurnsInv`: the semaphore and
  the children inside add up to one, and the parent waits for as many children as it
  forked. `NobodyWithoutTurn`: the semaphore is removed when every child that was forked has
  exited, and until then one that waits finds it free or somebody inside. And
  `SemaphoreImplementsMutex`: each step is one of `Mutex` or leaves the holders as they are.

Only checked by TLC: the liveness properties, since the prover reaches neither fairness
nor `ENABLED`. Each invariant, action property and refinement of the runs is a theorem. Of
the liveness properties, those of step 8 of the plan have their safety core proved. It
says for every value of the constants that a waiting process is owed what it waits for.
That the debt is paid, because the others are scheduled and their loops come round, is
what TLC checks on the instances of section 4. The runs `log_liveness` has no such core,
nor have the liveness properties of `mq_signals`: the threads of the log server and the
logger poll with timeouts and wait for another only in their joins, and a client of `Lab8`
waits for a Quit that may have been discarded. Nor has `MonitoringFamilyEnds`, whose
exceptions are histories of signals rather than states. The other way round, the type
invariants of the queue, the chat and the families, `SendersAreKnown` of Part4 and the two
properties of Lab5b are proved and no run lists them.

## 6. Where code and comments part

`PROJECT.json` has four, each with a run that shows it:

* `networkMonitor.cpp:63` expects EPIPE from a `send` to a monitor that has gone;
  the default action of SIGPIPE ends the server in the middle of `cleanup_sockets`.
* `Lab10/client.h:28` calls the semaphore a mutex; a `sem_wait` that SIGINT
  interrupts lets its client in, and its `sem_post` then doubles the semaphore.
* `Lab8/server.cpp:55` forwards with a blocking `msgsnd` into the queue that only
  the server itself empties.
* `Assignment1/Part4/parent_main.c:122-123`: "Block SIGUSR1 and SIGUSR2 before forking to
  ensure children don't send signals before parent is ready to `sigsuspend`", and line 157:
  "Unblock the signals now that all children are forked and parent is ready to receive". The
  unblocking at line 158 comes before the test of the first flag, so that a report may be
  handled after the test and before `sigsuspend`, which then waits for what has come already
  (`find_late_suspend`). What the blocking does ensure is that the handler knows every sender
  (`SendersAreKnown`). Nor do the signals keep apart while they are blocked: two of the same
  number become one, and the report that disappears may be the one the parent waits for.

Two more comments of the same file part with the code. Line 168 allows SIGCHLD, "though
ignored by handler, it unblocks sigsuspend": line 89 sets it to SIG_IGN, an ignored signal
ends no `sigsuspend`, and so the model has no step by which a worker's end wakes the
parent. Line 89 itself says "Ignore SIGCHLD to let waitpid reap later": with SIG_IGN the
kernel reaps, and `waitpid` fails with ECHILD once the worker is gone, which `Reap`
describes and nothing depends on.

In `Lab8` no comment speaks of it, but a `msgrcv` that fails has the last message pushed and
printed once more, and after the removal of the queue, in a client that still runs, without end:
`client1.cpp:97-104` declares `msg` inside the loop and ignores the result of `msgrcv`.
`InOrder` and the channel are stated with that exception.

Other limits are in the properties as conditions, each of which was found necessary
by removing it: a "Link Down" is answered only if it is not read together with the
"Monitoring" before it; a stopped server ends only once its monitors have, because a
failed `select` can leave it in a `recv`; Quit may be discarded with the queue; a level
sent before the simulator's loop may be overwritten by its initial one; semaphores of
a killed run keep their values; Part4's parent waits for ever for a report that coalesced
or came between a test and `sigsuspend` (`NeededLost`, `SleptTooLate`), or that no worker sent
(`NeverReported`); Part3's parent for a count that a nested handler lost, or a signal
before `pause`; a child of Lab5b that handles SIGUSR1 and SIGUSR2 before its first test of
`isRunning`, or in the other order, never ends, and its parent with it.

## 7. What is not modelled

Of the modelled programs: failures of calls at start-up that end a program before it has
touched anything shared (a `sem_open` of client 3, `msgget`, the `pthread_create` of
`Lab8`, `semget`, the log server's sockets and file, the chat server's `bind` and
`listen`); the `pthread_create` of the chat server (`server.cpp:113`), whose failure is
not tested: the client then has no thread, and a thread identifier that was never set, or
is that of the client before, is joined at the end, which has no defined outcome; partial
writes on sockets; the size argument of `msgsnd` and `msgrcv`; the chat server's buffer
when a read fills all its 4096 bytes, which then lacks its terminator; a second instance
of a program; timestamps, statistics and wording; the log file of `dhsb_log_event`, which
only the parent writes. The two programs of `Lab10` that remain when client 3 removed the
names can still be started again by hand; a new start is a new `Init` with `Leftovers`. Of
`Automobile` only the levels it logs are modelled: fuel and track are numbers that no
other part reads.

Of the repository:

* `Lab5a`, a driver for a kernel and a test program that are not here: nothing in the
  repository says what it promises. Its one hazard is listed: `unregister` clears the flag
  that the thread's inner loop would need to leave. `Hardware-Device.mod.c` is generated.
* `Lab6`, one request at a time over one connection, a smaller form of Assignment2.
* `Lab7`, one fork, pipe and exec in sequence.
* `Lab1`-`Lab4`, the file generators of `Assignment1` and `Exam/exam.c`, which read,
  compute and print in sequence.
* Object files, binaries and documents are not sources.
