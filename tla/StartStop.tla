------------------------------ MODULE StartStop ------------------------------
(***************************************************************************)
(* Lab5b: sysmonExec forks NUM children that become intfMonitor, starts    *)
(* them with SIGUSR1 after ten seconds, stops them with SIGUSR2 after      *)
(* thirty more and waits for them.  Nothing ties the sleeps to what the    *)
(* children do, so a sleep is a step of any length.                        *)
(*                                                                         *)
(* ss_parent: fork, sleep10, start, sleep30, stop, wait, done, killed      *)
(* ss_child[c]: none, exec (until its handlers are installed), wait,       *)
(*   monitor, write, ended, killed                                         *)
(* ctrl-C and ctrl-Z reach the whole group.  SIGINT ends a process without *)
(* the handler, SIGTSTP stops it until the user resumes the group.         *)
(***************************************************************************)
EXTENDS Integers

CONSTANT NUM
ASSUME NUMAssumption == NUM \in Nat \ {0}

Monitors == 1..NUM
Parent   == 0
Everyone == -1    \* kill(-1, s), after a fork that failed
NotForked == -2   \* models only: the fork has not come yet

VARIABLES
  ss_parent, target,     \* the child that the current loop is at
  childPid, ss_child,
  isRunning,             \* of each child
  ss_pending,            \* SIGUSR1, SIGUSR2 pending in each child
  logged,                \* children that wrote to Network.log
  stopped                \* processes that ctrl-Z has stopped

ss_vars == <<ss_parent, target, childPid, ss_child, isRunning, ss_pending, logged,
             stopped>>

SSTypeOK ==
  /\ ss_parent \in {"fork", "sleep10", "start", "sleep30", "stop", "wait", "done",
                    "killed"}
  /\ target \in 1..NUM
  /\ childPid \in [Monitors -> Monitors \cup {Everyone, NotForked}]
  /\ ss_child \in [Monitors -> {"none", "exec", "wait", "monitor", "write", "ended",
                                "killed"}]
  /\ isRunning \in [Monitors -> BOOLEAN]
  /\ ss_pending \in [Monitors -> SUBSET {"SIGUSR1", "SIGUSR2"}]
  /\ logged \in SUBSET Monitors /\ stopped \in SUBSET (Monitors \cup {Parent})

SSInit ==
  /\ ss_parent = "fork" /\ target = 1
  /\ childPid = [c \in Monitors |-> NotForked]
  /\ ss_child = [c \in Monitors |-> "none"]
  /\ isRunning = [c \in Monitors |-> FALSE]
  /\ ss_pending = [c \in Monitors |-> {}]
  /\ logged = {} /\ stopped = {}

Gone(c) == ss_child[c] \in {"none", "ended", "killed"}

-----------------------------------------------------------------------------
(* The parent.                                                             *)

\* At `at`, in a loop over the children that continues with `next`.
ForEach(at, next) ==
  /\ ss_parent = at /\ Parent \notin stopped
  /\ IF target < NUM THEN target' = target + 1 /\ UNCHANGED ss_parent
                     ELSE target' = 1 /\ ss_parent' = next

\* fork; its failure is not tested, and -1 becomes the child's number.
SSFork ==
  /\ ForEach("fork", "sleep10")
  /\ \/ /\ ss_child' = [ss_child EXCEPT ![target] = "exec"]
        /\ childPid' = [childPid EXCEPT ![target] = target]
     \/ childPid' = [childPid EXCEPT ![target] = Everyone] /\ UNCHANGED ss_child
  /\ UNCHANGED <<isRunning, ss_pending, logged, stopped>>

SSSleep ==
  /\ Parent \notin stopped
  /\ \/ ss_parent = "sleep10" /\ ss_parent' = "start"
     \/ ss_parent = "sleep30" /\ ss_parent' = "stop"
  /\ UNCHANGED <<target, childPid, ss_child, isRunning, ss_pending, logged, stopped>>

\* kill(childPid[target], s)
Kill(s) ==
  ss_pending' = [c \in Monitors |->
    IF childPid[target] \in {c, Everyone} /\ ~Gone(c) THEN ss_pending[c] \cup {s}
                                                      ELSE ss_pending[c]]

StartMonitors ==
  /\ ForEach("start", "sleep30") /\ Kill("SIGUSR1")
  /\ UNCHANGED <<childPid, ss_child, isRunning, logged, stopped>>

StopMonitors ==
  /\ ForEach("stop", "wait") /\ Kill("SIGUSR2")
  /\ UNCHANGED <<childPid, ss_child, isRunning, logged, stopped>>

\* wait() until it returns -1: no child is left.
WaitMonitors ==
  /\ ss_parent = "wait" /\ Parent \notin stopped /\ \A c \in Monitors : Gone(c)
  /\ ss_parent' = "done"
  /\ UNCHANGED <<target, childPid, ss_child, isRunning, ss_pending, logged, stopped>>

-----------------------------------------------------------------------------
(* The children.                                                           *)

ChildGoto(c, from, to) ==
  /\ c \notin stopped /\ ss_child[c] = from
  /\ ss_child' = [ss_child EXCEPT ![c] = to]

\* execlp and sigaction; if one fails the child ends.
InstallHandlers(c) ==
  /\ ChildGoto(c, "exec", "wait") \/ ChildGoto(c, "exec", "ended")
  /\ UNCHANGED <<ss_parent, target, childPid, isRunning, ss_pending, logged, stopped>>

\* while (!isRunning) sleep(1)
WaitForStart(c) ==
  /\ isRunning[c] /\ ChildGoto(c, "wait", "monitor")
  /\ UNCHANGED <<ss_parent, target, childPid, isRunning, ss_pending, logged, stopped>>

\* while (isRunning)
TestRunning(c) ==
  /\ ChildGoto(c, "monitor", IF isRunning[c] THEN "write" ELSE "ended")
  /\ UNCHANGED <<ss_parent, target, childPid, isRunning, ss_pending, logged, stopped>>

WriteStatistics(c) ==
  /\ ChildGoto(c, "write", "monitor") /\ logged' = logged \cup {c}
  /\ UNCHANGED <<ss_parent, target, childPid, isRunning, ss_pending, stopped>>

\* A fault: the break after the first case is missing.
FaultySignalHandler(c, s) ==
  /\ c \notin stopped /\ ~Gone(c) /\ s \in ss_pending[c]
  /\ ss_pending' = [ss_pending EXCEPT ![c] = @ \ {s}]
  /\ IF ss_child[c] = "exec"
       THEN ss_child' = [ss_child EXCEPT ![c] = "killed"] /\ UNCHANGED isRunning
       ELSE isRunning' = [isRunning EXCEPT ![c] = TRUE] /\ UNCHANGED ss_child
  /\ UNCHANGED <<ss_parent, target, childPid, logged, stopped>>

\* SIGUSR1 or SIGUSR2 arrives, in either order if both are pending: it ends a
\* child without handlers, and sets isRunning in the others.
SignalHandler(c, s) ==
  /\ c \notin stopped /\ ~Gone(c) /\ s \in ss_pending[c]
  /\ ss_pending' = [ss_pending EXCEPT ![c] = @ \ {s}]
  /\ IF ss_child[c] = "exec"
       THEN ss_child' = [ss_child EXCEPT ![c] = "killed"] /\ UNCHANGED isRunning
       ELSE /\ isRunning' = [isRunning EXCEPT ![c] = (s = "SIGUSR1")]
            /\ UNCHANGED ss_child
  /\ UNCHANGED <<ss_parent, target, childPid, logged, stopped>>

-----------------------------------------------------------------------------
(* The user at the terminal.                                               *)

\* The handler discards SIGINT; the parent has none.
CtrlC ==
  /\ ss_parent \notin {"done", "killed"} /\ ss_parent' = "killed"
  /\ ss_child' = [c \in Monitors |->
                    IF ss_child[c] = "exec" THEN "killed" ELSE ss_child[c]]
  /\ UNCHANGED <<target, childPid, isRunning, ss_pending, logged, stopped>>

CtrlZ ==
  /\ ss_parent \notin {"done", "killed"} /\ Parent \notin stopped
  /\ stopped' = {Parent} \cup {c \in Monitors : ss_child[c] = "exec"}
  /\ UNCHANGED <<ss_parent, target, childPid, ss_child, isRunning, ss_pending, logged>>

Foreground ==
  /\ stopped # {} /\ stopped' = {}
  /\ UNCHANGED <<ss_parent, target, childPid, ss_child, isRunning, ss_pending, logged>>

-----------------------------------------------------------------------------
SSParent == SSFork \/ SSSleep \/ StartMonitors \/ StopMonitors \/ WaitMonitors
SSChild(c) == InstallHandlers(c) \/ WaitForStart(c) \/ TestRunning(c)
              \/ WriteStatistics(c)
SSSignals(c) == \E s \in {"SIGUSR1", "SIGUSR2"} : SignalHandler(c, s)

SSNext == \/ SSParent
          \/ \E c \in Monitors : SSChild(c) \/ SSSignals(c)
          \/ CtrlC \/ CtrlZ \/ Foreground

SSSpec == SSInit /\ [][SSNext]_ss_vars
SSFairness == /\ WF_ss_vars(SSParent)
              /\ \A c \in Monitors : WF_ss_vars(SSChild(c)) /\ WF_ss_vars(SSSignals(c))

-----------------------------------------------------------------------------
\* intfMonitor.cpp:57, "The child process should not start monitoring until
\* the parent sends SIGUSR1": whatever the user types, nothing is logged, and
\* no child is running, while the parent still sleeps.
NotBeforeStart ==
  ss_parent \in {"fork", "sleep10"} =>
    logged = {} /\ \A c \in Monitors : ~isRunning[c]

\* sysmonExec.cpp:83-87: the parent does not finish before its children, also
\* if some were never forked or died early.
ParentLeavesLast == ss_parent = "done" => \A c \in Monitors : Gone(c)

\* sysmonExec.cpp:73, SIGUSR2 "tells the child processes to stop monitoring and
\* terminate": if all children monitor when the first SIGUSR2 is sent, the
\* family ends, unless the user interrupts or stops the parent.  Without
\* the premise it may not: a child that handles both signals before its
\* first test of isRunning, or SIGUSR2 before SIGUSR1, is there for ever.
MonitoringFamilyEnds ==
  (/\ ss_parent = "stop" /\ target = 1
   /\ \A c \in Monitors : ss_child[c] \in {"monitor", "write"} /\ ss_pending[c] = {})
    ~> (ss_parent \in {"done", "killed"} \/ Parent \in stopped)
=============================================================================
