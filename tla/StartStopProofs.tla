--------------------------- MODULE StartStopProofs ---------------------------
(***************************************************************************)
(* Lab5b for every number of monitors, with forks that fail, signals that  *)
(* reach a child too early, ctrl-C and ctrl-Z: nobody starts before the    *)
(* parent has slept, and the parent does not say that it is done before    *)
(* its children are gone.                                                  *)
(***************************************************************************)
EXTENDS StartStop, TLAPS

\* Until the first SIGUSR1 no child has left its waiting loop.
Quiet ==
  ss_parent \in {"fork", "sleep10"} =>
    /\ logged = {}
    /\ \A c \in Monitors : /\ ~isRunning[c] /\ ss_pending[c] = {}
                           /\ ss_child[c] \notin {"monitor", "write"}

StartStopInv == SSTypeOK /\ Quiet /\ ParentLeavesLast

LEMMA StartStopInit == SSInit => StartStopInv
<1> SUFFICES ASSUME SSInit PROVE StartStopInv
  OBVIOUS
<1>1. 1 \in 1..NUM
  BY NUMAssumption
<1>2. SSTypeOK
  BY <1>1 DEF SSInit, SSTypeOK
<1>3. QED
  BY <1>2 DEF SSInit, StartStopInv, Quiet, ParentLeavesLast

\* Each loop of the parent counts from the first child to the last.
LEMMA TargetType ==
  ASSUME SSTypeOK, NEW at, NEW next, ForEach(at, next)
  PROVE  target' \in 1..NUM /\ (ss_parent' = at \/ ss_parent' = next) /\ ss_parent = at
BY NUMAssumption DEF SSTypeOK, ForEach

LEMMA KillType ==
  ASSUME SSTypeOK, NEW s \in {"SIGUSR1", "SIGUSR2"}, Kill(s)
  PROVE  ss_pending' \in [Monitors -> SUBSET {"SIGUSR1", "SIGUSR2"}]
BY DEF SSTypeOK, Kill

\* Each step keeps the invariant.
LEMMA StartStopStep == StartStopInv /\ [SSNext]_ss_vars => StartStopInv'
<1> SUFFICES ASSUME StartStopInv, [SSNext]_ss_vars PROVE StartStopInv'
  OBVIOUS
<1> USE DEF StartStopInv, SSTypeOK, Quiet, ParentLeavesLast, Gone
<1>1. CASE UNCHANGED ss_vars
  BY <1>1 DEF ss_vars
<1>2. CASE SSFork
  <2>1. target' \in 1..NUM /\ ss_parent = "fork" /\ ss_parent' \in {"fork", "sleep10"}
    BY <1>2, TargetType DEF SSFork
  <2>2. CASE ss_child' = [ss_child EXCEPT ![target] = "exec"] /\ childPid' = [childPid EXCEPT ![target] = target]
    BY <1>2, <2>1, <2>2 DEF SSFork, Monitors
  <2>3. CASE childPid' = [childPid EXCEPT ![target] = Everyone] /\ UNCHANGED ss_child
    BY <1>2, <2>1, <2>3 DEF SSFork, Monitors
  <2>4. QED
    BY <1>2, <2>2, <2>3 DEF SSFork
<1>3. CASE SSSleep
  BY <1>3 DEF SSSleep
<1>4. CASE StartMonitors
  <2>1. target' \in 1..NUM /\ ss_parent' \in {"start", "sleep30"}
    BY <1>4, TargetType DEF StartMonitors
  <2>2. QED
    BY <1>4, <2>1, KillType DEF StartMonitors
<1>5. CASE StopMonitors
  <2>1. target' \in 1..NUM /\ ss_parent' \in {"stop", "wait"}
    BY <1>5, TargetType DEF StopMonitors
  <2>2. QED
    BY <1>5, <2>1, KillType DEF StopMonitors
<1>6. CASE WaitMonitors
  BY <1>6 DEF WaitMonitors
<1>7. ASSUME NEW c \in Monitors, SSChild(c) PROVE StartStopInv'
  BY <1>7 DEF SSChild, InstallHandlers, WaitForStart, TestRunning, WriteStatistics,
              ChildGoto
<1>8. ASSUME NEW c \in Monitors, SSSignals(c) PROVE StartStopInv'
  <2>1. PICK s \in {"SIGUSR1", "SIGUSR2"} : SignalHandler(c, s)
    BY <1>8 DEF SSSignals
  <2>2. ss_parent \notin {"fork", "sleep10"} /\ ss_parent' = ss_parent
    BY <2>1 DEF SignalHandler
  <2>3. CASE ss_child[c] = "exec"
    BY <2>1, <2>2, <2>3 DEF SignalHandler
  <2>4. CASE ss_child[c] # "exec"
    <3>1. isRunning' = [isRunning EXCEPT ![c] = (s = "SIGUSR1")] /\ (s = "SIGUSR1") \in BOOLEAN
      BY <2>1, <2>4 DEF SignalHandler
    <3>2. isRunning' \in [Monitors -> BOOLEAN]
      BY <3>1
    <3>3. QED
      BY <2>1, <2>2, <2>4, <3>2 DEF SignalHandler
  <2>5. QED
    BY <2>3, <2>4
<1>9. CASE CtrlC
  BY <1>9 DEF CtrlC
<1>10. CASE CtrlZ
  BY <1>10 DEF CtrlZ
<1>11. CASE Foreground
  BY <1>11 DEF Foreground
<1>12. QED
  BY <1>1, <1>2, <1>3, <1>4, <1>5, <1>6, <1>7, <1>8, <1>9, <1>10, <1>11
     DEF SSNext, SSParent

\* sysmonExec.cpp:28-87, intfMonitor.cpp:27-101: the inductive invariant.
THEOREM StartStopInvariant == SSSpec => []StartStopInv
  BY StartStopInit, StartStopStep, PTL DEF SSSpec

\* intfMonitor.cpp:57: no child starts before the parent's first SIGUSR1.
THEOREM NobodyStartsEarly == SSSpec => []NotBeforeStart
<1>1. StartStopInv => NotBeforeStart
  BY DEF StartStopInv, Quiet, NotBeforeStart
<1>2. QED
  BY <1>1, StartStopInvariant, PTL

\* sysmonExec.cpp:83-87: the parent is the last of the family to finish.
THEOREM ParentIsLast == SSSpec => []ParentLeavesLast
<1>1. StartStopInv => ParentLeavesLast
  BY DEF StartStopInv
<1>2. QED
  BY <1>1, StartStopInvariant, PTL
=============================================================================
