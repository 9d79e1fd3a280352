--------------------------- MODULE SemaphoreTurns ---------------------------
(***************************************************************************)
(* Exam/FinalExam1.c: a parent forks num_processes children, each of which *)
(* takes a System V semaphore, sleeps, gives it back and exits; the parent *)
(* waits for as many children and removes the semaphore.                   *)
(*                                                                         *)
(* st_parent: create, fork, wait, remove, done, failed                     *)
(* st_child[c]: none, take, critical, exited, failed                       *)
(* sem is the value of the semaphore; a semop on a removed one fails.      *)
(***************************************************************************)
EXTENDS Integers, FiniteSets

CONSTANT num_processes
ASSUME NumProcessesAssumption == num_processes \in Nat

Children == 1..num_processes

VARIABLES st_parent, st_child,
          forked,      \* children forked
          waited,      \* children that wait() has returned
          sem_id,      \* the semaphore exists
          sem

st_vars == <<st_parent, st_child, forked, waited, sem_id, sem>>

STTypeOK ==
  /\ st_parent \in {"create", "fork", "wait", "remove", "done", "failed"}
  /\ st_child \in [Children -> {"none", "take", "critical", "exited", "failed"}]
  /\ forked \in 0..num_processes /\ waited \in SUBSET Children
  /\ sem_id \in BOOLEAN /\ sem \in Nat

STInit ==
  /\ st_parent = "create" /\ st_child = [c \in Children |-> "none"]
  /\ forked = 0 /\ waited = {} /\ sem_id = FALSE /\ sem = 0

-----------------------------------------------------------------------------
\* A fault: one unit for each process.
FaultyCreateSemaphore ==
  /\ st_parent = "create" /\ st_parent' = "fork"
  /\ sem_id' = TRUE /\ sem' = num_processes
  /\ UNCHANGED <<st_child, forked, waited>>

\* semget and SETVAL: a semaphore that an earlier run left behind, at any
\* value, starts again with 1.
CreateSemaphore ==
  /\ st_parent = "create" /\ st_parent' = "fork"
  /\ sem_id' = TRUE /\ sem' = 1
  /\ UNCHANGED <<st_child, forked, waited>>

ForkChild ==
  /\ st_parent = "fork" /\ forked < num_processes
  /\ forked' = forked + 1
  /\ st_child' = [st_child EXCEPT ![forked + 1] = "take"]
  /\ UNCHANGED <<st_parent, waited, sem_id, sem>>

\* The parent exits, and leaves the semaphore to the children it has.
ForkFails ==
  /\ st_parent = "fork" /\ forked < num_processes /\ st_parent' = "failed"
  /\ UNCHANGED <<st_child, forked, waited, sem_id, sem>>

EndOfForks ==
  /\ st_parent = "fork" /\ forked = num_processes /\ st_parent' = "wait"
  /\ UNCHANGED <<st_child, forked, waited, sem_id, sem>>

Ended(c) == st_child[c] \in {"exited", "failed"}

\* A fault: any one child is enough.
FaultyWaitForChild ==
  /\ st_parent = "wait" /\ \E c \in Children : Ended(c)
  /\ st_parent' = "remove"
  /\ UNCHANGED <<st_child, forked, waited, sem_id, sem>>

\* wait(NULL), num_processes times; its result is not used.
WaitForChild ==
  /\ st_parent = "wait"
  /\ IF Cardinality(waited) = num_processes
       THEN st_parent' = "remove" /\ UNCHANGED waited
       ELSE /\ \E c \in Children \ waited : Ended(c) /\ waited' = waited \cup {c}
            /\ UNCHANGED st_parent
  /\ UNCHANGED <<st_child, forked, sem_id, sem>>

RemoveSemaphore ==
  /\ st_parent = "remove" /\ st_parent' = "done" /\ sem_id' = FALSE
  /\ UNCHANGED <<st_child, forked, waited, sem>>

-----------------------------------------------------------------------------
\* performSemaphoreOperation(sem_id, 0, n) of child c, which is at `from`: it
\* waits while the value would become negative, and exits with an error when
\* the semaphore is gone.
PerformSemaphoreOperation(c, n, from, to) ==
  /\ st_child[c] = from
  /\ IF sem_id THEN /\ sem + n >= 0 /\ sem' = sem + n
                    /\ st_child' = [st_child EXCEPT ![c] = to]
               ELSE /\ st_child' = [st_child EXCEPT ![c] = "failed"]
                    /\ UNCHANGED sem
  /\ UNCHANGED <<st_parent, forked, waited, sem_id>>

\* A fault: the child does not give the semaphore back.
FaultyLeaveTurn(c) == PerformSemaphoreOperation(c, 0, "critical", "exited")

TakeTurn(c)  == PerformSemaphoreOperation(c, -1, "take", "critical")
LeaveTurn(c) == PerformSemaphoreOperation(c, 1, "critical", "exited")

STParent   == \/ CreateSemaphore \/ ForkChild \/ ForkFails \/ EndOfForks
              \/ WaitForChild \/ RemoveSemaphore
STChild(c) == TakeTurn(c) \/ LeaveTurn(c)

STNext == STParent \/ \E c \in Children : STChild(c)

STSpec == STInit /\ [][STNext]_st_vars

\* semop hands the semaphore to its waiters in the order they came, and each
\* process waits for it once: weak fairness is enough.
STFairness == WF_st_vars(STParent) /\ \A c \in Children : WF_st_vars(STChild(c))

-----------------------------------------------------------------------------
\* The children in their critical section.
InTurn == {c \in Children : st_child[c] = "critical"}

\* FinalExam1.c:51-58, "attempting to enter critical section": the semaphore
\* is a mutex for the children.
Turns == INSTANCE Mutex WITH Proc <- Children, holders <- InTurn
TurnsAreExclusive == Turns!Spec

\* FinalExam1.c:64-68: the semaphore is not removed under a child that still
\* needs it, so no semop fails.
RemovedLast ==
  /\ \A c \in Children : st_child[c] # "failed"
  /\ st_parent \in {"remove", "done"} => \A c \in Children : st_child[c] = "exited"

\* FinalExam1.c:51-68: no child goes without its turn.  One that waits for the
\* semaphore finds it free, or somebody in its turn who will give it back.
NoneWithoutTurn ==
  /\ RemovedLast
  /\ \A c \in Children : st_child[c] = "take" => sem_id /\ (sem > 0 \/ InTurn # {})

\* Every child that was forked gets its turn and exits, also when a later fork
\* failed and the parent is gone (FinalExam1.c:46-48).
EveryChildExits ==
  \A c \in Children : (st_child[c] = "take") ~> (st_child[c] = "exited")
=============================================================================
