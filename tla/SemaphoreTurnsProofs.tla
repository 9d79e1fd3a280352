------------------------- MODULE SemaphoreTurnsProofs -------------------------
(***************************************************************************)
(* The semaphore of the exam for every number of children: it is a mutex,  *)
(* and it is removed after the last child gave it back.  The argument: its *)
(* value and the children in their turn add up to one, and a child that    *)
(* wait() has returned has exited, so that num_processes returns leave     *)
(* none.                                                                   *)
(***************************************************************************)
EXTENDS SemaphoreTurns, FiniteSetTheorems, TLAPS

Alone == \A c, d \in Children :
           st_child[c] = "critical" /\ st_child[d] = "critical" => c = d

\* One unit, in the semaphore or with a child.
OneUnit ==
  st_parent # "create" =>
    sem = IF \E c \in Children : st_child[c] = "critical" THEN 0 ELSE 1

\* The semaphore exists while the parent is between its creation and its
\* removal.
Exists == sem_id <=> st_parent \notin {"create", "done"}

\* Nobody is forked before the semaphore is there, and then in order.
ForkOrder ==
  /\ st_parent = "create" => forked = 0
  /\ \A c \in Children : c > forked => st_child[c] = "none"

NoFailure == \A c \in Children : st_child[c] # "failed"

\* The children that wait() has returned have exited.
WaitedExited ==
  /\ \A c \in waited : st_child[c] = "exited"
  /\ st_parent \in {"remove", "done"} => waited = Children

TurnsInv == STTypeOK /\ Alone /\ OneUnit /\ Exists /\ ForkOrder /\ NoFailure /\ WaitedExited

-----------------------------------------------------------------------------
\* When num_processes children were returned, all were.
LEMMA AllReturned ==
  ASSUME waited \in SUBSET Children, Cardinality(waited) = num_processes
  PROVE  waited = Children
<1>1. IsFiniteSet(Children) /\ Cardinality(Children) = num_processes
  BY FS_Interval, NumProcessesAssumption DEF Children
<1>2. QED
  BY <1>1, FS_Subset

\* A child that still needs the semaphore finds it.
LEMMA SemaphoreThere ==
  ASSUME TurnsInv, NEW c \in Children, st_child[c] \in {"take", "critical"}
  PROVE  st_parent \notin {"create", "done"} /\ sem_id
<1>1. st_parent # "create"
  BY NumProcessesAssumption DEF TurnsInv, STTypeOK, ForkOrder, Children
<1>2. st_parent # "done"
  BY DEF TurnsInv, WaitedExited
<1>3. QED
  BY <1>1, <1>2 DEF TurnsInv, Exists

LEMMA TurnsInit == STInit => TurnsInv
<1> SUFFICES ASSUME STInit PROVE TurnsInv
  OBVIOUS
<1>0. sem_id \in BOOLEAN /\ ~sem_id
  BY Zenon DEF STInit
<1>1. STTypeOK
  BY <1>0, NumProcessesAssumption DEF STInit, STTypeOK
<1>2. \A c \in Children : st_child[c] = "none"
  BY DEF STInit
<1>3. QED
  BY <1>0, <1>1, <1>2 DEF STInit, TurnsInv, Alone, OneUnit, Exists, ForkOrder, NoFailure,
                    WaitedExited

\* Each step keeps the invariant.
LEMMA TurnsStep == TurnsInv /\ [STNext]_st_vars => TurnsInv'
<1> SUFFICES ASSUME TurnsInv, [STNext]_st_vars PROVE TurnsInv'
  OBVIOUS
<1> USE NumProcessesAssumption
        DEF TurnsInv, STTypeOK, Alone, OneUnit, Exists, ForkOrder, NoFailure, WaitedExited
<1>1. CASE UNCHANGED st_vars
  BY <1>1 DEF st_vars
<1>2. CASE CreateSemaphore
  <2>1. sem_id' \in BOOLEAN /\ sem_id'
    BY <1>2, Zenon DEF CreateSemaphore
  <2>2. \A c \in Children : st_child[c] = "none"
    BY <1>2, NumProcessesAssumption DEF CreateSemaphore, Children
  <2>3. QED
    BY <1>2, <2>1, <2>2 DEF CreateSemaphore
<1>3. CASE ForkChild
  <2>1. forked + 1 \in Children /\ forked' = forked + 1 /\ forked' \in 0..num_processes
    BY <1>3 DEF ForkChild, Children
  <2>2. st_child[forked + 1] = "none"
    BY <2>1 DEF Children
  <2>3. QED
    BY <1>3, <2>1, <2>2 DEF ForkChild, Children
<1>4. CASE ForkFails \/ EndOfForks
  BY <1>4 DEF ForkFails, EndOfForks
<1>5. CASE WaitForChild
  <2>1. CASE Cardinality(waited) = num_processes
    BY <1>5, <2>1, AllReturned DEF WaitForChild
  <2>2. CASE Cardinality(waited) # num_processes
    BY <1>5, <2>2 DEF WaitForChild, Ended
  <2>3. QED
    BY <2>1, <2>2
<1>6. CASE RemoveSemaphore
  BY <1>6 DEF RemoveSemaphore
<1>7. ASSUME NEW c \in Children, TakeTurn(c) PROVE TurnsInv'
  <2>1. st_parent # "create" /\ sem_id
    BY <1>7, SemaphoreThere DEF TakeTurn, PerformSemaphoreOperation
  <2>2. sem = 1 /\ sem' = 0 /\ \A d \in Children : st_child[d] # "critical"
    BY <1>7, <2>1 DEF TakeTurn, PerformSemaphoreOperation
  <2>3. QED
    BY <1>7, <2>1, <2>2 DEF TakeTurn, PerformSemaphoreOperation
<1>8. ASSUME NEW c \in Children, LeaveTurn(c) PROVE TurnsInv'
  <2>1. st_parent # "create" /\ sem_id
    BY <1>8, SemaphoreThere DEF LeaveTurn, PerformSemaphoreOperation
  <2>2. sem = 0 /\ sem' = 1
    BY <1>8, <2>1 DEF LeaveTurn, PerformSemaphoreOperation
  <2>3. \A d \in Children : st_child'[d] # "critical"
    BY <1>8, <2>1 DEF LeaveTurn, PerformSemaphoreOperation
  <2>4. QED
    BY <1>8, <2>1, <2>2, <2>3 DEF LeaveTurn, PerformSemaphoreOperation
<1>9. QED
  BY <1>1, <1>2, <1>3, <1>4, <1>5, <1>6, <1>7, <1>8 DEF STNext, STParent, STChild

\* FinalExam1.c:31-71: the inductive invariant of the exam's semaphore.
THEOREM TurnsInvariant == STSpec => []TurnsInv
  BY TurnsInit, TurnsStep, PTL DEF STSpec

\* FinalExam1.c:51-68: no child meets a semaphore that was removed, all have
\* exited when it is, and none waits for a unit that nobody has, also when a
\* later fork failed and the parent is gone; for every number of children.
THEOREM NobodyWithoutTurn == STSpec => []NoneWithoutTurn
<1>1. TurnsInv => NoneWithoutTurn
  <2> SUFFICES ASSUME TurnsInv PROVE NoneWithoutTurn
    OBVIOUS
  <2>1. RemovedLast
    BY DEF TurnsInv, NoFailure, WaitedExited, RemovedLast
  <2>2. ASSUME NEW c \in Children, st_child[c] = "take"
        PROVE  sem_id /\ (sem > 0 \/ InTurn # {})
    <3>1. st_parent # "create" /\ sem_id
      BY <2>2, SemaphoreThere
    <3>2. sem = 1 \/ \E d \in Children : st_child[d] = "critical"
      BY <3>1 DEF TurnsInv, OneUnit
    <3>3. QED
      BY <3>1, <3>2 DEF InTurn
  <2>3. QED
    BY <2>1, <2>2 DEF NoneWithoutTurn
<1>2. QED
  BY <1>1, TurnsInvariant, PTL

-----------------------------------------------------------------------------
\* One child enters its turn when nobody is in it, or leaves it.
LEMMA TurnStep ==
  ASSUME TurnsInv, [STNext]_st_vars
  PROVE  [\E c \in Children : \/ InTurn = {} /\ InTurn' = {c}
                              \/ InTurn = {c} /\ InTurn' = {}]_InTurn
<1> USE DEF TurnsInv, STTypeOK
<1>1. ASSUME NEW c \in Children, TakeTurn(c)
      PROVE  InTurn = {} /\ InTurn' = {c}
  <2>1. /\ sem_id /\ sem > 0
        /\ st_child' = [st_child EXCEPT ![c] = "critical"]
    BY <1>1, SemaphoreThere DEF TakeTurn, PerformSemaphoreOperation
  <2>2. InTurn = {}
    BY <2>1 DEF InTurn, OneUnit, Exists
  <2>3. QED
    BY <2>1, <2>2 DEF InTurn
<1>2. ASSUME NEW c \in Children, LeaveTurn(c)
      PROVE  InTurn = {c} /\ InTurn' = {}
  <2>1. st_child[c] = "critical" /\ st_child'[c] # "critical"
    BY <1>2 DEF LeaveTurn, PerformSemaphoreOperation
  <2>2. \A d \in Children : d # c => st_child'[d] = st_child[d]
    BY <1>2 DEF LeaveTurn, PerformSemaphoreOperation
  <2>3. QED
    BY <2>1, <2>2 DEF InTurn, Alone
<1>3. CASE ForkChild
  <2>1. forked + 1 \in Children /\ st_child[forked + 1] = "none"
    BY <1>3, NumProcessesAssumption DEF ForkChild, ForkOrder, Children
  <2>2. QED
    BY <1>3, <2>1 DEF ForkChild, InTurn
<1>4. CASE \/ UNCHANGED st_vars \/ CreateSemaphore \/ ForkFails \/ EndOfForks
           \/ WaitForChild \/ RemoveSemaphore
  BY <1>4 DEF st_vars, CreateSemaphore, ForkFails, EndOfForks, WaitForChild,
              RemoveSemaphore, InTurn
<1>5. QED
  BY <1>1, <1>2, <1>3, <1>4 DEF STNext, STParent, STChild

\* FinalExam1.c:16-26, 51-58: the children take turns at an abstract lock, for
\* every number of children.
THEOREM SemaphoreImplementsMutex == STSpec => TurnsAreExclusive
<1>1. STInit => Turns!Init
  BY DEF STInit, Turns!Init, InTurn
<1>2. TurnsInv /\ [STNext]_st_vars => [Turns!Next]_InTurn
  BY TurnStep DEF Turns!Next, Turns!Acquire, Turns!Release
<1>3. QED
  BY <1>1, <1>2, TurnsInvariant, PTL DEF STSpec, TurnsAreExclusive, Turns!Spec
=============================================================================
