-------------------------------- MODULE Mutex --------------------------------
(***************************************************************************)
(* What a lock promises to the processes Proc that share it: at most one   *)
(* of them holds it, it is given only to one who finds it free, and only   *)
(* its holder gives it back.  The semaphores of Lab10 and of the exam are  *)
(* used to this end; SharedMemory and SemaphoreTurns map their state here. *)
(***************************************************************************)
CONSTANT Proc

VARIABLE holders   \* the processes that hold the lock

Init == holders = {}

Acquire(p) == holders = {} /\ holders' = {p}
Release(p) == holders = {p} /\ holders' = {}

Next == \E p \in Proc : Acquire(p) \/ Release(p)

Spec == Init /\ [][Next]_holders
=============================================================================
