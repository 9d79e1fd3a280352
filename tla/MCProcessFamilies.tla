-------------------------- MODULE MCProcessFamilies --------------------------
(***************************************************************************)
(* The programs of one parent and its children, checked side by side: an   *)
(* initial state starts one of them, while the others have ended before    *)
(* their first child.  They share nothing, so their steps are disjoint.    *)
(***************************************************************************)
EXTENDS WorkerReports, WorkerTest, StartStop, SemaphoreTurns

OnlyWorker3 == {3}

\* The first fork failed, or ctrl-C ended the parent before it.
WREnded ==
  /\ wr_parent = "failed" /\ worker_pids = {} /\ blocked = TRUE
  /\ wr_pending = [s \in REPORTS |-> NoWorker]
  /\ memory_warned_worker_3 = FALSE /\ worker_completed = {} /\ awaited = 1
  /\ wr_worker = [w \in Workers |-> "none"]
  /\ chunks = [w \in Workers |-> 0] /\ warned = [w \in Workers |-> FALSE]
  /\ coalesced = {} /\ late = FALSE

WTEnded ==
  /\ part = 2 /\ wt_parent = "failure" /\ wt_worker = "none" /\ reads = MAX_READS
  /\ wt_pending = {} /\ sent = {} /\ received = {}
  /\ signals_received = 0 /\ handlers = <<>> /\ mishaps = {}

SSEnded ==
  /\ ss_parent = "killed" /\ target = 1
  /\ childPid = [c \in Monitors |-> NotForked]
  /\ ss_child = [c \in Monitors |-> "none"]
  /\ isRunning = [c \in Monitors |-> FALSE]
  /\ ss_pending = [c \in Monitors |-> {}]
  /\ logged = {} /\ stopped = {}

STEnded ==
  /\ st_parent = "failed" /\ st_child = [c \in Children |-> "none"]
  /\ forked = 0 /\ waited = {} /\ sem_id = TRUE /\ sem = 1

Init == \/ WRInit  /\ WTEnded /\ SSEnded /\ STEnded
        \/ WREnded /\ WTInit  /\ SSEnded /\ STEnded
        \/ WREnded /\ WTEnded /\ SSInit  /\ STEnded
        \/ WREnded /\ WTEnded /\ SSEnded /\ STInit

Next == \/ WRNext /\ UNCHANGED <<wt_vars, ss_vars, st_vars>>
        \/ WTNext /\ UNCHANGED <<wr_vars, ss_vars, st_vars>>
        \/ SSNext /\ UNCHANGED <<wr_vars, wt_vars, st_vars>>
        \/ STNext /\ UNCHANGED <<wr_vars, wt_vars, ss_vars>>

vars == <<wr_vars, wt_vars, ss_vars, st_vars>>

Spec == /\ Init /\ [][Next]_vars
        /\ WRFairness /\ WTFairness /\ SSFairness /\ STFairness
=============================================================================
