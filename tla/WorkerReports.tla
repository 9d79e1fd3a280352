---------------------------- MODULE WorkerReports ----------------------------
(***************************************************************************)
(* Assignment1/Part4: a parent forks three workers.  A worker reads its    *)
(* file in chunks, sends SIGUSR1 when its memory exceeds 50 MB and SIGUSR2 *)
(* when it is through.  The parent blocks both signals until all workers   *)
(* are forked, then waits for the warning of worker 3 and the completions  *)
(* of workers 1 and 2, and at last for the end of all three.               *)
(*                                                                         *)
(* wr_parent: sizes, block, fork, store, unblock, test, suspend,           *)
(*   suspended, reap, done, failed.  "suspend" is before the system call   *)
(*   sigsuspend, "suspended" inside it.                                    *)
(* wr_worker[w]: none, open, read, exit, exited, failed                    *)
(* The kernel keeps one pending signal of each number, with its first      *)
(* sender.                                                                 *)
(***************************************************************************)
EXTENDS Integers

CONSTANTS MAX_CHUNKS,   \* bound on the chunks of a file
          Exceeding     \* workers whose memory exceeds 50 MB: alloc_size_mb

Workers  == 1..3
NoWorker == 0
REPORTS  == {"SIGUSR1", "SIGUSR2"}

ASSUME ReportsAssumption == MAX_CHUNKS \in Nat /\ Exceeding \subseteq Workers

VARIABLES
  wr_parent,
  worker_pids,              \* workers whose pid the parent has stored
  blocked,                  \* SIGUSR1 and SIGUSR2 are blocked in the parent
  wr_pending,               \* per signal, the worker whose signal is pending
  memory_warned_worker_3, worker_completed,
  awaited,                  \* which of the three waiting loops the parent is in
  wr_worker, chunks,
  warned,                   \* the local flag of each worker
  coalesced,                \* history: reports lost because one was pending
  late                      \* history: a handler ran between a test and sigsuspend

wr_state == <<worker_pids, blocked, memory_warned_worker_3, worker_completed, awaited>>
wr_vars == <<wr_parent, wr_state, wr_pending, wr_worker, chunks, warned, coalesced,
             late>>

WRTypeOK ==
  /\ wr_parent \in {"sizes", "block", "fork", "store", "unblock", "test", "suspend",
                    "suspended", "reap", "done", "failed"}
  /\ worker_pids \in SUBSET Workers /\ blocked \in BOOLEAN
  /\ wr_pending \in [REPORTS -> Workers \cup {NoWorker}]
  /\ memory_warned_worker_3 \in BOOLEAN /\ worker_completed \in SUBSET Workers
  /\ awaited \in 1..3
  /\ wr_worker \in [Workers -> {"none", "open", "read", "exit", "exited", "failed"}]
  /\ chunks \in [Workers -> 0..MAX_CHUNKS] /\ warned \in [Workers -> BOOLEAN]
  /\ coalesced \in SUBSET (REPORTS \X Workers) /\ late \in BOOLEAN

WRInit ==
  /\ wr_parent = "sizes" /\ worker_pids = {} /\ blocked = FALSE
  /\ wr_pending = [s \in REPORTS |-> NoWorker]
  /\ memory_warned_worker_3 = FALSE /\ worker_completed = {} /\ awaited = 1
  /\ wr_worker = [w \in Workers |-> "none"]
  /\ chunks = [w \in Workers |-> 0] /\ warned = [w \in Workers |-> FALSE]
  /\ coalesced = {} /\ late = FALSE

ParentGone == wr_parent \in {"done", "failed"}

-----------------------------------------------------------------------------
(* The parent.                                                             *)

WRGoto(from, to) == wr_parent = from /\ wr_parent' = to

\* The user enters the sizes and the files are written, then the handlers are
\* installed.
EnterSizes ==
  /\ WRGoto("sizes", "block")
  /\ chunks' \in [Workers -> 0..MAX_CHUNKS]
  /\ UNCHANGED <<wr_state, wr_pending, wr_worker, warned, coalesced, late>>

\* A fault: the signals are left unblocked.
FaultyBlockReports ==
  /\ WRGoto("block", "fork")
  /\ UNCHANGED <<wr_state, wr_pending, wr_worker, chunks, warned, coalesced, late>>

BlockReports ==
  /\ WRGoto("block", "fork") /\ blocked' = TRUE
  /\ UNCHANGED <<worker_pids, memory_warned_worker_3, worker_completed, awaited,
                 wr_pending, wr_worker, chunks, warned, coalesced, late>>

\* fork(); the pid is stored in a step of its own, while the child runs.
ForkWorker(w) ==
  /\ WRGoto("fork", "store")
  /\ wr_worker[w] = "none" /\ \A v \in 1..(w - 1) : wr_worker[v] # "none"
  /\ wr_worker' = [wr_worker EXCEPT ![w] = "open"]
  /\ UNCHANGED <<wr_state, wr_pending, chunks, warned, coalesced, late>>

StorePid ==
  /\ WRGoto("store", IF \E w \in Workers : wr_worker[w] = "none"
                     THEN "fork" ELSE "unblock")
  /\ worker_pids' = {w \in Workers : wr_worker[w] # "none"}
  /\ UNCHANGED <<blocked, memory_warned_worker_3, worker_completed, awaited,
                 wr_pending, wr_worker, chunks, warned, coalesced, late>>

\* exit(1), with the workers that there are.
WRForkFails ==
  /\ WRGoto("fork", "failed")
  /\ UNCHANGED <<wr_state, wr_pending, wr_worker, chunks, warned, coalesced, late>>

UnblockReports ==
  /\ WRGoto("unblock", "test") /\ blocked' = FALSE
  /\ UNCHANGED <<worker_pids, memory_warned_worker_3, worker_completed, awaited,
                 wr_pending, wr_worker, chunks, warned, coalesced, late>>

\* The flag that the current loop waits for.
Arrived == /\ awaited = 1 => memory_warned_worker_3
           /\ awaited = 2 => 1 \in worker_completed
           /\ awaited = 3 => 2 \in worker_completed

\* The test of the three while loops, one after the other.
TestFlag ==
  /\ IF ~Arrived THEN WRGoto("test", "suspend") /\ UNCHANGED awaited
     ELSE IF awaited < 3 THEN WRGoto("test", "test") /\ awaited' = awaited + 1
     ELSE WRGoto("test", "reap") /\ UNCHANGED awaited
  /\ UNCHANGED <<worker_pids, blocked, memory_warned_worker_3, worker_completed,
                 wr_pending, wr_worker, chunks, warned, coalesced, late>>

Suspend ==
  /\ WRGoto("suspend", "suspended")
  /\ UNCHANGED <<wr_state, wr_pending, wr_worker, chunks, warned, coalesced, late>>

\* A fault: every sender counts for the completion that is awaited.
FaultyRecord(s, w) ==
  /\ memory_warned_worker_3' = (memory_warned_worker_3 \/ s = "SIGUSR1")
  /\ worker_completed' = IF s = "SIGUSR2" THEN worker_completed \cup {awaited - 1}
                         ELSE worker_completed

\* dhsb_signal_handler: only a sender whose pid is stored counts, and a
\* warning only from worker 3.
Record(s, w) ==
  /\ memory_warned_worker_3' =
       (memory_warned_worker_3 \/ (s = "SIGUSR1" /\ w = 3 /\ w \in worker_pids))
  /\ worker_completed' =
       IF s = "SIGUSR2" THEN worker_completed \cup ({w} \cap worker_pids)
       ELSE worker_completed

\* A fault: the mask of sigsuspend lets only the warning through.
FaultyDeliver(s) ==
  /\ ~ParentGone /\ ~blocked /\ wr_pending[s] # NoWorker
  /\ wr_parent = "suspended" => s = "SIGUSR1"
  /\ wr_pending' = [wr_pending EXCEPT ![s] = NoWorker]
  /\ Record(s, wr_pending[s])
  /\ wr_parent' = IF wr_parent = "suspended" THEN "test" ELSE wr_parent
  /\ late' = (late \/ wr_parent = "suspend")
  /\ UNCHANGED <<worker_pids, blocked, awaited, wr_worker, chunks, warned, coalesced>>

\* The kernel runs the handler, which ends a sigsuspend.
Deliver(s) ==
  /\ ~ParentGone /\ ~blocked /\ wr_pending[s] # NoWorker
  /\ wr_pending' = [wr_pending EXCEPT ![s] = NoWorker]
  /\ Record(s, wr_pending[s])
  /\ wr_parent' = IF wr_parent = "suspended" THEN "test" ELSE wr_parent
  /\ late' = (late \/ wr_parent = "suspend")
  /\ UNCHANGED <<worker_pids, blocked, awaited, wr_worker, chunks, warned, coalesced>>

WorkerGone(w) == wr_worker[w] \in {"exited", "failed"}

\* waitpid of each worker: SIGCHLD is ignored, so it returns, with ECHILD,
\* once that worker is gone.
Reap ==
  /\ WRGoto("reap", "done") /\ \A w \in Workers : WorkerGone(w)
  /\ UNCHANGED <<wr_state, wr_pending, wr_worker, chunks, warned, coalesced, late>>

-----------------------------------------------------------------------------
(* The workers.                                                            *)

WRWorkerGoto(w, from, to) ==
  wr_worker[w] = from /\ wr_worker' = [wr_worker EXCEPT ![w] = to]

\* kill(parent_pid, s)
Report(w, s) ==
  IF ParentGone THEN UNCHANGED <<wr_pending, coalesced>>
  ELSE IF wr_pending[s] = NoWorker
  THEN wr_pending' = [wr_pending EXCEPT ![s] = w] /\ UNCHANGED coalesced
  ELSE coalesced' = coalesced \cup {<<s, w>>} /\ UNCHANGED wr_pending

\* execl and open, then malloc; if one fails the worker exits without a report.
OpenFile(w) ==
  /\ WRWorkerGoto(w, "open", "read") \/ WRWorkerGoto(w, "open", "failed")
  /\ UNCHANGED <<wr_parent, wr_state, wr_pending, chunks, warned, coalesced, late>>

\* One turn of the read loop; without /proc/self/status there is no check.
ReadChunk(w) ==
  /\ wr_worker[w] = "read" /\ chunks[w] > 0
  /\ chunks' = [chunks EXCEPT ![w] = @ - 1]
  /\ \/ /\ w \in Exceeding /\ ~warned[w]
        /\ Report(w, "SIGUSR1") /\ warned' = [warned EXCEPT ![w] = TRUE]
     \/ UNCHANGED <<warned, wr_pending, coalesced>>
  /\ UNCHANGED <<wr_parent, wr_state, wr_worker, late>>

Complete(w) ==
  /\ chunks[w] = 0 /\ WRWorkerGoto(w, "read", "exit")
  /\ Report(w, "SIGUSR2")
  /\ UNCHANGED <<wr_parent, wr_state, chunks, warned, late>>

ExitWorker(w) ==
  /\ WRWorkerGoto(w, "exit", "exited")
  /\ UNCHANGED <<wr_parent, wr_state, wr_pending, chunks, warned, coalesced, late>>

-----------------------------------------------------------------------------
WRParent == \/ EnterSizes \/ BlockReports \/ (\E w \in Workers : ForkWorker(w))
            \/ StorePid \/ WRForkFails \/ UnblockReports \/ TestFlag \/ Suspend \/ Reap
WRWorker(w) == OpenFile(w) \/ ReadChunk(w) \/ Complete(w) \/ ExitWorker(w)

WRNext == \/ WRParent \/ (\E s \in REPORTS : Deliver(s))
          \/ \E w \in Workers : WRWorker(w)

WRSpec == WRInit /\ [][WRNext]_wr_vars

\* Processes run, and signals that are not blocked are delivered.
WRFairness == /\ WF_wr_vars(WRParent)
              /\ \A s \in REPORTS : WF_wr_vars(Deliver(s))
              /\ \A w \in Workers : WF_wr_vars(WRWorker(w))

-----------------------------------------------------------------------------
\* parent_main.c:122, "Block SIGUSR1 and SIGUSR2 before forking": a worker may
\* report before the parent has stored its pid, but the handler runs only
\* when it can tell who reports.
SendersAreKnown ==
  ~blocked => \A s \in REPORTS : wr_pending[s] \in worker_pids \cup {NoWorker}

\* parent_main.c:186-199: when the parent says that it is done, worker 3 did
\* warn, workers 1 and 2 did complete, and all three are gone.
DoneIsTrue ==
  /\ wr_parent \in {"reap", "done"} =>
       /\ warned[3] /\ \A w \in {1, 2} : wr_worker[w] \in {"exit", "exited"}
  /\ wr_parent = "done" => \A w \in Workers : WorkerGone(w)

\* A report that the parent needs was never sent: worker 3 had an empty file or
\* could not see its memory, worker 1 or 2 failed.
NeverReported == ~warned[3] \/ wr_worker[1] = "failed" \/ wr_worker[2] = "failed"
\* It was sent while a signal of the same number was pending.
NeededLost == coalesced \cap {<<"SIGUSR1", 3>>, <<"SIGUSR2", 1>>, <<"SIGUSR2", 2>>} # {}
\* The handler ran after the test of its flag and before sigsuspend.
SleptTooLate == late /\ wr_parent \in {"suspend", "suspended"} /\ Arrived

\* parent_main.c:122-123, "Block SIGUSR1 and SIGUSR2 before forking to ensure
\* children don't send signals before parent is ready to `sigsuspend`": the
\* parent never waits for a report that its handler has recorded already.  The
\* code unblocks the signals at line 158, before the first test.
SuspendsInTime == wr_parent = "suspended" => ~Arrived

\* parent_main.c:171-184: a parent that no signal and no worker can wake any more
\* sleeps for one of these reasons, and for no other.
SleepsForAReason ==
  /\ wr_parent = "suspended" /\ \A w \in Workers : WorkerGone(w)
  /\ \A s \in REPORTS : wr_pending[s] = NoWorker
  => NeverReported \/ NeededLost \/ SleptTooLate

\* parent_main.c:171-195: once all workers are gone the parent ends, unless a
\* report was never sent or coalesced with another one, or fell between the
\* test of its flag and sigsuspend, against SuspendsInTime.  The workers' ends
\* help in none of these cases: SIGCHLD is ignored (line 89), and an ignored
\* signal ends no sigsuspend, whatever line 168 says.
WRParentEnds ==
  (\A w \in Workers : WorkerGone(w)) ~>
    (ParentGone \/ NeverReported \/ NeededLost \/ SleptTooLate)
=============================================================================
