------------------------------ MODULE WorkerTest ------------------------------
(***************************************************************************)
(* Assignment1/Part2 and Part3: one worker, whose parent tests its signals.*)
(* In Part2 the parent waits for the worker with waitpid and then looks    *)
(* which signals came; in Part3 it waits with pause() until it has counted *)
(* two, and then for the worker.  `part` says which of the two programs    *)
(* runs; the worker is the same code.                                      *)
(*                                                                         *)
(* wt_parent: fork; waitpid, verdict (Part2); test, pause, paused, reap    *)
(*   (Part3); success, failure.  "pause" is before the system call,        *)
(*   "paused" inside it.                                                   *)
(* wt_worker: none, open, check, open2, read, exit, exited                 *)
(* sa_mask is empty: the handler of one signal may interrupt that of the   *)
(* other, and handlers holds the interrupted ones, the running one last.   *)
(***************************************************************************)
EXTENDS Integers, Sequences, SequencesExt

CONSTANT MAX_READS   \* bound on the chunks of the worker's file
ASSUME MaxReadsAssumption == MAX_READS \in Nat \ {0}

SENT == {"USR1", "USR2"}

VARIABLES
  part, wt_parent, wt_worker, reads,
  wt_pending,               \* signals pending in the parent
  sent,                     \* signals the worker has sent
  received,                 \* Part2: sigusr1_received, sigusr2_received
  signals_received,         \* Part3: dhsb_signals_received
  handlers,                 \* Part3: the counts that unfinished handlers have read
  mishaps                   \* history: a handler has interrupted another, or
                            \* ended between the test and pause

wt_counters == <<received, signals_received, handlers, mishaps>>
wt_vars == <<part, wt_parent, wt_worker, reads, wt_pending, sent, wt_counters>>

WTTypeOK ==
  /\ part \in {2, 3}
  /\ wt_parent \in {"fork", "waitpid", "verdict", "test", "pause", "paused", "reap",
                    "success", "failure"}
  /\ wt_worker \in {"none", "open", "check", "open2", "read", "exit", "exited"}
  /\ reads \in 0..MAX_READS
  /\ wt_pending \subseteq sent /\ sent \subseteq SENT /\ received \subseteq SENT
  /\ signals_received \in 0..2 /\ handlers \in Seq(0..1)
  /\ mishaps \subseteq {"nested", "late"}

\* Part2 makes a file of 60 MB; in Part3 it may be missing or empty.
WTInit ==
  /\ part \in {2, 3} /\ wt_parent = "fork" /\ wt_worker = "none"
  /\ reads = MAX_READS \/ (part = 3 /\ reads = 0)
  /\ wt_pending = {} /\ sent = {} /\ received = {}
  /\ signals_received = 0 /\ handlers = <<>> /\ mishaps = {}

WTParentGone == wt_parent \in {"success", "failure"}
WTGoto(from, to) == wt_parent = from /\ wt_parent' = to

-----------------------------------------------------------------------------
(* The worker, dhsb_worker_process.                                        *)

WTWorkerGoto(from, to) == wt_worker = from /\ wt_worker' = to
Send(s) == sent' = sent \cup {s} /\ wt_pending' = wt_pending \cup {s}
SendNothing == UNCHANGED <<sent, wt_pending>>

\* open and the first malloc: the worker exits if one fails.
WTOpen ==
  /\ WTWorkerGoto("open", "check") \/ WTWorkerGoto("open", "exited")
  /\ SendNothing /\ UNCHANGED <<part, wt_parent, reads, wt_counters>>

\* The immediate check of VmRSS, which 55 MB exceed; not without the file in
\* /proc.
CheckMemory ==
  /\ WTWorkerGoto("check", "open2")
  /\ Send("USR1") \/ SendNothing
  /\ UNCHANGED <<part, wt_parent, reads, wt_counters>>

\* The second malloc.
AllocateData ==
  /\ WTWorkerGoto("open2", "read") \/ WTWorkerGoto("open2", "exited")
  /\ SendNothing /\ UNCHANGED <<part, wt_parent, reads, wt_counters>>

\* One turn of the read loop: the worker exits if /proc cannot be read, and
\* warns if it has not yet.
WTRead ==
  /\ wt_worker = "read" /\ reads > 0
  /\ \/ WTWorkerGoto("read", "exited") /\ SendNothing /\ UNCHANGED reads
     \/ /\ reads' = reads - 1 /\ UNCHANGED wt_worker
        /\ IF "USR1" \in sent THEN SendNothing ELSE Send("USR1")
  /\ UNCHANGED <<part, wt_parent, wt_counters>>

WTComplete ==
  /\ reads = 0 /\ WTWorkerGoto("read", "exit") /\ Send("USR2")
  /\ UNCHANGED <<part, wt_parent, reads, wt_counters>>

WTExit ==
  /\ WTWorkerGoto("exit", "exited") /\ SendNothing
  /\ UNCHANGED <<part, wt_parent, reads, wt_counters>>

-----------------------------------------------------------------------------
(* The parents.                                                            *)

WTFork ==
  /\ \/ /\ WTWorkerGoto("none", "open")
        /\ WTGoto("fork", IF part = 2 THEN "waitpid" ELSE "test")
     \/ WTGoto("fork", "failure") /\ UNCHANGED wt_worker
  /\ UNCHANGED <<part, reads, wt_pending, sent, wt_counters>>

\* A fault: waitpid is not repeated after EINTR.
FaultyDeliver2(s) ==
  /\ part = 2 /\ ~WTParentGone /\ s \in wt_pending
  /\ wt_pending' = wt_pending \ {s} /\ received' = received \cup {s}
  /\ wt_parent' = IF wt_parent = "waitpid" THEN "verdict" ELSE wt_parent
  /\ UNCHANGED <<part, wt_worker, reads, sent, signals_received, handlers, mishaps>>

\* Part2, test_parent_signal_handler.  An interrupted waitpid is repeated.
Deliver2(s) ==
  /\ part = 2 /\ ~WTParentGone /\ s \in wt_pending
  /\ wt_pending' = wt_pending \ {s} /\ received' = received \cup {s}
  /\ UNCHANGED <<part, wt_parent, wt_worker, reads, sent, signals_received, handlers,
                 mishaps>>

\* waitpid returns the worker.
WTWaitpid ==
  /\ WTGoto("waitpid", "verdict") /\ wt_worker = "exited"
  /\ UNCHANGED <<part, wt_worker, reads, wt_pending, sent, wt_counters>>

\* The test of the flags.  A system call does not return to the program while
\* a signal is pending: its handler runs first.
Verdict ==
  /\ wt_pending = {}
  /\ WTGoto("verdict", IF "USR2" \in received THEN "success" ELSE "failure")
  /\ UNCHANGED <<part, wt_worker, reads, wt_pending, sent, wt_counters>>

\* Part3, dhsb_signal_handler until it has read the counter.  No signal
\* interrupts the handler of the same signal, and each is sent once.
EnterHandler(s) ==
  /\ part = 3 /\ ~WTParentGone /\ s \in wt_pending
  /\ wt_pending' = wt_pending \ {s}
  /\ handlers' = Append(handlers, signals_received)
  /\ mishaps' = mishaps \cup IF handlers # <<>> THEN {"nested"} ELSE {}
  /\ UNCHANGED <<part, wt_parent, wt_worker, reads, sent, received, signals_received>>

\* A fault: pause is restarted.
FaultyLeaveHandler ==
  /\ handlers # <<>>
  /\ signals_received' = Last(handlers) + 1 /\ handlers' = Front(handlers)
  /\ mishaps' = mishaps \cup IF wt_parent = "pause" THEN {"late"} ELSE {}
  /\ UNCHANGED <<part, wt_parent, wt_worker, reads, wt_pending, sent, received>>

\* The end of ++dhsb_signals_received, and of the handler, which ends a pause.
LeaveHandler ==
  /\ handlers # <<>>
  /\ signals_received' = Last(handlers) + 1 /\ handlers' = Front(handlers)
  /\ wt_parent' = IF wt_parent = "paused" THEN "test" ELSE wt_parent
  /\ mishaps' = mishaps \cup IF wt_parent = "pause" THEN {"late"} ELSE {}
  /\ UNCHANGED <<part, wt_worker, reads, wt_pending, sent, received>>

TestCount ==
  /\ handlers = <<>>
  /\ WTGoto("test", IF signals_received < 2 THEN "pause" ELSE "reap")
  /\ UNCHANGED <<part, wt_worker, reads, wt_pending, sent, wt_counters>>

Pause ==
  /\ handlers = <<>> /\ WTGoto("pause", "paused")
  /\ UNCHANGED <<part, wt_worker, reads, wt_pending, sent, wt_counters>>

WTReap ==
  /\ handlers = <<>> /\ WTGoto("reap", "success") /\ wt_worker = "exited"
  /\ UNCHANGED <<part, wt_worker, reads, wt_pending, sent, wt_counters>>

-----------------------------------------------------------------------------
WTWorker == \/ WTOpen \/ CheckMemory \/ AllocateData \/ WTRead \/ WTComplete
            \/ WTExit
WTHandler == (\E s \in SENT : Deliver2(s) \/ EnterHandler(s)) \/ LeaveHandler
WTParent == WTFork \/ WTWaitpid \/ Verdict \/ TestCount \/ Pause \/ WTReap

WTNext == WTWorker \/ WTHandler \/ WTParent
WTSpec == WTInit /\ [][WTNext]_wt_vars
WTFairness == WF_wt_vars(WTWorker) /\ WF_wt_vars(WTHandler) /\ WF_wt_vars(WTParent)

-----------------------------------------------------------------------------
\* Part2/test_worker_main.c:139-154, "Report on whether the expected signals
\* were received": when the flags are read they say what the worker sent, and
\* the test succeeds just if the worker came to its end.
VerdictIsTrue ==
  part = 2 =>
    /\ (wt_parent = "verdict" /\ wt_pending = {}) => received = sent
    /\ wt_parent = "success" => "USR2" \in sent
    /\ wt_parent = "failure" => "USR2" \notin sent

\* Part3/test_worker_main.c:62-63: a parent that stays in pause for ever was
\* not sent both signals, or one of the two mishaps has happened.
PausesForAReason ==
  /\ wt_parent = "paused" /\ wt_worker = "exited"
  /\ wt_pending = {} /\ handlers = <<>>
  => sent # SENT \/ mishaps # {}

\* What the two parents take from the signals is right: the verdict of Part2, and
\* that Part3 has counted all that it can.
SignalsCount == VerdictIsTrue /\ PausesForAReason

\* Once the worker is gone the parent ends.  In Part3 there are exceptions: not
\* both signals were sent, one handler interrupted the other between reading
\* and writing the counter (Part3/test_worker_main.c:20, 29), or one ran
\* between the test of the counter and pause (lines 62-63).
WTParentEnds ==
  (wt_worker = "exited") ~>
    \/ WTParentGone
    \/ (part = 3 /\ (sent # SENT \/ mishaps # {}))
=============================================================================
