---------------------------- MODULE WorkerProofs -----------------------------
(***************************************************************************)
(* What the parent of Assignment1/Part4 may conclude from the reports of   *)
(* its workers, for every length of the files and whichever workers exceed *)
(* the limit; and what the tests of Part2 and Part3 may conclude from the  *)
(* signals of one.  Signals are lost and coalesce in the model: what is    *)
(* proved is that the parent never believes a report that was not made.    *)
(***************************************************************************)
EXTENDS WorkerReports, WorkerTest, TLAPS

\* The signals are blocked from before the first fork until all pids are
\* stored.
PidsStored ==
  /\ wr_parent \in {"sizes", "block"} =>
       /\ \A w \in Workers : wr_worker[w] = "none"
       /\ \A s \in REPORTS : wr_pending[s] = NoWorker
  /\ wr_parent \in {"fork", "store", "failed"} => blocked
  /\ wr_parent \notin {"sizes", "block", "fork", "store", "failed"} =>
       worker_pids = Workers

\* A warning, pending or recorded, was sent; so was a completion.
Honest ==
  /\ wr_pending["SIGUSR1"] \in Workers => warned[wr_pending["SIGUSR1"]]
  /\ wr_pending["SIGUSR2"] \in Workers =>
       wr_worker[wr_pending["SIGUSR2"]] \in {"exit", "exited"}
  /\ memory_warned_worker_3 => warned[3]
  /\ \A w \in worker_completed : wr_worker[w] \in {"exit", "exited"}

\* The flags of the loops that the parent has left are set.
Passed ==
  /\ awaited > 1 => memory_warned_worker_3
  /\ awaited > 2 => 1 \in worker_completed
  /\ wr_parent \in {"reap", "done"} =>
       memory_warned_worker_3 /\ 1 \in worker_completed /\ 2 \in worker_completed
  /\ wr_parent = "done" => \A w \in Workers : WorkerGone(w)

ReportsInv == WRTypeOK /\ PidsStored /\ Honest /\ Passed

-----------------------------------------------------------------------------
LEMMA ReportsInit == WRInit => ReportsInv
<1> SUFFICES ASSUME WRInit PROVE ReportsInv
  OBVIOUS
<1>1. /\ blocked \in BOOLEAN /\ late \in BOOLEAN
      /\ memory_warned_worker_3 \in BOOLEAN /\ ~memory_warned_worker_3
  BY Zenon DEF WRInit
<1>2. WRTypeOK
  BY <1>1, ReportsAssumption DEF WRInit, WRTypeOK, NoWorker
<1>3. PidsStored
  BY DEF WRInit, PidsStored
<1>4. Honest
  BY <1>1 DEF WRInit, Honest, NoWorker, Workers, REPORTS
<1>5. Passed
  BY DEF WRInit, Passed
<1>6. QED
  BY <1>2, <1>3, <1>4, <1>5 DEF ReportsInv

\* What a worker sends, it sends rightly.
LEMMA ReportStep ==
  ASSUME ReportsInv, NEW w \in Workers, NEW s \in REPORTS, Report(w, s),
         wr_worker[w] = "read"
  PROVE  /\ wr_pending' \in [REPORTS -> Workers \cup {NoWorker}]
         /\ coalesced' \in SUBSET (REPORTS \X Workers)
         /\ wr_pending'[s] = wr_pending[s] \/ wr_pending'[s] = w
         /\ \A t \in REPORTS : t # s => wr_pending'[t] = wr_pending[t]
         /\ wr_parent \notin {"sizes", "block"}
BY DEF Report, ReportsInv, WRTypeOK, PidsStored

\* Each step of the parent keeps the invariant.
LEMMA ParentStep == ASSUME ReportsInv, WRParent PROVE ReportsInv'
<1> USE DEF ReportsInv, WRTypeOK, PidsStored, Honest, Passed, WRGoto, WorkerGone
<1>1. CASE EnterSizes
  BY <1>1 DEF EnterSizes, wr_state
<1>2. CASE BlockReports
  BY <1>2 DEF BlockReports
<1>3. ASSUME NEW w \in Workers, ForkWorker(w) PROVE ReportsInv'
  BY <1>3 DEF ForkWorker, wr_state, Workers
<1>4. CASE StorePid
  BY <1>4 DEF StorePid
<1>5. CASE WRForkFails
  BY <1>5 DEF WRForkFails, wr_state
<1>6. CASE UnblockReports
  BY <1>6 DEF UnblockReports
<1>7. CASE TestFlag
  <2>1. CASE ~Arrived
    BY <1>7, <2>1 DEF TestFlag
  <2>2. CASE Arrived /\ awaited < 3
    <3>1. /\ awaited = 1 => memory_warned_worker_3
          /\ awaited = 2 => 1 \in worker_completed
      BY <2>2 DEF Arrived
    <3>2. awaited' = awaited + 1 /\ awaited' \in 1..3 /\ wr_parent' = "test"
      BY <1>7, <2>2 DEF TestFlag
    <3>3. QED
      BY <1>7, <2>2, <3>1, <3>2 DEF TestFlag
  <2>3. CASE Arrived /\ awaited = 3
    BY <1>7, <2>3 DEF TestFlag, Arrived
  <2>4. QED
    BY <2>1, <2>2, <2>3
<1>8. CASE Suspend
  BY <1>8 DEF Suspend, wr_state
<1>9. CASE Reap
  BY <1>9 DEF Reap, wr_state
<1>10. QED
  BY <1>1, <1>2, <1>3, <1>4, <1>5, <1>6, <1>7, <1>8, <1>9 DEF WRParent

\* So does the handler: it believes a sender whose pid is stored.
LEMMA HandlerStep ==
  ASSUME ReportsInv, NEW s \in REPORTS, Deliver(s) PROVE ReportsInv'
<1> USE DEF ReportsInv, WRTypeOK, PidsStored, Honest, Passed, WorkerGone
<1>1. CASE s = "SIGUSR1"
  BY <1>1 DEF Deliver, Record, REPORTS, Workers, NoWorker, ParentGone
<1>2. CASE s = "SIGUSR2"
  <2>1. /\ memory_warned_worker_3' = memory_warned_worker_3
        /\ worker_completed' = worker_completed \cup ({wr_pending[s]} \cap worker_pids)
    BY <1>2 DEF Deliver, Record
  <2>2. worker_completed' \in SUBSET Workers
    BY <2>1
  <2>3. \A w \in worker_completed' : wr_worker[w] \in {"exit", "exited"}
    BY <1>2, <2>1
  <2>4. QED
    BY <1>2, <2>1, <2>2, <2>3 DEF Deliver, REPORTS, Workers, NoWorker, ParentGone
<1>3. QED
  BY <1>1, <1>2 DEF REPORTS

\* And each step of a worker.
LEMMA WorkerStep ==
  ASSUME ReportsInv, NEW w \in Workers, WRWorker(w) PROVE ReportsInv'
<1> USE DEF ReportsInv, WRTypeOK, PidsStored, Honest, Passed, WorkerGone, WRWorkerGoto
<1>1. CASE OpenFile(w)
  BY <1>1 DEF OpenFile, wr_state
<1>2. CASE ReadChunk(w)
  <2>1. wr_worker' = wr_worker /\ UNCHANGED wr_state /\ wr_parent' = wr_parent
    BY <1>2 DEF ReadChunk
  <2>2. chunks' \in [Workers -> 0..MAX_CHUNKS]
    BY <1>2, ReportsAssumption DEF ReadChunk
  <2>3. CASE Report(w, "SIGUSR1") /\ warned' = [warned EXCEPT ![w] = TRUE]
    BY <1>2, <2>1, <2>2, <2>3, ReportStep DEF ReadChunk, wr_state, REPORTS
  <2>4. CASE UNCHANGED <<warned, wr_pending, coalesced>>
    BY <1>2, <2>1, <2>2, <2>4 DEF ReadChunk, wr_state
  <2>5. QED
    BY <1>2, <2>3, <2>4 DEF ReadChunk
<1>3. CASE Complete(w)
  BY <1>3, ReportStep DEF Complete, wr_state, REPORTS
<1>4. CASE ExitWorker(w)
  BY <1>4 DEF ExitWorker, wr_state
<1>5. QED
  BY <1>1, <1>2, <1>3, <1>4 DEF WRWorker

\* parent_main.c:20-64, 122-205: the inductive invariant of parent and workers.
THEOREM ReportsInvariant == WRSpec => []ReportsInv
<1>1. ReportsInv /\ UNCHANGED wr_vars => ReportsInv'
  BY DEF ReportsInv, WRTypeOK, PidsStored, Honest, Passed, WorkerGone, wr_vars, wr_state
<1>2. ReportsInv /\ [WRNext]_wr_vars => ReportsInv'
  BY <1>1, ParentStep, HandlerStep, WorkerStep DEF WRNext
<1>3. QED
  BY <1>2, ReportsInit, PTL DEF WRSpec

\* parent_main.c:122: the handler never runs for a worker it does not know.
THEOREM ReportersAreKnown == WRSpec => []SendersAreKnown
<1>1. ReportsInv => SendersAreKnown
  BY DEF ReportsInv, PidsStored, WRTypeOK, SendersAreKnown, REPORTS
<1>2. QED
  BY <1>1, ReportsInvariant, PTL

\* parent_main.c:186-199: what the parent says at its end has happened.
THEOREM ParentsEndIsTrue == WRSpec => []DoneIsTrue
<1>1. ReportsInv => DoneIsTrue
  BY DEF ReportsInv, Honest, Passed, DoneIsTrue
<1>2. QED
  BY <1>1, ReportsInvariant, PTL

-----------------------------------------------------------------------------
(* What keeps the parent of Part4 asleep.                                  *)

\* A report that the parent needs is recorded, pending, or lost with a trace.
Traced ==
  /\ warned[3] => \/ memory_warned_worker_3 \/ ParentGone
                  \/ wr_pending["SIGUSR1"] = 3 \/ <<"SIGUSR1", 3>> \in coalesced
  /\ \A w \in {1, 2} :
       wr_worker[w] \in {"exit", "exited"} =>
         \/ w \in worker_completed \/ ParentGone
         \/ wr_pending["SIGUSR2"] = w \/ <<"SIGUSR2", w>> \in coalesced

\* The parent goes to sleep on a flag that was not set when it looked.
AsleepWithCause == wr_parent \in {"suspend", "suspended"} /\ Arrived => late

\* The parent's own steps lose no report.
LEMMA ParentTraces ==
  ASSUME ReportsInv, Traced, AsleepWithCause, WRParent
  PROVE  Traced' /\ AsleepWithCause'
<1> USE DEF ReportsInv, WRTypeOK, Traced, AsleepWithCause, WRGoto, ParentGone, Arrived
<1>1. CASE EnterSizes \/ BlockReports \/ WRForkFails \/ UnblockReports \/ StorePid
  BY <1>1 DEF EnterSizes, BlockReports, WRForkFails, UnblockReports, StorePid, wr_state
<1>2. ASSUME NEW w \in Workers, ForkWorker(w) PROVE Traced' /\ AsleepWithCause'
  BY <1>2 DEF ForkWorker, wr_state, Workers
<1>3. CASE TestFlag
  BY <1>3 DEF TestFlag
<1>4. CASE Suspend \/ Reap
  BY <1>4 DEF Suspend, Reap, wr_state
<1>5. QED
  BY <1>1, <1>2, <1>3, <1>4 DEF WRParent

\* The handler records the report it runs for: its sender is known.
LEMMA HandlerTraces ==
  ASSUME ReportsInv, Traced, AsleepWithCause, NEW s \in REPORTS, Deliver(s)
  PROVE  Traced' /\ AsleepWithCause'
<1> USE DEF ReportsInv, WRTypeOK, Traced, ParentGone, REPORTS
<1>1. worker_pids = Workers
  BY DEF Deliver, PidsStored, NoWorker
<1>2. \A t \in REPORTS : wr_pending'[t] = IF t = s THEN NoWorker ELSE wr_pending[t]
  BY DEF Deliver
<1>3. wr_pending[s] \in Workers /\ UNCHANGED <<wr_worker, warned, coalesced>>
  BY DEF Deliver, NoWorker
<1>4. ~ParentGone
  BY DEF Deliver
<1>5. CASE s = "SIGUSR1"
  <2>1. /\ memory_warned_worker_3 => memory_warned_worker_3'
        /\ wr_pending[s] = 3 => memory_warned_worker_3'
        /\ worker_completed' = worker_completed
    BY <1>1, <1>3, <1>5 DEF Deliver, Record, Workers
  <2>2. QED
    BY <1>2, <1>3, <1>4, <1>5, <2>1 DEF AsleepWithCause, Deliver, Arrived
<1>6. CASE s = "SIGUSR2"
  <2>1. /\ memory_warned_worker_3' = memory_warned_worker_3
        /\ worker_completed' = worker_completed \cup {wr_pending[s]}
    BY <1>1, <1>3, <1>6 DEF Deliver, Record
  <2>2. QED
    BY <1>2, <1>3, <1>4, <1>6, <2>1 DEF AsleepWithCause, Deliver, Arrived
<1>7. QED
  BY <1>5, <1>6

\* A worker's report becomes pending, or leaves a trace.
LEMMA WorkerTraces ==
  ASSUME ReportsInv, Traced, AsleepWithCause, NEW w \in Workers, WRWorker(w)
  PROVE  Traced' /\ AsleepWithCause'
<1> USE DEF ReportsInv, WRTypeOK, Traced, ParentGone, WRWorkerGoto, NoWorker
<1>1. AsleepWithCause'
  BY DEF AsleepWithCause, WRWorker, OpenFile, ReadChunk, Complete, ExitWorker, Arrived,
         wr_state
<1>2. CASE OpenFile(w) \/ ExitWorker(w)
  BY <1>1, <1>2 DEF OpenFile, ExitWorker, wr_state, Workers
<1>3. ASSUME NEW s \in REPORTS, Report(w, s)
      PROVE  /\ \/ ParentGone \/ wr_pending'[s] = w \/ <<s, w>> \in coalesced'
             /\ coalesced \subseteq coalesced'
             /\ \A t \in REPORTS : wr_pending[t] # NoWorker => wr_pending'[t] = wr_pending[t]
  BY <1>3 DEF Report
<1>4. CASE ReadChunk(w)
  <2>1. UNCHANGED <<wr_worker, wr_parent, memory_warned_worker_3, worker_completed>>
    BY <1>4 DEF ReadChunk, wr_state
  <2>2. CASE Report(w, "SIGUSR1") /\ warned' = [warned EXCEPT ![w] = TRUE]
    BY <1>1, <1>3, <2>1, <2>2 DEF REPORTS, Workers
  <2>3. CASE UNCHANGED <<warned, wr_pending, coalesced>>
    BY <1>1, <2>1, <2>3
  <2>4. QED
    BY <1>4, <2>2, <2>3 DEF ReadChunk
<1>5. CASE Complete(w)
  <2>1. /\ UNCHANGED <<warned, wr_parent, memory_warned_worker_3, worker_completed>>
        /\ wr_worker' = [wr_worker EXCEPT ![w] = "exit"] /\ Report(w, "SIGUSR2")
    BY <1>5 DEF Complete, wr_state
  <2>2. QED
    BY <1>1, <1>3, <2>1 DEF REPORTS, Workers
<1>6. QED
  BY <1>2, <1>4, <1>5 DEF WRWorker

\* parent_main.c:171-184: when nothing can wake the parent any more, the report it
\* sleeps for was never sent, coalesced with another one, or came between the test
\* of its flag and sigsuspend.
THEOREM ParentSleepsForAReason == WRSpec => []SleepsForAReason
<1>1. WRInit => Traced /\ AsleepWithCause
  BY DEF WRInit, Traced, AsleepWithCause, Workers
<1>2. ReportsInv /\ Traced /\ AsleepWithCause /\ [WRNext]_wr_vars
        => Traced' /\ AsleepWithCause'
  <2>1. Traced /\ AsleepWithCause /\ UNCHANGED wr_vars => Traced' /\ AsleepWithCause'
    BY DEF Traced, AsleepWithCause, Arrived, ParentGone, wr_vars, wr_state
  <2>2. QED
    BY <2>1, ParentTraces, HandlerTraces, WorkerTraces DEF WRNext
<1>3. ReportsInv /\ Traced /\ AsleepWithCause => SleepsForAReason
  <2> SUFFICES ASSUME ReportsInv, Traced, AsleepWithCause, wr_parent = "suspended",
                      \A w \in Workers : WorkerGone(w),
                      \A s \in REPORTS : wr_pending[s] = NoWorker,
                      ~NeverReported, ~NeededLost
               PROVE  SleptTooLate
    BY DEF SleepsForAReason
  <2>1. memory_warned_worker_3 /\ 1 \in worker_completed /\ 2 \in worker_completed
    BY DEF Traced, NeverReported, NeededLost, WorkerGone, ParentGone, REPORTS, Workers,
           NoWorker
  <2>2. QED
    BY <2>1 DEF AsleepWithCause, SleptTooLate, Arrived
<1>4. QED
  BY <1>1, <1>2, <1>3, ReportsInvariant, PTL DEF WRSpec

-----------------------------------------------------------------------------
(* Part2 and Part3: the test of one worker.                                *)

\* A signal is sent once, at its place in the worker's program.
SentOnce ==
  /\ wt_worker \in {"none", "open", "check"} => sent = {}
  /\ "USR2" \in sent => wt_worker \in {"exit", "exited"}
  /\ wt_parent = "fork" => wt_worker = "none"

\* Part2: what was sent is pending or received, and after waitpid all is sent.
Flags ==
  part = 2 =>
    /\ handlers = <<>> /\ signals_received = 0
    /\ received \cup wt_pending = sent
    /\ wt_parent \in {"fork", "waitpid", "verdict", "success", "failure"}
    /\ wt_parent \in {"verdict", "success"} => wt_worker = "exited"
    /\ wt_parent = "success" => "USR2" \in sent
    /\ wt_parent = "failure" => wt_worker \in {"none", "exited"} /\ "USR2" \notin sent

\* Part3: the signals whose handlers were entered, and what they have counted.
Taken == sent \ wt_pending
Counts ==
  part = 3 =>
    \/ Taken = {} /\ handlers = <<>> /\ signals_received = 0
    \/ /\ Taken \in {{"USR1"}, {"USR2"}}
       /\ \/ Len(handlers) = 1 /\ handlers[1] = 0 /\ signals_received = 0
          \/ handlers = <<>> /\ signals_received = 1
    \/ /\ Taken = SENT
       /\ \/ /\ Len(handlers) = 2 /\ handlers[1] = 0 /\ handlers[2] = 0
             /\ signals_received = 0
          \/ Len(handlers) = 1 /\ signals_received = 1
          \/ handlers = <<>> /\ signals_received \in 1..2

WTInv == WTTypeOK /\ SentOnce /\ Flags /\ Counts

LEMMA WTInitInv == WTInit => WTInv
BY MaxReadsAssumption DEF WTInit, WTInv, WTTypeOK, SentOnce, Flags, Counts, Taken

\* The worker counts nothing: what it sends is pending.
LEMMA WTWorkerStep == ASSUME WTInv, WTWorker PROVE WTInv'
<1> USE DEF WTInv, WTTypeOK, SentOnce, Flags, Counts, Taken, WTWorkerGoto,
        SendNothing, Send, wt_counters, SENT
<1>1. CASE WTOpen
  BY <1>1 DEF WTOpen
<1>2. CASE CheckMemory
  BY <1>2 DEF CheckMemory
<1>3. CASE AllocateData
  BY <1>3 DEF AllocateData
<1>4. CASE WTRead
  <2>1. reads' \in 0..MAX_READS
    BY <1>4, MaxReadsAssumption DEF WTRead
  <2>2. CASE wt_worker' = "exited" /\ SendNothing
    BY <1>4, <2>1, <2>2 DEF WTRead
  <2>3. CASE UNCHANGED wt_worker /\ SendNothing
    BY <1>4, <2>1, <2>3 DEF WTRead
  <2>4. CASE UNCHANGED wt_worker /\ "USR1" \notin sent /\ Send("USR1")
    BY <1>4, <2>1, <2>4 DEF WTRead
  <2>5. QED
    BY <1>4, <2>2, <2>3, <2>4 DEF WTRead
<1>5. CASE WTComplete
  BY <1>5 DEF WTComplete
<1>6. CASE WTExit
  BY <1>6 DEF WTExit
<1>7. QED
  BY <1>1, <1>2, <1>3, <1>4, <1>5, <1>6 DEF WTWorker

\* The end of a handler writes one more than what it had read.
LEMMA WTLeaveStep == ASSUME WTInv, LeaveHandler PROVE WTInv'
<1> USE DEF WTInv, WTTypeOK, SentOnce, Flags, Counts, Taken, SENT
<1>1. part = 3 /\ Len(handlers) \in 1..2
  BY DEF LeaveHandler
<1>2. /\ handlers' = Front(handlers) /\ signals_received' = Last(handlers) + 1
      /\ mishaps' \subseteq {"nested", "late"} /\ UNCHANGED Taken
  BY DEF LeaveHandler
<1>3. /\ Last(handlers) = handlers[Len(handlers)]
      /\ Front(handlers) \in Seq(0..1)
      /\ Len(Front(handlers)) = Len(handlers) - 1
      /\ \A i \in 1..(Len(handlers) - 1) : Front(handlers)[i] = handlers[i]
  BY <1>1 DEF Last, Front
<1>4. Len(handlers) = 1 => handlers' = <<>>
  BY <1>2, <1>3
<1>5. handlers[Len(handlers)] \in 0..1
  BY <1>1
<1>6. Counts'
  BY <1>1, <1>2, <1>3, <1>4, <1>5
<1>7. handlers' \in Seq(0..1) /\ signals_received' \in 0..2
  BY <1>1, <1>2, <1>3, <1>5
<1>8. QED
  BY <1>1, <1>2, <1>6, <1>7 DEF LeaveHandler

\* A handler counts the signal that it was entered for.
LEMMA WTEnterStep ==
  ASSUME WTInv, NEW s \in SENT, EnterHandler(s) PROVE WTInv'
<1> USE DEF WTInv, WTTypeOK, SentOnce, Flags, Counts, Taken, SENT
<1>1. /\ part = 3 /\ s \in wt_pending /\ s \in sent
      /\ Taken' = Taken \cup {s} /\ s \notin Taken
  BY DEF EnterHandler
<1>2. /\ handlers' = Append(handlers, signals_received)
      /\ UNCHANGED signals_received /\ mishaps' \subseteq {"nested", "late"}
  BY DEF EnterHandler
<1>3. signals_received \in 0..1 /\ Len(handlers) \in 0..1
  BY <1>1
<1>4. /\ Len(handlers') = Len(handlers) + 1 /\ handlers' \in Seq(0..1)
      /\ handlers'[Len(handlers) + 1] = signals_received
      /\ \A i \in 1..Len(handlers) : handlers'[i] = handlers[i]
  BY <1>2, <1>3
<1>5. CASE Taken = {}
  <2>1. Taken' \in {{"USR1"}, {"USR2"}}
    BY <1>1, <1>5
  <2>2. Len(handlers') = 1 /\ handlers'[1] = 0 /\ signals_received' = 0
    BY <1>1, <1>2, <1>4, <1>5
  <2>3. Counts'
    BY <2>1, <2>2
  <2>4. QED
    BY <1>1, <1>2, <1>3, <1>4, <2>3 DEF EnterHandler
<1>6. CASE Taken \in {{"USR1"}, {"USR2"}}
  <2>1. Taken' = SENT
    BY <1>1, <1>6
  <2>2. \/ Len(handlers) = 1 /\ handlers[1] = 0 /\ signals_received = 0
        \/ Len(handlers) = 0 /\ signals_received = 1
    BY <1>1, <1>6
  <2>3. Counts'
    BY <1>2, <1>4, <2>1, <2>2
  <2>4. QED
    BY <1>1, <1>2, <1>3, <1>4, <2>3 DEF EnterHandler
<1>7. QED
  BY <1>1, <1>5, <1>6, <1>2, <1>3, <1>4 DEF EnterHandler

\* The parents, and the handler of Part2, which only sets a flag.
LEMMA WTParentStep ==
  ASSUME WTInv, WTParent \/ \E s \in SENT : Deliver2(s) PROVE WTInv'
<1> USE DEF WTInv, WTTypeOK, SentOnce, Flags, Counts, Taken, WTWorkerGoto, WTGoto,
        wt_counters, SENT, WTParentGone
<1>1. CASE WTFork
  BY <1>1 DEF WTFork
<1>2. CASE WTWaitpid
  BY <1>2 DEF WTWaitpid
<1>3. CASE Verdict
  BY <1>3 DEF Verdict
<1>4. CASE TestCount
  BY <1>4 DEF TestCount
<1>5. CASE Pause
  BY <1>5 DEF Pause
<1>6. CASE WTReap
  BY <1>6 DEF WTReap
<1>7. ASSUME NEW s \in SENT, Deliver2(s) PROVE WTInv'
  BY <1>7 DEF Deliver2
<1>8. QED
  BY <1>1, <1>2, <1>3, <1>4, <1>5, <1>6, <1>7 DEF WTParent

\* Part2/test_worker_main.c:19-35, 117-161; Part3/test_worker_main.c:18-23:
\* where the signals of the worker are, and what the parent has counted.
THEOREM WorkerTestInvariant == WTSpec => []WTInv
<1>1. WTInv /\ UNCHANGED wt_vars => WTInv'
  BY DEF WTInv, WTTypeOK, SentOnce, Flags, Counts, Taken, wt_vars, wt_counters
<1>2. WTInv /\ [WTNext]_wt_vars => WTInv'
  BY <1>1, WTWorkerStep, WTLeaveStep, WTEnterStep, WTParentStep DEF WTNext, WTHandler
<1>3. QED
  BY <1>2, WTInitInv, PTL DEF WTSpec

-----------------------------------------------------------------------------
(* What keeps the parent of Part3 in pause.                                *)

\* Without nesting both signals are counted, the second perhaps not yet.
Counted ==
  part = 3 /\ Taken = SENT /\ "nested" \notin mishaps =>
    \/ handlers = <<>> /\ signals_received = 2
    \/ Len(handlers) = 1 /\ handlers[1] = 1

\* The parent pauses on a count that was not complete when it looked.
PausedWithCause ==
  part = 3 /\ wt_parent \in {"pause", "paused"} /\ signals_received = 2
    => "late" \in mishaps

LEMMA WTEnterCounts ==
  ASSUME WTInv, Counted, PausedWithCause, NEW s \in SENT, EnterHandler(s)
  PROVE  Counted' /\ PausedWithCause'
<1> USE DEF WTInv, WTTypeOK, Counts, Taken, SENT
<1>1. /\ handlers' = Append(handlers, signals_received)
      /\ handlers # <<>> => "nested" \in mishaps'
      /\ mishaps \subseteq mishaps' /\ UNCHANGED <<part, wt_parent, signals_received>>
      /\ Taken' = Taken \cup {s} /\ s \notin Taken /\ part = 3
  BY DEF EnterHandler
<1>2. PausedWithCause'
  BY <1>1 DEF PausedWithCause
<1>3. CASE handlers = <<>> /\ Taken' = SENT
  <2>1. signals_received = 1
    BY <1>1, <1>3
  <2>2. Len(handlers') = 1 /\ handlers'[1] = 1
    BY <1>1, <1>3, <2>1
  <2>3. QED
    BY <1>2, <2>2 DEF Counted
<1>4. CASE handlers # <<>> \/ Taken' # SENT
  BY <1>1, <1>2, <1>4 DEF Counted
<1>5. QED
  BY <1>3, <1>4

LEMMA WTLeaveCounts ==
  ASSUME WTInv, Counted, PausedWithCause, LeaveHandler
  PROVE  Counted' /\ PausedWithCause'
<1> USE DEF WTInv, WTTypeOK, Flags, Counts, Taken, SENT
<1>1. part = 3 /\ Len(handlers) \in 1..2
  BY DEF LeaveHandler
<1>2. /\ handlers' = Front(handlers) /\ signals_received' = Last(handlers) + 1
      /\ mishaps \subseteq mishaps' /\ UNCHANGED <<part, sent, wt_pending>>
      /\ wt_parent = "pause" => "late" \in mishaps'
      /\ wt_parent' = IF wt_parent = "paused" THEN "test" ELSE wt_parent
  BY DEF LeaveHandler
<1>3. Last(handlers) = handlers[Len(handlers)] /\ Len(handlers') = Len(handlers) - 1
  BY <1>1, <1>2 DEF Last, Front
<1>4. PausedWithCause'
  BY <1>2 DEF PausedWithCause
<1>5. ASSUME Taken' = SENT, "nested" \notin mishaps'
      PROVE  handlers' = <<>> /\ signals_received' = 2
  <2>0. handlers # <<>> /\ Taken = SENT /\ "nested" \notin mishaps
    BY <1>1, <1>2, <1>5
  <2>1. Len(handlers) = 1 /\ handlers[1] = 1
    BY <1>1, <2>0, Zenon DEF Counted
  <2>2. Len(handlers') = 0 /\ signals_received' = 2
    BY <1>2, <1>3, <2>1
  <2>3. handlers' = <<>>
    BY <1>1, <1>2, <2>1, <2>2 DEF Front
  <2>4. QED
    BY <2>2, <2>3
<1>6. QED
  BY <1>4, <1>5 DEF Counted

\* Nothing else changes the count; TestCount goes to pause only below 2.
LEMMA WTOthersCount ==
  ASSUME WTInv, Counted, PausedWithCause,
         WTWorker \/ WTParent \/ \E s \in SENT : Deliver2(s)
  PROVE  Counted' /\ PausedWithCause'
<1> USE DEF WTInv, WTTypeOK, SentOnce, Taken, SENT, WTGoto
<1>1. UNCHANGED <<part, signals_received, handlers, mishaps>>
  BY DEF WTWorker, WTOpen, CheckMemory, AllocateData, WTRead, WTComplete, WTExit,
     WTParent, WTFork, WTWaitpid, Verdict, TestCount, Pause, WTReap, Deliver2, wt_counters
<1>2. part = 3 => Taken' = Taken
  BY DEF WTWorker, WTOpen, CheckMemory, AllocateData, WTRead, WTComplete, WTExit,
     WTParent, WTFork, WTWaitpid, Verdict, TestCount, Pause, WTReap, Deliver2, Send,
     SendNothing, WTWorkerGoto
<1>3. Counted'
  BY <1>1, <1>2 DEF Counted
<1>4. wt_parent' \in {"pause", "paused"} =>
        wt_parent \in {"pause", "paused"} \/ signals_received < 2
  BY DEF WTWorker, WTOpen, CheckMemory, AllocateData, WTRead, WTComplete, WTExit,
     WTParent, WTFork, WTWaitpid, Verdict, TestCount, Pause, WTReap, Deliver2
<1>5. PausedWithCause'
  BY <1>1, <1>4 DEF PausedWithCause
<1>6. QED
  BY <1>3, <1>5

\* Part2 gives the right verdict, and Part3 stays in pause only if it was not sent
\* both signals or one of two races was lost: a handler interrupted the other
\* one within ++dhsb_signals_received, or ended between the test and pause.
THEOREM WorkerTestCounts == WTSpec => []SignalsCount
<1>1. WTInit => Counted /\ PausedWithCause
  BY DEF WTInit, Counted, PausedWithCause, Taken, SENT
<1>2. WTInv /\ Counted /\ PausedWithCause /\ [WTNext]_wt_vars
        => Counted' /\ PausedWithCause'
  <2>1. Counted /\ PausedWithCause /\ UNCHANGED wt_vars => Counted' /\ PausedWithCause'
    BY DEF Counted, PausedWithCause, Taken, wt_vars, wt_counters
  <2>2. QED
    BY <2>1, WTEnterCounts, WTLeaveCounts, WTOthersCount DEF WTNext, WTHandler
<1>3. WTInv /\ Counted /\ PausedWithCause => SignalsCount
  <2> SUFFICES ASSUME WTInv, Counted, PausedWithCause PROVE SignalsCount
    OBVIOUS
  <2>1. VerdictIsTrue
    BY DEF WTInv, Flags, VerdictIsTrue
  <2>2. ASSUME wt_parent = "paused", wt_pending = {}, handlers = <<>>, sent = SENT
        PROVE  mishaps # {}
    <3>1. part = 3 /\ Taken = SENT
      BY <2>2 DEF WTInv, WTTypeOK, Flags, Taken
    <3>2. QED
      BY <2>2, <3>1 DEF Counted, PausedWithCause
  <2>3. QED
    BY <2>1, <2>2 DEF SignalsCount, PausesForAReason
<1>4. QED
  BY <1>1, <1>2, <1>3, WorkerTestInvariant, PTL DEF WTSpec
=============================================================================
