------------------------- MODULE ScanLifecycleProofs -------------------------
(***************************************************************************)
(* Proofs about ScanLifecycle for every set of scans, submits, tasks and   *)
(* operator calls, on either path and under every fault.                   *)
(***************************************************************************)
EXTENDS ScanLifecycle, TLAPS

(* What TypeOK, RowConsistent and ChargedHasResult need to be inductive.   *)

\* What every update keeps: a result is never taken away, and a row that
\* tells one story tells one afterwards.
OneStory(r) == /\ r.status = "complete" => r.payload # NoScan /\ ~r.reason
               /\ r.status = "failed" => r.reason

Grows(r, q) == /\ q \in Row
               /\ r.payload # NoScan => q.payload # NoScan
               /\ OneStory(r) => OneStory(q)

\* A task that is not idle works on a scan; one about to store a result has
\* chosen whose; one about to charge comes from the completion write.
TaskOK(t) == /\ run[t].pc # "idle" => run[t].scan \in Scans
             /\ run[t].pc = "store" => run[t].src \in Scans
             /\ run[t].pc = "charge" => row[run[t].scan].payload # NoScan

TasksOK == \A t \in Tasks : TaskOK(t)

\* An operator call that read its row knows which one.
OperatorsOK ==
  \A a \in AdminCalls : adm[a].op \in {"retry", "fail"} => adm[a].scan \in Scans

\* Only an active job is locked; a job that has not failed has an attempt left.
JobsOK ==
  \A s \in Scans : /\ job[s].owner # NoTask => job[s].state = "active"
                   /\ job[s].state # "failed" => job[s].attempts < MaxAttempts

\* The lock holder of a job is a task busy with that very scan, in the
\* processor: a task that lost its lock can no longer settle the job.
LockedByItsTask ==
  \A s \in Scans : \A t \in Tasks :
    job[s].owner = t => /\ job[s].state = "active"
                        /\ run[t].scan = s
                        /\ run[t].pc \notin {"idle", "mark", "markwrite"}

IInv == /\ TypeOK
        /\ TasksOK
        /\ OperatorsOK
        /\ JobsOK
        /\ LockedByItsTask
        /\ RowConsistent
        /\ ChargedHasResult
-----------------------------------------------------------------------------
LEMMA InitIInv == Init => IInv
<1> USE Constants
<1> SUFFICES ASSUME Init PROVE IInv
  OBVIOUS
<1>1. TypeOK
  BY DEF Init, TypeOK, Row, NewRow, Job, NoJob, Run, NoRun, Activation, AdmStates,
         NoAdm, Statuses, JobStates, SubStates, Pcs, MaxAttempts, MaxStalls
<1>2. TasksOK /\ OperatorsOK
  BY DEF Init, TasksOK, TaskOK, OperatorsOK, NoRun, Activation, NoAdm
<1>3. JobsOK /\ LockedByItsTask
  BY DEF Init, JobsOK, LockedByItsTask, NoJob, MaxAttempts
<1>4. RowConsistent /\ ChargedHasResult
  BY DEF Init, RowConsistent, ChargedHasResult, NewRow
<1> QED
  BY <1>1, <1>2, <1>3, <1>4 DEF IInv
-----------------------------------------------------------------------------
(* Rows. Every update of a row is one of six, and each of them grows it.   *)

LEMMA ColumnsGrow ==
  ASSUME NEW r \in Row, NEW src \in Scans, NEW n \in 0..MaxAttempts
  PROVE  /\ Grows(r, r)
         /\ Grows(r, Queued(r))
         /\ Grows(r, Processing(r))
         /\ Grows(r, Completed(r, src)) /\ Completed(r, src).payload = src
         /\ Grows(r, MarkedFailed(r, n))
         /\ Grows(r, Retried(r))
         /\ Grows(r, KilledByAdmin(r))
<1> USE Constants DEF Grows, OneStory, Row, Statuses, MaxAttempts
<1>1. Grows(r, r) /\ Grows(r, Queued(r)) /\ Grows(r, Processing(r))
  BY DEF Queued, Processing
<1>2. Grows(r, Completed(r, src)) /\ Completed(r, src).payload = src
  BY DEF Completed
<1>3. Grows(r, MarkedFailed(r, n))
  BY DEF MarkedFailed
<1>4. Grows(r, KilledByAdmin(r))
  BY DEF KilledByAdmin
<1>5. \A i \in 0..MaxAttempts :
        Grows(r, [r EXCEPT !.status = "queued", !.reason = FALSE,
                           !.attempts = i])
  OBVIOUS
<1>6. Grows(r, Retried(r))
  <2> 0 \in 0..MaxAttempts
    OBVIOUS
  <2> QED
    BY ONLY <1>5, 0 \in 0..MaxAttempts DEF Retried
<1> QED
  BY <1>1, <1>2, <1>3, <1>4, <1>6

RowsGrow == /\ row' \in [Scans -> Row]
            /\ \A s \in Scans : Grows(row[s], row'[s])

LEMMA UpdateGrows ==
  ASSUME row \in [Scans -> Row], NEW s \in Scans, NEW r, Grows(row[s], r),
         NEW accepted,
         UpdateScan(s, r, accepted) \/ UpdateScanFails(s, r, accepted)
  PROVE  RowsGrow
<1>1. row' = row \/ row' = [row EXCEPT ![s] = r]
  BY DEF UpdateScan, UpdateScanFails
<1>2. r \in Row
  BY DEF Grows
<1>3. \A p \in Scans : Grows(row[p], row[p])
  BY DEF Grows
<1>4. CASE row' = row
  BY <1>3, <1>4 DEF RowsGrow
<1>5. CASE row' = [row EXCEPT ![s] = r]
  <2>1. row' \in [Scans -> Row]
    BY <1>2, <1>5
  <2>2. \A p \in Scans : row'[p] = IF p = s THEN r ELSE row[p]
    BY <1>5
  <2> QED
    BY <2>1, <2>2, <1>3 DEF RowsGrow
<1> QED
  BY <1>1, <1>4, <1>5

\* The histories name scans.
HistoryOK == raced \subseteq Scans /\ stranded \subseteq Scans

LEMMA UpdateNamesScans ==
  ASSUME raced \subseteq Scans, NEW s \in Scans, NEW r, NEW accepted,
         UpdateScan(s, r, accepted) \/ UpdateScanFails(s, r, accepted)
  PROVE  raced' \subseteq Scans
BY DEF UpdateScan, UpdateScanFails

LEMMA SameRowsGrow ==
  ASSUME row \in [Scans -> Row], UNCHANGED row
  PROVE  RowsGrow
BY DEF RowsGrow, Grows

\* The rows part of the invariant, for a step that only grows rows and
\* charges nothing.
LEMMA RowsStep ==
  ASSUME IInv, RowsGrow, UNCHANGED ledger
  PROVE  RowConsistent' /\ ChargedHasResult'
BY DEF IInv, RowsGrow, Grows, OneStory, RowConsistent, ChargedHasResult
-----------------------------------------------------------------------------
(* Tasks. A step moves at most one of them.                                *)

OnlyMoves(t) == /\ run' \in [Tasks -> Run]
                /\ \A u \in Tasks \ {t} : run'[u] = run[u]

LEMMA GotoMoves ==
  ASSUME run \in [Tasks -> Run], NEW t \in Tasks, NEW pc \in Pcs, Goto(t, pc)
  PROVE  /\ OnlyMoves(t)
         /\ run'[t].pc = pc
         /\ run'[t].scan = run[t].scan
         /\ run'[t].src = run[t].src
         /\ run'[t].seen = run[t].seen
         /\ run'[t].made = run[t].made
BY DEF Goto, OnlyMoves, Run

LEMMA ReturnMoves ==
  ASSUME run \in [Tasks -> Run], NEW t \in Tasks, Return(t)
  PROVE  /\ OnlyMoves(t)
         /\ run'[t] = NoRun
BY DEF Return, OnlyMoves, Run, NoRun, Activation, Pcs, Statuses, MaxAttempts

LEMMA FreshRun ==
  ASSUME NEW s \in Scans, NEW pc \in {"start", "read"}
  PROVE  Activation(pc, s) \in Run
BY DEF Activation, Run, Pcs, Statuses, MaxAttempts

LEMMA TaskStepOK ==
  ASSUME IInv, RowsGrow, NEW t \in Tasks, OnlyMoves(t), TaskOK(t)'
  PROVE  TasksOK'
BY DEF IInv, RowsGrow, Grows, OnlyMoves, TasksOK, TaskOK

LEMMA SameTasksOK ==
  ASSUME IInv, RowsGrow, UNCHANGED run
  PROVE  TasksOK' /\ run' \in [Tasks -> Run]
BY DEF IInv, TypeOK, RowsGrow, Grows, TasksOK, TaskOK

-----------------------------------------------------------------------------
(* Jobs. A step touches at most one of them, and a lock is only ever taken *)
(* by Claim.                                                               *)

JobOK(j) == /\ j \in Job
            /\ j.owner # NoTask => j.state = "active"
            /\ j.state # "failed" => j.attempts < MaxAttempts

\* The job part of the invariant, for a step that leaves every job in order.
LEMMA JobsStep ==
  ASSUME DOMAIN job' = Scans, job' = [s \in Scans |-> job'[s]],
         \A s \in Scans : JobOK(job'[s])
  PROVE  job' \in [Scans -> Job] /\ JobsOK'
BY DEF JobOK, JobsOK

\* A step that keeps every job, and every lock holder busy.
LEMMA LockKept ==
  ASSUME IInv, UNCHANGED job, NEW t \in Tasks, OnlyMoves(t),
         \/ run[t].pc \in {"idle", "mark", "markwrite"}
         \/ /\ run'[t].pc \notin {"idle", "mark", "markwrite"}
            /\ run'[t].scan = run[t].scan
  PROVE  LockedByItsTask'
BY DEF IInv, OnlyMoves, LockedByItsTask

\* A step of a task after which it holds no lock.
LEMMA LockReleased ==
  ASSUME IInv, NEW t \in Tasks, OnlyMoves(t),
         \A s \in Scans : job'[s].owner \in Tasks =>
           job'[s] = job[s] /\ job'[s].owner # t
  PROVE  LockedByItsTask'
BY DEF IInv, OnlyMoves, LockedByItsTask

\* A task holds the lock of at most the scan it works on.
LEMMA OneLock ==
  ASSUME IInv, NEW t \in Tasks, NEW s \in Scans, job[s].owner = t
  PROVE  run[t].scan = s /\ job[s].state = "active"
BY DEF IInv, LockedByItsTask
-----------------------------------------------------------------------------
(* The steps of submitScan.                                                *)

LEMMA SubmitKeeps ==
  ASSUME IInv, UNCHANGED path, NEW r \in Submits,
         SubmitCheck(r) \/ SubmitStep(r)
  PROVE  IInv'
<1> USE Constants
<1> DEFINE s == SubmitScan[r]
<1>0. s \in Scans /\ row \in [Scans -> Row] /\ run \in [Tasks -> Run]
  BY DEF IInv, TypeOK
<1>h. HistoryOK'
  BY <1>0, UpdateNamesScans
     DEF IInv, TypeOK, HistoryOK, SubmitCheck, SubmitStep, SubmitQueued, Enqueue,
         EnqueueFails, RunInline
<1>1. CASE SubmitCheck(r)
  <2>1. TypeOK'
    BY <1>1, <1>h DEF SubmitCheck, IInv, TypeOK, SubStates, HistoryOK
  <2>2. RowsGrow /\ UNCHANGED <<row, ledger, run, job, adm>>
    BY <1>0, <1>1, SameRowsGrow DEF SubmitCheck
  <2>3. TasksOK' /\ RowConsistent' /\ ChargedHasResult'
    BY <2>2, SameTasksOK, RowsStep
  <2>4. OperatorsOK' /\ JobsOK' /\ LockedByItsTask'
    BY <2>2 DEF IInv, OperatorsOK, JobsOK, LockedByItsTask
  <2> QED
    BY <2>1, <2>3, <2>4 DEF IInv
<1>2. CASE SubmitQueued(r)
  <2>1. RowsGrow /\ UNCHANGED <<ledger, run, job, adm>>
    <3>1. Grows(row[s], Queued(row[s]))
      BY <1>0, ColumnsGrow DEF MaxAttempts
    <3> QED
      BY <1>0, <1>2, <3>1, UpdateGrows DEF SubmitQueued
  <2>2. sub' \in [Submits -> SubStates]
    BY <1>2 DEF SubmitQueued, IInv, TypeOK, SubStates
  <2>3. TypeOK'
    BY <1>h, <2>1, <2>2 DEF RowsGrow, IInv, TypeOK, HistoryOK
  <2>4. TasksOK' /\ RowConsistent' /\ ChargedHasResult'
    BY <2>1, SameTasksOK, RowsStep
  <2>5. OperatorsOK' /\ JobsOK' /\ LockedByItsTask'
    BY <2>1 DEF IInv, OperatorsOK, JobsOK, LockedByItsTask
  <2> QED
    BY <2>3, <2>4, <2>5 DEF IInv
<1>3. CASE Enqueue(r)
  <2>1. RowsGrow /\ UNCHANGED <<row, ledger, run, adm>>
    BY <1>0, <1>3, SameRowsGrow DEF Enqueue
  <2>2. sub' \in [Submits -> SubStates]
    BY <1>3 DEF Enqueue, IInv, TypeOK, SubStates
  <2>3. job' \in [Scans -> Job] /\ JobsOK' /\ LockedByItsTask'
    BY <1>3, <1>0 DEF Enqueue, IInv, TypeOK, JobsOK, LockedByItsTask, Job,
                      NoJob, JobStates, MaxAttempts, MaxStalls
  <2>4. TasksOK' /\ RowConsistent' /\ ChargedHasResult'
    BY <2>1, SameTasksOK, RowsStep
  <2>5. TypeOK' /\ OperatorsOK'
    BY <1>h, <2>1, <2>2, <2>3 DEF IInv, TypeOK, OperatorsOK, HistoryOK
  <2> QED
    BY <2>3, <2>4, <2>5 DEF IInv
<1>4. CASE EnqueueFails(r)
  <2>1. TypeOK'
    BY <1>4, <1>h DEF EnqueueFails, IInv, TypeOK, SubStates, HistoryOK
  <2>2. RowsGrow /\ UNCHANGED <<row, ledger, run, job, adm>>
    BY <1>0, <1>4, SameRowsGrow DEF EnqueueFails
  <2>3. TasksOK' /\ RowConsistent' /\ ChargedHasResult'
    BY <2>2, SameTasksOK, RowsStep
  <2>4. OperatorsOK' /\ JobsOK' /\ LockedByItsTask'
    BY <2>2 DEF IInv, OperatorsOK, JobsOK, LockedByItsTask
  <2> QED
    BY <2>1, <2>3, <2>4 DEF IInv
<1>5. ASSUME NEW t \in Tasks, RunInline(r, t) PROVE IInv'
  <2>1. RowsGrow /\ UNCHANGED <<row, ledger, job, adm>>
    BY <1>0, <1>5, SameRowsGrow DEF RunInline
  <2>2. sub' \in [Submits -> SubStates]
    BY <1>5 DEF RunInline, IInv, TypeOK, SubStates
  <2>3. OnlyMoves(t) /\ run[t].pc = "idle" /\ run'[t].pc = "start"
        /\ run'[t].scan = s
    BY <1>0, <1>5, FreshRun DEF RunInline, OnlyMoves, Activation
  <2>6. TaskOK(t)'
    BY <1>0, <2>3 DEF TaskOK
  <2>4. TasksOK' /\ RowConsistent' /\ ChargedHasResult' /\ LockedByItsTask'
    BY <2>1, <2>3, <2>6, TaskStepOK, RowsStep, LockKept
  <2>5. TypeOK' /\ OperatorsOK' /\ JobsOK'
    BY <1>h, <2>1, <2>2, <2>3
       DEF OnlyMoves, IInv, TypeOK, OperatorsOK, JobsOK, HistoryOK
  <2> QED
    BY <2>4, <2>5 DEF IInv
<1> QED
  BY <1>1, <1>2, <1>3, <1>4, <1>5 DEF SubmitStep
-----------------------------------------------------------------------------
(* The steps of the queue and of Claim.                                    *)

LEMMA QueueKeeps ==
  ASSUME IInv, UNCHANGED path, NEW s \in Scans,
         QueueStep(s) \/ LoseLock(s) \/ Evict(s)
  PROVE  IInv'
<1> USE Constants
<1>0. row \in [Scans -> Row] /\ job \in [Scans -> Job] /\ job[s] \in Job
  BY DEF IInv, TypeOK
<1>1. RowsGrow /\ UNCHANGED <<row, ledger, sub, run, adm>>
  BY <1>0, SameRowsGrow DEF QueueStep, Backoff, StallCheck, LoseLock, Evict
<1>h. HistoryOK'
  BY DEF IInv, TypeOK, HistoryOK, QueueStep, Backoff, StallCheck, LoseLock,
         Evict, Strand
<1>2. TasksOK' /\ RowConsistent' /\ ChargedHasResult' /\ OperatorsOK'
  BY <1>1, SameTasksOK, RowsStep DEF IInv, OperatorsOK
<1>3. job' \in [Scans -> Job] /\ JobsOK' /\ LockedByItsTask'
  <2>1. CASE Backoff(s)
    BY <1>0, <1>1, <2>1 DEF Backoff, IInv, JobsOK, LockedByItsTask, Job,
                            JobStates
  <2>2. CASE StallCheck(s)
    <3>1. CASE job' = [job EXCEPT ![s].state = "waiting", ![s].stalls = @ + 1]
      <4>1. job[s].stalls < MaxStalls
        BY <2>2, <1>0, <3>1 DEF StallCheck, Job, JobStates
      <4> QED
      BY <1>0, <1>1, <2>2, <3>1, <4>1
         DEF StallCheck, IInv, JobsOK, LockedByItsTask, Job, JobStates,
             MaxStalls
    <3>2. CASE job' = [job EXCEPT ![s].state = "failed"]
      BY <1>0, <1>1, <2>2, <3>2
         DEF StallCheck, IInv, JobsOK, LockedByItsTask, Job, JobStates
    <3> QED
      BY <2>2, <3>1, <3>2 DEF StallCheck
  <2>3. CASE LoseLock(s)
    BY <1>0, <1>1, <2>3 DEF LoseLock, IInv, JobsOK, LockedByItsTask, Job
  <2>4. CASE Evict(s)
    BY <1>0, <1>1, <2>4 DEF Evict, IInv, JobsOK, LockedByItsTask, Job, NoJob,
                            JobStates, MaxAttempts, MaxStalls
  <2> QED
    BY <2>1, <2>2, <2>3, <2>4 DEF QueueStep
<1> QED
  BY <1>1, <1>2, <1>3, <1>h DEF IInv, TypeOK, HistoryOK

LEMMA ClaimKeeps ==
  ASSUME IInv, UNCHANGED path, NEW t \in Tasks, NEW s \in Scans, Claim(t, s)
  PROVE  IInv'
<1> USE Constants
<1>0. row \in [Scans -> Row] /\ run \in [Tasks -> Run]
      /\ job \in [Scans -> Job]
  BY DEF IInv, TypeOK
<1>1. RowsGrow /\ UNCHANGED <<row, ledger, sub, adm>>
  BY <1>0, SameRowsGrow DEF Claim
<1>2. OnlyMoves(t) /\ run[t].pc = "idle" /\ run'[t].pc = "read"
      /\ run'[t].scan = s
  BY <1>0, FreshRun DEF Claim, OnlyMoves, Activation
<1>3. TasksOK' /\ RowConsistent' /\ ChargedHasResult' /\ OperatorsOK'
  <2>1. TaskOK(t)'
    BY <1>2 DEF TaskOK
  <2> QED
    BY <1>1, <1>2, <2>1, TaskStepOK, RowsStep DEF IInv, OperatorsOK
<1>4. job' \in [Scans -> Job] /\ JobsOK'
  BY <1>0 DEF Claim, IInv, JobsOK, Job, JobStates
<1>5. LockedByItsTask'
  <2>1. \A p \in Scans : p # s => job'[p] = job[p] /\ job[p].owner # t
    BY <1>0, <1>2 DEF Claim, IInv, LockedByItsTask
  <2>2. job'[s].owner = t /\ job'[s].state = "active"
    BY <1>0 DEF Claim, Job
  <2> QED
    BY <1>2, <2>1, <2>2 DEF OnlyMoves, IInv, LockedByItsTask
<1>h. HistoryOK'
  BY DEF Claim, IInv, TypeOK, HistoryOK
<1> QED
  BY <1>1, <1>2, <1>3, <1>4, <1>5, <1>h DEF OnlyMoves, IInv, TypeOK, HistoryOK
-----------------------------------------------------------------------------
(* The operator's steps.                                                   *)

LEMMA OperatorKeeps ==
  ASSUME IInv, UNCHANGED path, NEW a \in AdminCalls,
         (\E s \in Scans : AdminRead(a, s)) \/ AdminRetry(a) \/ AdminFail(a)
  PROVE  IInv'
<1> USE Constants
<1>0. row \in [Scans -> Row] /\ adm \in [AdminCalls -> AdmStates]
      /\ UNCHANGED <<ledger, job, sub, run>>
  BY DEF IInv, TypeOK, AdminRead, AdminRetry, AdminFail
<1>1. RowsGrow /\ HistoryOK'
  <2> HistoryOK
    BY DEF IInv, TypeOK, HistoryOK
  <2>1. ASSUME NEW s \in Scans, AdminRead(a, s) PROVE RowsGrow /\ HistoryOK'
    BY <1>0, <2>1, SameRowsGrow DEF AdminRead, HistoryOK
  <2>2. CASE AdminRetry(a)
    <3>1. adm[a].scan \in Scans
      BY <2>2 DEF AdminRetry, IInv, OperatorsOK
    <3>2. Grows(row[adm[a].scan], Retried(row[adm[a].scan]))
      BY <1>0, <3>1, ColumnsGrow DEF MaxAttempts
    <3> QED
      BY <1>0, <2>2, <3>1, <3>2, UpdateGrows, UpdateNamesScans
         DEF AdminRetry, HistoryOK
  <2>3. CASE AdminFail(a)
    <3>1. adm[a].scan \in Scans
      BY <2>3 DEF AdminFail, IInv, OperatorsOK
    <3>2. Grows(row[adm[a].scan], KilledByAdmin(row[adm[a].scan]))
      BY <1>0, <3>1, ColumnsGrow DEF MaxAttempts
    <3> QED
      BY <1>0, <2>3, <3>1, <3>2, UpdateGrows, UpdateNamesScans
         DEF AdminFail, HistoryOK
  <2> QED
    BY <2>1, <2>2, <2>3
<1>2. adm' \in [AdminCalls -> AdmStates] /\ OperatorsOK'
  <2>1. ASSUME NEW s \in Scans, AdminRead(a, s)
        PROVE  adm' \in [AdminCalls -> AdmStates] /\ OperatorsOK'
    BY <1>0, <2>1 DEF AdminRead, AdmStates, IInv, OperatorsOK
  <2>2. CASE AdminRetry(a) \/ AdminFail(a)
    BY <1>0, <2>2 DEF AdminRetry, AdminFail, AdmStates, IInv, OperatorsOK
  <2> QED
    BY <2>1, <2>2
<1>3. TasksOK' /\ RowConsistent' /\ ChargedHasResult'
  BY <1>0, <1>1, SameTasksOK, RowsStep
<1>4. JobsOK' /\ LockedByItsTask'
  BY <1>0 DEF IInv, JobsOK, LockedByItsTask
<1> QED
  BY <1>0, <1>1, <1>2, <1>3, <1>4 DEF RowsGrow, IInv, TypeOK, HistoryOK
-----------------------------------------------------------------------------
(* The steps of a task.                                                    *)

\* Every step of a task leaves these alone.
LEMMA TaskFrame ==
  ASSUME NEW t \in Tasks, TaskStep(t) \/ Crash(t)
  PROVE  UNCHANGED <<sub, adm>>
BY DEF TaskStep, Crash, ReadRow, SkipSettled, MarkProcessing, Analyse,
       StoreResult, Charge, Ack, RetryLater, GiveUp, ThrowWithoutJob,
       MarkRead, MarkWrite

LEMMA TaskHistory ==
  ASSUME IInv, NEW t \in Tasks, TaskStep(t) \/ Crash(t)
  PROVE  HistoryOK'
<1> DEFINE s == run[t].scan
<1>0. HistoryOK /\ (run[t].pc # "idle" => s \in Scans)
  BY DEF IInv, TypeOK, HistoryOK, TasksOK, TaskOK
<1>1. CASE MarkProcessing(t) \/ StoreResult(t)
  BY <1>0, <1>1, UpdateNamesScans DEF MarkProcessing, StoreResult, HistoryOK
<1>2. CASE MarkWrite(t)
  BY <1>0, <1>2, UpdateNamesScans DEF MarkWrite, HistoryOK, Strand
<1>3. CASE MarkRead(t) \/ Crash(t)
  BY <1>0, <1>3 DEF MarkRead, Crash, HistoryOK, Strand
<1>4. CASE \/ ReadRow(t) \/ SkipSettled(t) \/ Analyse(t) \/ Charge(t) \/ Ack(t)
           \/ RetryLater(t) \/ GiveUp(t) \/ ThrowWithoutJob(t)
  BY <1>0, <1>4 DEF HistoryOK, ReadRow, SkipSettled, Analyse, Charge, Ack,
                    RetryLater, GiveUp, ThrowWithoutJob
<1> QED
  BY <1>1, <1>2, <1>3, <1>4 DEF TaskStep

\* Steps that move a task along without its job, to a place other than the
\* charge; the row may grow.
LEMMA AlongKeeps ==
  ASSUME IInv, UNCHANGED <<path, sub, adm, job, ledger>>, RowsGrow, HistoryOK',
         NEW t \in Tasks, OnlyMoves(t), TaskOK(t)',
         \/ run[t].pc \in {"idle", "mark", "markwrite"}
         \/ /\ run'[t].pc \notin {"idle", "mark", "markwrite"}
            /\ run'[t].scan = run[t].scan
  PROVE  IInv'
<1>1. TasksOK' /\ RowConsistent' /\ ChargedHasResult' /\ LockedByItsTask'
  BY TaskStepOK, RowsStep, LockKept
<1>2. TypeOK' /\ OperatorsOK' /\ JobsOK'
  BY DEF OnlyMoves, RowsGrow, IInv, TypeOK, OperatorsOK, JobsOK, HistoryOK
<1> QED
  BY <1>1, <1>2 DEF IInv

\* Steps that end a task's hold on its job.
LEMMA SettleKeeps ==
  ASSUME IInv, UNCHANGED <<path, sub, adm, row, ledger>>, HistoryOK',
         NEW t \in Tasks, OnlyMoves(t), TaskOK(t)',
         NEW s \in Scans, job[s].owner = t,
         NEW j, JobOK(j), j.owner = NoTask, job' = [job EXCEPT ![s] = j]
  PROVE  IInv'
<1> USE Constants
<1>0. job \in [Scans -> Job] /\ row \in [Scans -> Row]
  BY DEF IInv, TypeOK
<1>1. RowsGrow
  BY <1>0, SameRowsGrow
<1>2. TasksOK' /\ RowConsistent' /\ ChargedHasResult'
  BY <1>1, TaskStepOK, RowsStep
<1>3. \A p \in Scans : job[p].owner = t => p = s
  BY OneLock
<1>4. job' \in [Scans -> Job] /\ JobsOK'
  BY <1>0 DEF JobOK, JobsOK, IInv
<1>5. \A p \in Scans : job'[p].owner \in Tasks =>
        job'[p] = job[p] /\ job'[p].owner # t
  BY <1>0, <1>3
<1>6. LockedByItsTask'
  BY <1>5, LockReleased
<1>7. TypeOK' /\ OperatorsOK'
  BY <1>1, <1>4 DEF OnlyMoves, IInv, TypeOK, OperatorsOK, HistoryOK
<1> QED
  BY <1>2, <1>4, <1>6, <1>7 DEF IInv

\* Steps of a task that holds no lock.
LEMMA NoLockKeeps ==
  ASSUME IInv, UNCHANGED <<path, sub, adm, row, ledger, job>>, HistoryOK',
         NEW t \in Tasks, OnlyMoves(t), TaskOK(t)',
         job[run[t].scan].owner # t
  PROVE  IInv'
<1>1. RowsGrow
  BY SameRowsGrow DEF IInv, TypeOK
<1>2. TasksOK' /\ RowConsistent' /\ ChargedHasResult'
  BY <1>1, TaskStepOK, RowsStep
<1>3. LockedByItsTask'
  BY OneLock, LockReleased
<1>4. TypeOK' /\ OperatorsOK' /\ JobsOK'
  BY DEF OnlyMoves, IInv, TypeOK, OperatorsOK, JobsOK, HistoryOK
<1> QED
  BY <1>2, <1>3, <1>4 DEF IInv

LEMMA TaskKeeps ==
  ASSUME IInv, UNCHANGED path, NEW t \in Tasks, TaskStep(t) \/ Crash(t)
  PROVE  IInv'
<1> USE Constants
<1> DEFINE s == run[t].scan
<1>0. /\ run \in [Tasks -> Run] /\ run[t] \in Run
      /\ row \in [Scans -> Row] /\ job \in [Scans -> Job]
      /\ ledger \in [Scans -> Nat]
  BY DEF IInv, TypeOK
<1>a. UNCHANGED <<sub, adm>> /\ HistoryOK'
  BY TaskFrame, TaskHistory
<1>b. ASSUME run[t].pc # "idle" PROVE s \in Scans /\ row[s] \in Row /\ job[s] \in Job
  BY <1>0, <1>b DEF IInv, TasksOK, TaskOK
<1>r. ASSUME UNCHANGED row PROVE RowsGrow
  BY <1>0, <1>r, SameRowsGrow
<1>g. ASSUME NEW pc \in Pcs \ {"store", "charge"}, Goto(t, pc), run[t].pc # "idle"
      PROVE  OnlyMoves(t) /\ TaskOK(t)' /\ run'[t].pc = pc /\ run'[t].scan = s
  BY <1>0, <1>b, <1>g, GotoMoves DEF TaskOK
<1>e. ASSUME Return(t)
      PROVE  OnlyMoves(t) /\ TaskOK(t)' /\ run'[t].pc = "idle"
  BY <1>0, <1>e, ReturnMoves DEF TaskOK, NoRun, Activation
<1>m. ASSUME NEW n \in 0..MaxAttempts, run[t].pc # "idle",
             run' = [run EXCEPT ![t].pc = "mark", ![t].made = n]
      PROVE  OnlyMoves(t) /\ TaskOK(t)' /\ run'[t].pc = "mark"
  <2>1. run' \in [Tasks -> Run]
    BY <1>0, <1>m DEF Run, Pcs
  <2>2. run'[t].pc = "mark" /\ run'[t].scan = s
        /\ \A u \in Tasks \ {t} : run'[u] = run[u]
    BY <1>0, <1>m DEF Run
  <2> QED
    BY <1>b, <1>m, <2>1, <2>2 DEF OnlyMoves, TaskOK
<1>1. CASE ReadRow(t)
  <2>1. UNCHANGED <<row, ledger, job>> /\ run[t].pc = "read"
    BY <1>1 DEF ReadRow
  <2>2. row[s].status \in Statuses
    BY <1>b, <2>1 DEF Row
  <2>3. OnlyMoves(t) /\ TaskOK(t)' /\ run'[t].scan = s
        /\ run'[t].pc \in {"start", "fail"}
    <3>1. CASE Goto(t, "fail")
      BY <1>g, <2>1, <3>1 DEF Pcs
    <3>2. CASE run' = [run EXCEPT ![t].pc = "start", ![t].seen = row[s].status]
      <4>1. run' \in [Tasks -> Run]
        BY <1>0, <2>2, <3>2 DEF Run, Pcs
      <4>2. run'[t].pc = "start" /\ run'[t].scan = s
            /\ \A u \in Tasks \ {t} : run'[u] = run[u]
        BY <1>0, <3>2 DEF Run
      <4> QED
        BY <1>b, <2>1, <4>1, <4>2 DEF OnlyMoves, TaskOK
    <3> QED
      BY <1>1, <3>1, <3>2 DEF ReadRow
  <2> QED
    BY <1>a, <1>r, <2>1, <2>3, AlongKeeps
<1>2. CASE SkipSettled(t)
  <2>1. UNCHANGED <<row, ledger, job>> /\ run[t].pc = "start" /\ Goto(t, "ack")
    BY <1>2 DEF SkipSettled
  <2>2. OnlyMoves(t) /\ TaskOK(t)' /\ run'[t].pc = "ack" /\ run'[t].scan = s
    BY <1>g, <2>1 DEF Pcs
  <2> QED
    BY <1>a, <1>r, <2>1, <2>2, AlongKeeps
<1>3. CASE MarkProcessing(t)
  <2>1. UNCHANGED <<ledger, job>> /\ run[t].pc = "start"
        /\ (Goto(t, "work") \/ Goto(t, "fail"))
    BY <1>3 DEF MarkProcessing
  <2>2. Grows(row[s], Processing(row[s]))
    BY <1>b, <2>1, ColumnsGrow DEF MaxAttempts
  <2>3. RowsGrow
    BY <1>0, <1>b, <1>3, <2>1, <2>2, UpdateGrows DEF MarkProcessing
  <2>4. OnlyMoves(t) /\ TaskOK(t)' /\ run'[t].pc \in {"work", "fail"}
        /\ run'[t].scan = s
    BY <1>g, <2>1 DEF Pcs
  <2> QED
    BY <1>a, <2>1, <2>3, <2>4, AlongKeeps
<1>4. CASE Analyse(t)
  <2>1. UNCHANGED <<row, ledger, job>> /\ run[t].pc = "work"
    BY <1>4 DEF Analyse
  <2>2. OnlyMoves(t) /\ TaskOK(t)' /\ run'[t].scan = s
        /\ run'[t].pc \in {"store", "fail"}
    <3>1. CASE Goto(t, "fail")
      BY <1>g, <2>1, <3>1 DEF Pcs
    <3>2. ASSUME NEW src \in Sources(s),
                 run' = [run EXCEPT ![t].pc = "store", ![t].src = src]
          PROVE  OnlyMoves(t) /\ TaskOK(t)' /\ run'[t].scan = s
                 /\ run'[t].pc = "store"
      <4>1. src \in Scans
        BY <1>b, <2>1 DEF Sources, Priors
      <4>2. run' \in [Tasks -> Run]
        BY <1>0, <3>2, <4>1 DEF Run, Pcs
      <4>3. run'[t].pc = "store" /\ run'[t].scan = s /\ run'[t].src = src
            /\ \A u \in Tasks \ {t} : run'[u] = run[u]
        BY <1>0, <3>2 DEF Run
      <4> QED
        BY <1>b, <2>1, <4>1, <4>2, <4>3 DEF OnlyMoves, TaskOK
    <3> QED
      BY <1>4, <3>1, <3>2 DEF Analyse
  <2> QED
    BY <1>a, <1>r, <2>1, <2>2, AlongKeeps
<1>5. CASE StoreResult(t)
  <2> DEFINE done == Completed(row[s], run[t].src)
  <2>1. UNCHANGED <<ledger, job>> /\ run[t].pc = "store"
    BY <1>5 DEF StoreResult
  <2>2. Grows(row[s], done) /\ done.payload \in Scans
    <3>1. run[t].src \in Scans
      BY <2>1 DEF IInv, TasksOK, TaskOK
    <3> QED
      BY <1>b, <2>1, <3>1, ColumnsGrow DEF MaxAttempts
  <2>3. RowsGrow
    BY <1>0, <1>b, <1>5, <2>1, <2>2, UpdateGrows DEF StoreResult
  <2>4. OnlyMoves(t) /\ TaskOK(t)' /\ run'[t].scan = s
        /\ run'[t].pc \in {"charge", "fail"}
    <3>1. CASE UpdateScan(s, done, Open) /\ Goto(t, "charge")
      <4>1. row'[s].payload # NoScan
        BY <1>0, <1>b, <2>1, <2>2, <3>1 DEF UpdateScan
      <4> QED
        BY <1>0, <1>b, <2>1, <3>1, <4>1, GotoMoves DEF TaskOK, Pcs
    <3>2. CASE Goto(t, "fail")
      BY <1>g, <2>1, <3>2 DEF Pcs
    <3> QED
      BY <1>5, <3>1, <3>2 DEF StoreResult
  <2> QED
    BY <1>a, <2>1, <2>3, <2>4, AlongKeeps
<1>6. CASE Charge(t)
  <2>1. UNCHANGED <<row, job>> /\ run[t].pc = "charge" /\ Goto(t, "ack")
    BY <1>6 DEF Charge
  <2>2. OnlyMoves(t) /\ TaskOK(t)' /\ run'[t].pc = "ack" /\ run'[t].scan = s
    BY <1>g, <2>1 DEF Pcs
  <2>3. row[s].payload # NoScan
    BY <2>1 DEF IInv, TasksOK, TaskOK
  <2>4. ledger' \in [Scans -> Nat]
        /\ \A p \in Scans : ledger'[p] > 0 => ledger[p] > 0 \/ p = s
    BY <1>0, <1>b, <1>6, <2>1 DEF Charge
  <2>5. ChargedHasResult' /\ RowConsistent'
    BY <2>1, <2>3, <2>4 DEF IInv, ChargedHasResult, RowConsistent
  <2>6. TasksOK' /\ LockedByItsTask'
    BY <1>r, <2>1, <2>2, TaskStepOK, LockKept
  <2>7. TypeOK' /\ OperatorsOK' /\ JobsOK'
    BY <1>a, <2>1, <2>2, <2>4 DEF OnlyMoves, IInv, TypeOK, OperatorsOK, JobsOK,
                                HistoryOK
  <2> QED
    BY <2>5, <2>6, <2>7 DEF IInv
<1>7. CASE Ack(t)
  <2> DEFINE j == [job[s] EXCEPT !.state = "completed", !.owner = NoTask]
  <2>1. UNCHANGED <<row, ledger>> /\ run[t].pc = "ack" /\ Return(t)
    BY <1>7 DEF Ack
  <2>2. CASE job[s].owner = t
    <3>1. JobOK(j) /\ j.owner = NoTask
      BY <1>b, <2>1, <2>2, OneLock DEF IInv, JobsOK, JobOK, Job, JobStates
    <3>2. job' = [job EXCEPT ![s] = j]
      BY <1>0, <1>7, <2>2 DEF Ack
    <3> QED
      BY <1>a, <1>b, <1>e, <2>1, <2>2, <3>1, <3>2, SettleKeeps
  <2>3. CASE job[s].owner # t
    BY <1>a, <1>e, <1>7, <2>1, <2>3, NoLockKeeps DEF Ack
  <2> QED
    BY <2>2, <2>3
<1>8. CASE Crash(t)
  <2> DEFINE j == [job[s] EXCEPT !.owner = NoTask]
  <2>1. UNCHANGED <<row, ledger>> /\ run[t].pc # "idle" /\ Return(t)
    BY <1>8 DEF Crash
  <2>2. CASE job[s].owner = t
    <3>1. JobOK(j) /\ j.owner = NoTask
      BY <1>b, <2>1, <2>2, OneLock DEF IInv, JobsOK, JobOK, Job
    <3>2. job' = [job EXCEPT ![s] = j]
      BY <1>0, <1>8, <2>2 DEF Crash
    <3> QED
      BY <1>a, <1>b, <1>e, <2>1, <2>2, <3>1, <3>2, SettleKeeps
  <2>3. CASE job[s].owner # t
    BY <1>a, <1>e, <1>8, <2>1, <2>3, NoLockKeeps DEF Crash
  <2> QED
    BY <2>2, <2>3
<1>9. CASE RetryLater(t)
  <2> DEFINE j == [job[s] EXCEPT !.state = "delayed", !.owner = NoTask,
                                 !.attempts = @ + 1]
  <2>1. UNCHANGED <<row, ledger>> /\ run[t].pc = "fail" /\ Return(t)
        /\ job[s].owner = t /\ job[s].attempts + 1 < MaxAttempts
    BY <1>9 DEF RetryLater
  <2>4. job[s].attempts + 1 \in 0..MaxAttempts
    BY <1>b, <2>1 DEF Job, MaxAttempts
  <2>2. JobOK(j) /\ j.owner = NoTask
    BY <1>b, <2>1, <2>4 DEF JobOK, Job, JobStates
  <2>3. job' = [job EXCEPT ![s] = j]
    BY <1>0, <1>9 DEF RetryLater
  <2> QED
    BY <1>a, <1>b, <1>e, <2>1, <2>2, <2>3, SettleKeeps
<1>10. CASE GiveUp(t)
  <2> DEFINE j == [job[s] EXCEPT !.state = "failed", !.owner = NoTask,
                                 !.attempts = @ + 1]
  <2>1. UNCHANGED <<row, ledger>> /\ run[t].pc = "fail" /\ job[s].owner = t
    BY <1>10 DEF GiveUp
  <2>2. job[s].attempts \in 0..MaxAttempts /\ job[s].attempts < MaxAttempts
    BY <1>b, <2>1, OneLock DEF IInv, JobsOK, Job
  <2>3. job[s].attempts + 1 \in 0..MaxAttempts
    BY <2>2 DEF MaxAttempts
  <2>4. JobOK(j) /\ j.owner = NoTask
    BY <1>b, <2>1, <2>3 DEF JobOK, Job, JobStates
  <2>5. job' = [job EXCEPT ![s] = j]
    BY <1>0, <1>10 DEF GiveUp
  <2>6. OnlyMoves(t) /\ TaskOK(t)'
    BY <1>m, <1>10, <2>1, <2>3 DEF GiveUp
  <2> QED
    BY <1>a, <1>b, <2>1, <2>4, <2>5, <2>6, SettleKeeps
<1>11. CASE ThrowWithoutJob(t)
  <2>1. UNCHANGED <<row, ledger, job>> /\ run[t].pc = "fail"
        /\ job[s].owner # t
    BY <1>11 DEF ThrowWithoutJob
  <2>2. OnlyMoves(t) /\ TaskOK(t)'
    <3>1. CASE Return(t)
      BY <1>e, <3>1
    <3>2. CASE run' = [run EXCEPT ![t].pc = "mark", ![t].made = 1]
      <4>1. 1 \in 0..MaxAttempts
        BY DEF MaxAttempts
      <4> QED
        BY <1>m, <2>1, <3>2, <4>1
    <3> QED
      BY <1>11, <3>1, <3>2 DEF ThrowWithoutJob
  <2> QED
    BY <1>a, <2>1, <2>2, NoLockKeeps
<1>12. CASE MarkRead(t)
  <2>1. UNCHANGED <<row, ledger, job>> /\ run[t].pc = "mark"
        /\ (Goto(t, "markwrite") \/ Return(t))
    BY <1>12 DEF MarkRead
  <2>2. OnlyMoves(t) /\ TaskOK(t)'
    BY <1>e, <1>g, <2>1 DEF Pcs
  <2> QED
    BY <1>a, <1>r, <2>1, <2>2, AlongKeeps
<1>13. CASE MarkWrite(t)
  <2> DEFINE r == MarkedFailed(row[s], run[t].made)
  <2>1. UNCHANGED <<ledger, job>> /\ run[t].pc = "markwrite" /\ Return(t)
    BY <1>13 DEF MarkWrite
  <2>2. Grows(row[s], r)
    <3>1. run[t].made \in 0..MaxAttempts
      BY <1>0 DEF Run
    <3> QED
      BY <1>0, <1>b, <2>1, <3>1, ColumnsGrow
  <2>3. RowsGrow
    BY <1>0, <1>b, <1>13, <2>1, <2>2, UpdateGrows DEF MarkWrite
  <2> QED
    BY <1>a, <1>e, <2>1, <2>3, AlongKeeps
<1> QED
  BY <1>1, <1>2, <1>3, <1>4, <1>5, <1>6, <1>7, <1>8, <1>9, <1>10, <1>11,
     <1>12, <1>13 DEF TaskStep
-----------------------------------------------------------------------------
LEMMA NextIInv == IInv /\ [Next]_vars => IInv'
<1> SUFFICES ASSUME IInv, [Next]_vars PROVE IInv'
  OBVIOUS
<1>1. CASE Next
  BY <1>1, SubmitKeeps, QueueKeeps, TaskKeeps, ClaimKeeps, OperatorKeeps
     DEF Next, Step
<1>2. CASE UNCHANGED vars
  BY <1>2 DEF vars, IInv, TypeOK, TasksOK, TaskOK, OperatorsOK, JobsOK,
              LockedByItsTask, RowConsistent, ChargedHasResult
<1> QED
  BY <1>1, <1>2

\* The inductive invariant holds in every behaviour, whatever the submits,
\* the faults and the operators do.
THEOREM Invariance == Spec => []IInv
BY InitIInv, NextIInv, PTL DEF Spec

\* Rows, jobs, tasks and calls keep their types: no task loses its scan, and
\* the attempt and stall counters of a job never run past their limits.
THEOREM TypeCorrect == Spec => []TypeOK
<1>1. IInv => TypeOK
  BY DEF IInv
<1> QED
  BY <1>1, Invariance, PTL

\* A complete row carries a result and no failure reason, a failed one its
\* reason, even when failJob, markScanFailed, retryJob and the completion
\* write of overlapping runs land on one row in any order.
THEOREM RowsTellOneStory == Spec => []RowConsistent
<1>1. IInv => RowConsistent
  BY DEF IInv
<1> QED
  BY <1>1, Invariance, PTL

\* Units are never charged for a scan that had no result, under any overlap
\* of runs, redeliveries and database errors.
THEOREM ChargesFollowResults == Spec => []ChargedHasResult
<1>1. IInv => ChargedHasResult
  BY DEF IInv
<1> QED
  BY <1>1, Invariance, PTL
-----------------------------------------------------------------------------
(* The charge. ChargedIsComplete is inductive together with what is known  *)
(* of a task about to charge.                                              *)

Charging(t, s) == run[t].pc = "charge" /\ run[t].scan = s

\* Off a lost update, a task about to charge a scan is the only one, the scan
\* is complete and nothing was charged for it yet.
ChargingOK ==
  \A s \in Scans \ raced : \A t \in Tasks : Charging(t, s) =>
    /\ row[s].status = "complete"
    /\ ledger[s] = 0
    /\ \A u \in Tasks : Charging(u, s) => u = t

Booked == ChargedIsComplete /\ ChargingOK

\* What every update keeps: its handler's guard refuses a complete row, so one
\* that leaves 'complete' is a lost update.
CompleteStays ==
  /\ raced \subseteq raced'
  /\ \A s \in Scans \ raced' :
       row[s].status = "complete" => row'[s].status = "complete"

LEMMA UpdateKeepsComplete ==
  ASSUME row \in [Scans -> Row], NEW s \in Scans, NEW r, NEW accepted,
         "complete" \notin accepted,
         UpdateScan(s, r, accepted) \/ UpdateScanFails(s, r, accepted)
  PROVE  CompleteStays
<1>1. CASE UNCHANGED <<row, raced>>
  BY <1>1 DEF CompleteStays
<1>2. CASE UpdateScan(s, r, accepted)
  <2>1. \A p \in Scans \ {s} : row'[p] = row[p]
    BY <1>2 DEF UpdateScan
  <2>2. raced \subseteq raced' /\ (row[s].status = "complete" => s \in raced')
    BY <1>2 DEF UpdateScan
  <2> QED
    BY <2>1, <2>2 DEF CompleteStays
<1> QED
  BY <1>1, <1>2 DEF UpdateScanFails

NoNewCharge ==
  \A t \in Tasks, s \in Scans : Charging(t, s)' => Charging(t, s)

\* A step that charges nothing and sends no task to the charge.
LEMMA BookedStep ==
  ASSUME IInv, Booked, CompleteStays, NoNewCharge, UNCHANGED ledger
  PROVE  Booked'
<1>1. ChargedIsComplete'
  BY DEF Booked, ChargedIsComplete, CompleteStays
<1>2. ASSUME NEW s \in Scans \ raced', NEW t \in Tasks, Charging(t, s)'
      PROVE  /\ row'[s].status = "complete"
             /\ ledger'[s] = 0
             /\ \A u \in Tasks : Charging(u, s)' => u = t
  <2>1. s \in Scans \ raced /\ Charging(t, s)
    BY <1>2 DEF CompleteStays, NoNewCharge
  <2>2. row[s].status = "complete" /\ ledger[s] = 0
        /\ \A u \in Tasks : Charging(u, s) => u = t
    BY <2>1 DEF Booked, ChargingOK
  <2> QED
    BY <1>2, <2>2 DEF CompleteStays, NoNewCharge
<1>3. ChargingOK'
  BY <1>2 DEF ChargingOK
<1> QED
  BY <1>1, <1>3 DEF Booked

LEMMA SubmitBooks ==
  ASSUME IInv, Booked, NEW r \in Submits, SubmitCheck(r) \/ SubmitStep(r)
  PROVE  Booked'
<1> USE Constants
<1>0. SubmitScan[r] \in Scans /\ row \in [Scans -> Row] /\ run \in [Tasks -> Run]
  BY DEF IInv, TypeOK
<1>1. CASE SubmitQueued(r)
  <2>1. CompleteStays
    BY <1>0, <1>1, UpdateKeepsComplete DEF SubmitQueued
  <2> QED
    BY <1>1, <2>1, BookedStep DEF SubmitQueued, NoNewCharge, Charging
<1>2. CASE SubmitCheck(r) \/ Enqueue(r) \/ EnqueueFails(r)
  <2>1. UNCHANGED <<row, raced, run, ledger>>
    BY <1>2 DEF SubmitCheck, Enqueue, EnqueueFails
  <2> QED
    BY <2>1, BookedStep DEF CompleteStays, NoNewCharge, Charging
<1>3. ASSUME NEW t \in Tasks, RunInline(r, t) PROVE Booked'
  <2>1. UNCHANGED <<row, raced, ledger>> /\ run'[t].pc = "start"
        /\ \A u \in Tasks \ {t} : run'[u] = run[u]
    BY <1>0, <1>3 DEF RunInline, Activation
  <2> QED
    BY <2>1, BookedStep DEF CompleteStays, NoNewCharge, Charging
<1> QED
  BY <1>1, <1>2, <1>3 DEF SubmitStep

LEMMA OthersBook ==
  ASSUME IInv, Booked,
         \/ \E s \in Scans : QueueStep(s) \/ LoseLock(s) \/ Evict(s)
         \/ \E t \in Tasks, s \in Scans : Claim(t, s)
         \/ \E a \in AdminCalls :
              (\E s \in Scans : AdminRead(a, s)) \/ AdminRetry(a) \/ AdminFail(a)
  PROVE  Booked'
<1>0. row \in [Scans -> Row] /\ run \in [Tasks -> Run]
  BY DEF IInv, TypeOK
<1>1. ASSUME NEW s \in Scans, QueueStep(s) \/ LoseLock(s) \/ Evict(s)
      PROVE  Booked'
  <2>1. UNCHANGED <<row, raced, run, ledger>>
    BY <1>1 DEF QueueStep, Backoff, StallCheck, LoseLock, Evict
  <2> QED
    BY <2>1, BookedStep DEF CompleteStays, NoNewCharge, Charging
<1>2. ASSUME NEW t \in Tasks, NEW s \in Scans, Claim(t, s) PROVE Booked'
  <2>1. UNCHANGED <<row, raced, ledger>> /\ run'[t].pc = "read"
        /\ \A u \in Tasks \ {t} : run'[u] = run[u]
    BY <1>0, <1>2 DEF Claim, Activation
  <2> QED
    BY <2>1, BookedStep DEF CompleteStays, NoNewCharge, Charging
<1>3. ASSUME NEW a \in AdminCalls, NEW s \in Scans, AdminRead(a, s)
      PROVE  Booked'
  <2>1. UNCHANGED <<row, raced, run, ledger>>
    BY <1>3 DEF AdminRead
  <2> QED
    BY <2>1, BookedStep DEF CompleteStays, NoNewCharge, Charging
<1>4. ASSUME NEW a \in AdminCalls, AdminRetry(a) \/ AdminFail(a) PROVE Booked'
  <2>1. adm[a].scan \in Scans /\ UNCHANGED <<run, ledger>>
    BY <1>4 DEF AdminRetry, AdminFail, IInv, OperatorsOK
  <2>2. CompleteStays
    BY <1>0, <1>4, <2>1, UpdateKeepsComplete DEF AdminRetry, AdminFail, Open
  <2> QED
    BY <2>1, <2>2, BookedStep DEF NoNewCharge, Charging
<1> QED
  BY <1>1, <1>2, <1>3, <1>4

LEMMA TaskBooks ==
  ASSUME IInv, Booked, NEW t \in Tasks, TaskStep(t) \/ Crash(t),
         NEW s, s = run[t].scan
  PROVE  Booked'
<1> USE Constants
<1>0. /\ run \in [Tasks -> Run] /\ run[t] \in Run
      /\ row \in [Scans -> Row] /\ ledger \in [Scans -> Nat]
      /\ run[t].pc # "idle" => s \in Scans
  BY DEF IInv, TypeOK, TasksOK, TaskOK
<1>n. ASSUME \A u \in Tasks \ {t} : run'[u] = run[u], run'[t].pc # "charge"
      PROVE  NoNewCharge
  BY <1>n DEF NoNewCharge, Charging
<1>m. ASSUME \/ \E pc \in Pcs \ {"charge"} : Goto(t, pc)
             \/ Return(t)
             \/ \E src, n : \/ run' = [run EXCEPT ![t].pc = "start", ![t].seen = n]
                            \/ run' = [run EXCEPT ![t].pc = "store", ![t].src = src]
                            \/ run' = [run EXCEPT ![t].pc = "mark", ![t].made = n]
      PROVE  NoNewCharge
  BY <1>0, <1>m, <1>n DEF Goto, Return, Run, NoRun, Activation
<1>1. CASE MarkProcessing(t) \/ MarkWrite(t)
           \/ (StoreResult(t) /\ Goto(t, "fail"))
  <2>1. CompleteStays
    BY <1>0, <1>1, UpdateKeepsComplete
       DEF MarkProcessing, MarkWrite, StoreResult, Open
  <2>2. NoNewCharge
    BY <1>1, <1>m DEF MarkProcessing, MarkWrite, StoreResult, Pcs
  <2> QED
    BY <1>1, <2>1, <2>2, BookedStep DEF MarkProcessing, MarkWrite, StoreResult
<1>2. CASE \/ ReadRow(t) \/ SkipSettled(t) \/ Analyse(t) \/ Ack(t)
           \/ RetryLater(t) \/ GiveUp(t) \/ ThrowWithoutJob(t)
           \/ MarkRead(t) \/ Crash(t)
  <2>1. UNCHANGED <<row, raced, ledger>>
    BY <1>2 DEF ReadRow, SkipSettled, Analyse, Ack, RetryLater, GiveUp,
                ThrowWithoutJob, MarkRead, Crash
  <2>2. NoNewCharge
    BY <1>2, <1>m DEF ReadRow, SkipSettled, Analyse, Ack, RetryLater, GiveUp,
                      ThrowWithoutJob, MarkRead, Crash, Pcs
  <2> QED
    BY <2>1, <2>2, BookedStep DEF CompleteStays
<1>3. CASE StoreResult(t) /\ ~Goto(t, "fail")
  <2> DEFINE done == Completed(row[s], run[t].src)
  <2>1. run[t].pc = "store" /\ UpdateScan(s, done, Open) /\ Goto(t, "charge")
        /\ UNCHANGED ledger
    BY <1>3 DEF StoreResult
  <2>2. s \in Scans /\ CompleteStays
    BY <1>0, <2>1, UpdateKeepsComplete DEF Open
  <2>3. /\ Charging(t, s)'
        /\ \A u \in Tasks, p \in Scans : Charging(u, p)' =>
             Charging(u, p) \/ (u = t /\ p = s)
    BY <1>0, <2>1, GotoMoves DEF Charging, OnlyMoves, Pcs
  <2>4. row'[s].status = "complete"
    BY <1>0, <2>1, <2>2 DEF UpdateScan, Completed, Row
  <2>5. s \notin raced' => row[s].status # "complete" /\ s \notin raced
    BY <2>1 DEF UpdateScan, Open
  <2>6. s \notin raced' => ledger[s] = 0 /\ \A u \in Tasks : ~Charging(u, s)
    BY <1>0, <2>2, <2>5 DEF Booked, ChargedIsComplete, ChargingOK
  <2>7. ChargedIsComplete'
    BY <2>1, <2>2 DEF Booked, ChargedIsComplete, CompleteStays
  <2>8. ASSUME NEW p \in Scans \ raced', NEW u \in Tasks, Charging(u, p)'
        PROVE  /\ row'[p].status = "complete"
               /\ ledger'[p] = 0
               /\ \A v \in Tasks : Charging(v, p)' => v = u
    <3>1. CASE p = s
      BY <2>1, <2>3, <2>4, <2>6, <2>8, <3>1
    <3>2. CASE p # s
      <4>1. Charging(u, p) /\ p \in Scans \ raced
        BY <2>2, <2>3, <2>8, <3>2 DEF CompleteStays
      <4>2. row[p].status = "complete" /\ ledger[p] = 0
            /\ \A v \in Tasks : Charging(v, p) => v = u
        BY <4>1 DEF Booked, ChargingOK
      <4> QED
        BY <2>1, <2>2, <2>3, <2>8, <3>2, <4>2 DEF CompleteStays
    <3> QED
      BY <3>1, <3>2
  <2>9. ChargingOK'
    BY <2>8 DEF ChargingOK
  <2> QED
    BY <2>7, <2>9 DEF Booked
<1>4. CASE Charge(t)
  <2>1. run[t].pc = "charge" /\ Goto(t, "ack") /\ UNCHANGED <<row, raced>>
        /\ s \in Scans /\ Charging(t, s)
    BY <1>0, <1>4 DEF Charge, Charging
  <2>2. NoNewCharge /\ ~Charging(t, s)'
    BY <1>0, <1>m, <2>1, GotoMoves DEF Charging, Pcs
  <2>3. ledger' = ledger \/ ledger' = [ledger EXCEPT ![s] = @ + 1]
    BY <1>4 DEF Charge
  <2>4. \A p \in Scans \ {s} : ledger'[p] = ledger[p]
    BY <1>0, <2>3
  <2>5. s \notin raced =>
          /\ row[s].status = "complete" /\ ledger'[s] \in {0, 1}
          /\ \A u \in Tasks : ~Charging(u, s)'
    <3>1. SUFFICES ASSUME s \notin raced
                   PROVE  /\ row[s].status = "complete" /\ ledger'[s] \in {0, 1}
                          /\ \A u \in Tasks : ~Charging(u, s)'
      OBVIOUS
    <3>2. row[s].status = "complete" /\ ledger[s] = 0
          /\ \A u \in Tasks : Charging(u, s) => u = t
      BY <2>1, <3>1 DEF Booked, ChargingOK
    <3>3. ledger'[s] \in {0, 1}
      BY <1>0, <2>1, <2>3, <3>2
    <3>4. \A u \in Tasks : ~Charging(u, s)'
      BY <2>1, <2>2, <3>2 DEF NoNewCharge
    <3> QED
      BY <3>2, <3>3, <3>4
  <2>6. ChargedIsComplete'
    BY <2>1, <2>4, <2>5 DEF Booked, ChargedIsComplete
  <2>7. ASSUME NEW p \in Scans \ raced', NEW u \in Tasks, Charging(u, p)'
        PROVE  /\ row'[p].status = "complete"
               /\ ledger'[p] = 0
               /\ \A v \in Tasks : Charging(v, p)' => v = u
    <3>1. p \in Scans \ raced /\ Charging(u, p)
      BY <2>1, <2>2, <2>7 DEF NoNewCharge
    <3>3. p # s
      BY <2>5, <2>7, <3>1
    <3>2. row[p].status = "complete" /\ ledger[p] = 0
          /\ \A v \in Tasks : Charging(v, p) => v = u
      BY <3>1 DEF Booked, ChargingOK
    <3> QED
      BY <2>1, <2>2, <2>4, <3>1, <3>2, <3>3 DEF NoNewCharge
  <2>8. ChargingOK'
    BY <2>7 DEF ChargingOK
  <2> QED
    BY <2>6, <2>8 DEF Booked
<1> QED
  BY <1>1, <1>2, <1>3, <1>4 DEF TaskStep, StoreResult

\* Failed scans consume no units and complete ones are charged once, whatever
\* submits, redeliveries, lost locks, crashes and operator calls overlap, on
\* every scan no update landed on behind the back of its handler's guard.
THEOREM ChargesFollowGuards == Spec => []ChargedIsComplete
<1>1. Init => Booked
  BY DEF Init, Booked, ChargedIsComplete, ChargingOK, Charging, NoRun, Activation
<1>2. IInv /\ Booked /\ [Next]_vars => Booked'
  <2> SUFFICES ASSUME IInv, Booked, [Next]_vars PROVE Booked'
    OBVIOUS
  <2>1. CASE Next
    BY <2>1, SubmitBooks, TaskBooks, OthersBook DEF Next, Step
  <2>2. CASE UNCHANGED vars
    BY <2>2, BookedStep DEF vars, CompleteStays, NoNewCharge, Charging
  <2> QED
    BY <2>1, <2>2
<1>3. Booked => ChargedIsComplete
  BY DEF Booked
<1> QED
  BY <1>1, <1>2, <1>3, Invariance, PTL DEF Spec
=============================================================================
