---------------------------- MODULE ScanLifecycle ----------------------------
(***************************************************************************)
(* The life of scan rows between submission and a terminal status:         *)
(* ScansService.submitScan, processQueuedScan, runScanProcessing and       *)
(* markScanFailed (backend/src/scans/scans.service.ts), the BullMQ queue   *)
(* as QueueService and worker.ts use it, the best-effort VU ledger write   *)
(* of BillingService.recordScanUsage, and the two operator actions         *)
(* AdminService.retryJob and failJob.                                      *)
(*                                                                         *)
(* Every await is a place where other handlers run, so a handler is one    *)
(* action per database call. None of the writes is conditional on the      *)
(* status it was decided from: updateScan filters by id alone. A call to   *)
(* the database that fails may or may not have been applied.               *)
(*                                                                         *)
(* A task is one activation of the processor, with the 'failed' listener   *)
(* that follows it on its last attempt; the inline path (no REDIS_URL)     *)
(* starts a task straight from submitScan.                                 *)
(***************************************************************************)
EXTENDS Naturals, FiniteSets

CONSTANTS
  Scans,            \* scan rows, created by initiateScan
  Submits,          \* calls of submitScan
  SubmitScan,       \* the scan each call of submitScan names
  Tasks,            \* processor activations that can be in progress
  AdminCalls,       \* calls of retryJob or failJob
  FileOf,           \* the owner and file of a scan: equal means dedup hit
  Paths,            \* "queue": REDIS_URL is set; "inline": it is not
  Faults,           \* what the environment may do wrong
  NoScan, NoTask

FaultKinds ==
  { "db",        \* a Supabase call errors
    "enqueue",   \* Redis rejects the add, or the API process dies before it
    "analysis",  \* the download, the inspection or the analysis throws
    "crash",     \* a worker process dies
    "zombie",    \* a blocked worker loses its job lock and keeps running
    "evict" }    \* removeOnComplete / removeOnFail drops a settled job

MaxAttempts == 3  \* JobsOptions.attempts
MaxStalls == 1    \* BullMQ's maxStalledCount default

ASSUME Constants ==
  /\ SubmitScan \in [Submits -> Scans]
  /\ DOMAIN FileOf = Scans
  /\ Paths \subseteq {"queue", "inline"}
  /\ Faults \subseteq FaultKinds
  /\ NoScan \notin Scans
  /\ NoTask \notin Tasks

VARIABLES
  path,    \* how this deployment processes scans: fixed at boot
  row,     \* row[s]: the row of scan s
  ledger,  \* ledger[s]: its package rows in vu_ledger
  job,     \* job[s]: the BullMQ job whose id is s
  sub,     \* sub[r]: how far a call of submitScan is
  run,     \* run[t]: where a task is, with the values it read
  adm,     \* adm[a]: an operator call that read its row
  raced,   \* history: scans hit by a lost update
  stranded \* history: scans whose way to a terminal status was cut off

state == <<row, ledger, job, sub, run, adm, raced, stranded>>

vars == <<path, row, ledger, job, sub, run, adm, raced, stranded>>
-----------------------------------------------------------------------------
Statuses == {"awaiting_upload", "queued", "processing", "complete", "failed"}

\* Bug variant of Open: a retried attempt, whose row is 'processing', skips.
OpenBeforeProcessing == {"queued", "awaiting_upload"}

\* The statuses runScanProcessing and markScanFailed accept.
Open == {"queued", "awaiting_upload", "processing"}

\* payload stands for the columns the completion write sets together
\* (result_payload, file_hash_sha256, completed_at, vu_units): the scan whose
\* analysis they carry, the row's own or the one it was deduplicated from.
Row == [status: Statuses, payload: Scans \cup {NoScan},
        reason: BOOLEAN, attempts: 0..MaxAttempts]

NewRow == [status |-> "awaiting_upload", payload |-> NoScan,
           reason |-> FALSE, attempts |-> 1]

JobStates == {"none", "waiting", "active", "delayed", "completed", "failed"}

Job == [state: JobStates, attempts: 0..MaxAttempts,
        stalls: 0..MaxStalls, owner: Tasks \cup {NoTask}]

NoJob == [state |-> "none", attempts |-> 0, stalls |-> 0, owner |-> NoTask]

SubStates == {"new", "checked", "written", "done", "refused", "lost"}

\* Where a task is: about to read the row, to write 'processing', to analyse,
\* to store the result, to charge, to settle its job as completed (ack) or
\* failed (fail), to read and to write in markScanFailed. made is the
\* job.attemptsMade that the 'failed' event hands to markScanFailed.
Pcs == {"idle", "read", "start", "work", "store", "charge", "ack", "fail",
        "mark", "markwrite"}

Run == [pc: Pcs, scan: Scans \cup {NoScan}, seen: Statuses,
        src: Scans \cup {NoScan}, made: 0..MaxAttempts]

\* A task on its way to pc, with nothing read yet.
Activation(pc, s) == [pc |-> pc, scan |-> s, seen |-> "awaiting_upload",
                      src |-> NoScan, made |-> 0]

NoRun == Activation("idle", NoScan)

AdmStates == [op: {"new", "retry", "fail", "done"}, scan: Scans \cup {NoScan}]

NoAdm == [op |-> "new", scan |-> NoScan]

TypeOK ==
  /\ path \in {"queue", "inline"}
  /\ row \in [Scans -> Row]
  /\ ledger \in [Scans -> Nat]
  /\ job \in [Scans -> Job]
  /\ sub \in [Submits -> SubStates]
  /\ run \in [Tasks -> Run]
  /\ adm \in [AdminCalls -> AdmStates]
  /\ raced \subseteq Scans
  /\ stranded \subseteq Scans

Init ==
  /\ path \in Paths
  /\ row = [s \in Scans |-> NewRow]
  /\ ledger = [s \in Scans |-> 0]
  /\ job = [s \in Scans |-> NoJob]
  /\ sub = [r \in Submits |-> "new"]
  /\ run = [t \in Tasks |-> NoRun]
  /\ adm = [a \in AdminCalls |-> NoAdm]
  /\ raced = {}
  /\ stranded = {}
-----------------------------------------------------------------------------
(* The columns each updateScan call sets.                                  *)
Queued(r)     == [r EXCEPT !.status = "queued"]
Processing(r) == [r EXCEPT !.status = "processing"]

\* Bug variant of Completed: failure_reason is not cleared.
CompletedKeepsReason(r, source) == [r EXCEPT !.status = "complete",
                                             !.payload = source]

Completed(r, source) == [r EXCEPT !.status = "complete", !.payload = source,
                                  !.reason = FALSE]

\* Bug variant of MarkedFailed: attemptsMade is taken for the attempts before
\* this one.
MarkedFailedOffByOne(r, made) ==
  [r EXCEPT !.status = "failed", !.reason = TRUE, !.attempts = made + 1]

MarkedFailed(r, made) == [r EXCEPT !.status = "failed", !.reason = TRUE,
                                   !.attempts = made]
Retried(r)    == [r EXCEPT !.status = "queued", !.reason = FALSE,
                           !.attempts = 0]
KilledByAdmin(r) == [r EXCEPT !.status = "failed", !.reason = TRUE]

\* An update by id. A lost update is one that lands on a status the guard of
\* its handler refuses: the row moved on since the handler read it.
UpdateScan(s, r, accepted) ==
  /\ row' = [row EXCEPT ![s] = r]
  /\ raced' = IF row[s].status \in accepted THEN raced ELSE raced \cup {s}

\* updateScan reports an error; the statement may have been applied.
UpdateScanFails(s, r, accepted) ==
  /\ "db" \in Faults
  /\ UpdateScan(s, r, accepted) \/ UNCHANGED <<row, raced>>

Strand(s) == stranded' = stranded \cup {s}

Goto(t, pc) == run' = [run EXCEPT ![t].pc = pc]
Return(t)   == run' = [run EXCEPT ![t] = NoRun]
-----------------------------------------------------------------------------
(* submitScan                                                              *)

\* getScanOrThrow, the awaiting_upload guard and the asset check; nothing is
\* written yet. A call is refused when the scan was submitted before or its
\* file is not in storage.
SubmitCheck(r) ==
  /\ sub[r] = "new"
  /\ \/ /\ row[SubmitScan[r]].status = "awaiting_upload"
        /\ sub' = [sub EXCEPT ![r] = "checked"]
     \/ sub' = [sub EXCEPT ![r] = "refused"]
  /\ UNCHANGED <<row, ledger, job, run, adm, raced, stranded>>

\* status: 'queued', whatever the row has become since the check.
SubmitQueued(r) ==
  LET s == SubmitScan[r] IN
  /\ sub[r] = "checked"
  /\ \/ /\ UpdateScan(s, Queued(row[s]), {"awaiting_upload"})
        /\ sub' = [sub EXCEPT ![r] = "written"]
     \/ /\ UpdateScanFails(s, Queued(row[s]), {"awaiting_upload"})
        /\ sub' = [sub EXCEPT ![r] = "lost"]
  /\ UNCHANGED <<ledger, job, run, adm, stranded>>

\* Bug variant of Enqueue: the add is not awaited, so its rejection is missed.
EnqueueUnawaited(r) ==
  LET s == SubmitScan[r] IN
  /\ path = "queue"
  /\ sub[r] = "written"
  /\ sub' = [sub EXCEPT ![r] = "done"]
  /\ \/ /\ job[s].state = "none"
        /\ job' = [job EXCEPT ![s] = [NoJob EXCEPT !.state = "waiting"]]
     \/ (job[s].state # "none" \/ "enqueue" \in Faults) /\ UNCHANGED job
  /\ UNCHANGED <<row, ledger, run, adm, raced, stranded>>

\* enqueueScanProcessing: jobId = scanId, so BullMQ ignores the add while a
\* job of that id exists, finished ones included.
Enqueue(r) ==
  LET s == SubmitScan[r] IN
  /\ path = "queue"
  /\ sub[r] = "written"
  /\ sub' = [sub EXCEPT ![r] = "done"]
  /\ job' = IF job[s].state = "none"
            THEN [job EXCEPT ![s] = [NoJob EXCEPT !.state = "waiting"]]
            ELSE job
  /\ UNCHANGED <<row, ledger, run, adm, raced, stranded>>

EnqueueFails(r) ==
  /\ path = "queue"
  /\ "enqueue" \in Faults
  /\ sub[r] = "written"
  /\ sub' = [sub EXCEPT ![r] = "lost"]
  /\ UNCHANGED <<row, ledger, job, run, adm, raced, stranded>>

\* The inline path hands runScanProcessing the row submitScan read, whose
\* status is still awaiting_upload.
RunInline(r, t) ==
  /\ path = "inline"
  /\ sub[r] = "written"
  /\ run[t].pc = "idle"
  /\ sub' = [sub EXCEPT ![r] = "done"]
  /\ run' = [run EXCEPT ![t] = Activation("start", SubmitScan[r])]
  /\ UNCHANGED <<row, ledger, job, adm, raced, stranded>>
-----------------------------------------------------------------------------
(* The BullMQ queue, as QueueService and worker.ts configure it.           *)

Claim(t, s) ==
  /\ run[t].pc = "idle"
  /\ job[s].state = "waiting"
  /\ job' = [job EXCEPT ![s].state = "active", ![s].owner = t]
  /\ run' = [run EXCEPT ![t] = Activation("read", s)]
  /\ UNCHANGED <<row, ledger, sub, adm, raced, stranded>>

Backoff(s) ==
  /\ job[s].state = "delayed"
  /\ job' = [job EXCEPT ![s].state = "waiting"]
  /\ UNCHANGED <<row, ledger, sub, run, adm, raced, stranded>>

\* A worker whose event loop is blocked cannot renew the lock of its job.
LoseLock(s) ==
  /\ "zombie" \in Faults
  /\ job[s].state = "active"
  /\ job[s].owner # NoTask
  /\ job' = [job EXCEPT ![s].owner = NoTask]
  /\ UNCHANGED <<row, ledger, sub, run, adm, raced, stranded>>

\* The process of a task dies; the job it owns is left without a lock. Nothing
\* comes back for an inline run, nor for the 'failed' listener.
Crash(t) ==
  LET s == run[t].scan IN
  /\ "crash" \in Faults
  /\ run[t].pc # "idle"
  /\ Return(t)
  /\ job' = IF job[s].owner = t
            THEN [job EXCEPT ![s].owner = NoTask] ELSE job
  /\ IF path = "inline" \/ run[t].pc \in {"mark", "markwrite"}
     THEN Strand(s) ELSE UNCHANGED stranded
  /\ UNCHANGED <<row, ledger, sub, adm, raced>>

\* The stalled-job check: back to waiting once, then failed. That failure is
\* not the job's last attempt, so worker.ts does not call markScanFailed.
StallCheck(s) ==
  /\ job[s].state = "active"
  /\ job[s].owner = NoTask
  /\ \/ /\ job[s].stalls < MaxStalls
        /\ job' = [job EXCEPT ![s].state = "waiting", ![s].stalls = @ + 1]
        /\ UNCHANGED stranded
     \/ /\ job[s].stalls = MaxStalls
        /\ job' = [job EXCEPT ![s].state = "failed"]
        /\ Strand(s)
  /\ UNCHANGED <<row, ledger, sub, run, adm, raced>>

\* removeOnComplete and removeOnFail keep the last 100 settled jobs.
Evict(s) ==
  /\ "evict" \in Faults
  /\ job[s].state \in {"completed", "failed"}
  /\ job' = [job EXCEPT ![s] = NoJob]
  /\ UNCHANGED <<row, ledger, sub, run, adm, raced, stranded>>
-----------------------------------------------------------------------------
(* processQueuedScan and runScanProcessing                                 *)

\* getScanByIdOrThrow
ReadRow(t) ==
  /\ run[t].pc = "read"
  /\ \/ run' = [run EXCEPT ![t].pc = "start",
                           ![t].seen = row[run[t].scan].status]
     \/ "db" \in Faults /\ Goto(t, "fail")
  /\ UNCHANGED <<row, ledger, job, sub, adm, raced, stranded>>

\* The status guard, on the row as it was read.
SkipSettled(t) ==
  /\ run[t].pc = "start"
  /\ run[t].seen \notin Open
  /\ Goto(t, "ack")
  /\ UNCHANGED <<row, ledger, job, sub, adm, raced, stranded>>

\* Bug variant of MarkProcessing: the status guard is dropped.
MarkProcessingUnguarded(t) ==
  LET s == run[t].scan IN
  /\ run[t].pc = "start"
  /\ UpdateScan(s, Processing(row[s]), Statuses) /\ Goto(t, "work")
  /\ UNCHANGED <<ledger, job, sub, adm, stranded>>

MarkProcessing(t) ==
  LET s == run[t].scan IN
  /\ run[t].pc = "start"
  /\ run[t].seen \in Open
  /\ \/ UpdateScan(s, Processing(row[s]), Open) /\ Goto(t, "work")
     \/ UpdateScanFails(s, Processing(row[s]), Open) /\ Goto(t, "fail")
  /\ UNCHANGED <<ledger, job, sub, adm, stranded>>

\* Bug variant of Priors: .eq('status', 'complete') is dropped.
PriorsAnyStatus(s) == {p \in Scans \ {s} : FileOf[p] = FileOf[s]}

\* findCompletedScanByHash: some other completed scan of the same owner and
\* file. With none, or when the lookup degrades to null, the scan is analysed.
Priors(s) == {p \in Scans \ {s} : /\ FileOf[p] = FileOf[s]
                                  /\ row[p].status = "complete"}

Sources(s) ==
  Priors(s) \cup (IF Priors(s) = {} \/ "db" \in Faults THEN {s} ELSE {})

Analyse(t) ==
  LET s == run[t].scan IN
  /\ run[t].pc = "work"
  /\ \/ \E src \in Sources(s) :
          run' = [run EXCEPT ![t].pc = "store", ![t].src = src]
     \/ Faults \cap {"analysis", "db"} # {} /\ Goto(t, "fail")
  /\ UNCHANGED <<row, ledger, job, sub, adm, raced, stranded>>

\* Bug variant of StoreResult: the error of the write is not checked.
StoreResultUnchecked(t) ==
  LET s == run[t].scan
      done == Completed(row[s], run[t].src) IN
  /\ run[t].pc = "store"
  /\ UpdateScan(s, done, Open) \/ UpdateScanFails(s, done, Open)
  /\ Goto(t, "charge")
  /\ UNCHANGED <<ledger, job, sub, adm, stranded>>

\* The completion write of either branch.
StoreResult(t) ==
  LET s == run[t].scan
      done == Completed(row[s], run[t].src) IN
  /\ run[t].pc = "store"
  /\ \/ UpdateScan(s, done, Open) /\ Goto(t, "charge")
     \/ UpdateScanFails(s, done, Open) /\ Goto(t, "fail")
  /\ UNCHANGED <<ledger, job, sub, adm, stranded>>

\* Bug variant of Charge: an insert that reports an error is tried again.
ChargeRetried(t) ==
  LET s == run[t].scan IN
  /\ run[t].pc = "charge"
  /\ ledger' \in {ledger, [ledger EXCEPT ![s] = @ + 1]}
  /\ Goto(t, "ack") \/ ("db" \in Faults /\ UNCHANGED run)
  /\ ledger[s] < 2
  /\ UNCHANGED <<row, job, sub, adm, raced, stranded>>

\* recordScanUsage: an insert with no uniqueness on the scan, whose error is
\* logged and swallowed.
Charge(t) ==
  LET s == run[t].scan IN
  /\ run[t].pc = "charge"
  /\ \/ ledger' = [ledger EXCEPT ![s] = @ + 1]
     \/ "db" \in Faults /\ UNCHANGED ledger
  /\ Goto(t, "ack")
  /\ UNCHANGED <<row, job, sub, adm, raced, stranded>>

\* The processor returned: BullMQ completes the job, if the task still holds
\* its lock.
Ack(t) ==
  LET s == run[t].scan IN
  /\ run[t].pc = "ack"
  /\ Return(t)
  /\ job' = IF job[s].owner = t
            THEN [job EXCEPT ![s].state = "completed", ![s].owner = NoTask]
            ELSE job
  /\ UNCHANGED <<row, ledger, sub, adm, raced, stranded>>

\* The processor threw with attempts left: retry with backoff.
RetryLater(t) ==
  LET s == run[t].scan IN
  /\ run[t].pc = "fail"
  /\ job[s].owner = t
  /\ job[s].attempts + 1 < MaxAttempts
  /\ job' = [job EXCEPT ![s].state = "delayed", ![s].owner = NoTask,
                        ![s].attempts = @ + 1]
  /\ Return(t)
  /\ UNCHANGED <<row, ledger, sub, adm, raced, stranded>>

\* Bug variants of GiveUp: an attempt too early; and without the listener.
GiveUpEarly(t) ==
  LET s == run[t].scan IN
  /\ run[t].pc = "fail"
  /\ job[s].owner = t
  /\ job[s].attempts + 2 >= MaxAttempts
  /\ job' = [job EXCEPT ![s].state = "failed", ![s].owner = NoTask,
                        ![s].attempts = @ + 1]
  /\ run' = [run EXCEPT ![t].pc = "mark", ![t].made = job[s].attempts + 1]
  /\ UNCHANGED <<row, ledger, sub, adm, raced, stranded>>

GiveUpSilently(t) ==
  LET s == run[t].scan IN
  /\ run[t].pc = "fail"
  /\ job[s].owner = t
  /\ job[s].attempts + 1 >= MaxAttempts
  /\ job' = [job EXCEPT ![s].state = "failed", ![s].owner = NoTask,
                        ![s].attempts = @ + 1]
  /\ Return(t)
  /\ UNCHANGED <<row, ledger, sub, adm, raced, stranded>>

\* The last attempt threw: the job fails and the 'failed' listener goes on to
\* markScanFailed.
GiveUp(t) ==
  LET s == run[t].scan IN
  /\ run[t].pc = "fail"
  /\ job[s].owner = t
  /\ job[s].attempts + 1 >= MaxAttempts
  /\ job' = [job EXCEPT ![s].state = "failed", ![s].owner = NoTask,
                        ![s].attempts = @ + 1]
  /\ run' = [run EXCEPT ![t].pc = "mark", ![t].made = job[s].attempts + 1]
  /\ UNCHANGED <<row, ledger, sub, adm, raced, stranded>>

\* Without the lock BullMQ reports an error instead of a failed job; inline,
\* the caller's catch goes straight to markScanFailed.
ThrowWithoutJob(t) ==
  /\ run[t].pc = "fail"
  /\ job[run[t].scan].owner # t
  /\ IF path = "queue"
     THEN Return(t)
     ELSE run' = [run EXCEPT ![t].pc = "mark", ![t].made = 1]
  /\ UNCHANGED <<row, ledger, job, sub, adm, raced, stranded>>
-----------------------------------------------------------------------------
(* markScanFailed: a read, a guard on what was read, and an unconditional  *)
(* write. Its errors are logged by the caller and go no further.           *)

\* Bug variant of MarkRead: the refusal to downgrade is dropped.
MarkReadUnguarded(t) ==
  /\ run[t].pc = "mark"
  /\ Goto(t, "markwrite")
  /\ UNCHANGED <<row, ledger, job, sub, adm, raced, stranded>>

MarkRead(t) ==
  LET s == run[t].scan IN
  /\ run[t].pc = "mark"
  /\ \/ row[s].status \in Open /\ Goto(t, "markwrite") /\ UNCHANGED stranded
     \/ row[s].status \notin Open /\ Return(t) /\ UNCHANGED stranded
     \/ "db" \in Faults /\ Return(t) /\ Strand(s)
  /\ UNCHANGED <<row, ledger, job, sub, adm, raced>>

MarkWrite(t) ==
  LET s == run[t].scan
      r == MarkedFailed(row[s], run[t].made) IN
  /\ run[t].pc = "markwrite"
  /\ \/ UpdateScan(s, r, Open) /\ UNCHANGED stranded
     \/ UpdateScanFails(s, r, Open) /\ Strand(s)
  /\ Return(t)
  /\ UNCHANGED <<ledger, job, sub, adm>>
-----------------------------------------------------------------------------
(* AdminService.retryJob and failJob: the status read, then an update by   *)
(* id. retryJob adds no job to the queue.                                  *)

AdminRead(a, s) ==
  /\ adm[a].op = "new"
  /\ \/ /\ row[s].status = "failed"
        /\ adm' = [adm EXCEPT ![a] = [op |-> "retry", scan |-> s]]
     \/ /\ row[s].status \notin {"complete", "failed"}
        /\ adm' = [adm EXCEPT ![a] = [op |-> "fail", scan |-> s]]
  /\ UNCHANGED <<row, ledger, job, sub, run, raced, stranded>>

AdminRetry(a) ==
  LET s == adm[a].scan
      r == Retried(row[s]) IN
  /\ adm[a].op = "retry"
  /\ UpdateScan(s, r, {"failed"}) \/ UpdateScanFails(s, r, {"failed"})
  /\ adm' = [adm EXCEPT ![a].op = "done"]
  /\ UNCHANGED <<ledger, job, sub, run, stranded>>

AdminFail(a) ==
  LET s == adm[a].scan
      r == KilledByAdmin(row[s]) IN
  /\ adm[a].op = "fail"
  /\ UpdateScan(s, r, Open) \/ UpdateScanFails(s, r, Open)
  /\ adm' = [adm EXCEPT ![a].op = "done"]
  /\ UNCHANGED <<ledger, job, sub, run, stranded>>
-----------------------------------------------------------------------------
SubmitStep(r) == \/ SubmitQueued(r)
                 \/ Enqueue(r)
                 \/ EnqueueFails(r)
                 \/ \E t \in Tasks : RunInline(r, t)

QueueStep(s) == Backoff(s) \/ StallCheck(s)

TaskStep(t) == \/ ReadRow(t) \/ SkipSettled(t) \/ MarkProcessing(t)
               \/ Analyse(t) \/ StoreResult(t) \/ Charge(t) \/ Ack(t)
               \/ RetryLater(t) \/ GiveUp(t) \/ ThrowWithoutJob(t)
               \/ MarkRead(t) \/ MarkWrite(t)

Step ==
  \/ \E r \in Submits : SubmitCheck(r) \/ SubmitStep(r)
  \/ \E s \in Scans : QueueStep(s) \/ LoseLock(s) \/ Evict(s)
  \/ \E t \in Tasks : TaskStep(t) \/ Crash(t)
  \/ \E t \in Tasks, s \in Scans : Claim(t, s)
  \/ \E a \in AdminCalls :
       (\E s \in Scans : AdminRead(a, s)) \/ AdminRetry(a) \/ AdminFail(a)

Next == Step /\ UNCHANGED path

Spec == Init /\ [][Next]_vars
-----------------------------------------------------------------------------
(* What the code's scheduling justifies: a submit handler, a task and the  *)
(* queue's timers keep going; users, operators and faults owe nothing.     *)
Fairness ==
  /\ \A r \in Submits : WF_state(SubmitStep(r))
  /\ \A s \in Scans : WF_state(QueueStep(s))
  /\ \A s \in Scans : WF_state(\E t \in Tasks : Claim(t, s))
  /\ \A t \in Tasks : WF_state(TaskStep(t))

FairSpec == Spec /\ Fairness
-----------------------------------------------------------------------------
(* Safety under every fault, any number of submits and operator calls.     *)

\* A terminal row tells one story: a complete one carries a result and no
\* failure reason, even when an operator failed it while the worker was busy;
\* a failed one carries its reason.
RowConsistent ==
  \A s \in Scans :
    /\ row[s].status = "complete" => /\ row[s].payload # NoScan
                                     /\ ~row[s].reason
    /\ row[s].status = "failed" => row[s].reason

\* No units are charged for a scan that never had a result: whatever tasks
\* overlap, crash or retry, a ledger row follows a completion write.
ChargedHasResult ==
  \A s \in Scans : ledger[s] > 0 => row[s].payload # NoScan

\* Failed scans consume no units and complete ones are charged once, under
\* every fault, two submits, an operator and overlapping activations, unless
\* a lost update hit the row. The guards of the handlers agree with each
\* other: all that can break the charge is the gap between a guard and the
\* unconditional write that relies on it.
ChargedIsComplete ==
  \A s \in Scans \ raced :
    ledger[s] > 0 => row[s].status = "complete" /\ ledger[s] = 1

-----------------------------------------------------------------------------
(* Safety when every scan is submitted once, no operator interferes and no *)
(* worker outlives its lock: crashes, redeliveries, retries, evictions and *)
(* database errors are all allowed.                                        *)

SubmittedOnce == \A q, r \in Submits : SubmitScan[q] = SubmitScan[r] => q = r

Quiet == /\ SubmittedOnce
         /\ AdminCalls = {}
         /\ "zombie" \notin Faults

\* The processor runs at least once, the charge at most once.
ChargedAtMostOnce == \A s \in Scans : ledger[s] <= 1

\* A terminal row is final: in particular markScanFailed never downgrades a
\* complete scan.
TerminalIsFinal ==
  [][\A s \in Scans : row[s].status \in {"complete", "failed"} =>
                        row'[s].status = row[s].status]_vars

\* 'failed' is written only once the retries are exhausted, and the row shows
\* how many were burned.
FailedIsExhausted ==
  \A s \in Scans : row[s].status = "failed" =>
    /\ row[s].attempts = (IF path = "queue" THEN MaxAttempts ELSE 1)
    /\ job[s].state \in {"none", "failed"}

\* A result reused for an identical file leads back to an analysis: the scan
\* it comes from has a result, which is not this scan's own. Two identical
\* files in the pipeline at once never each wait on the other's verdict.
ReuseIsGrounded ==
  \A s, p \in Scans :
    (row[s].payload = p /\ s # p) => row[p].payload \notin {NoScan, s}

Contract == INSTANCE ScanContract
              WITH phase <- [s \in Scans |-> row[s].status], charged <- ledger

\* The pipeline implements the lifecycle it documents.
KeepsContract == Contract!Spec
-----------------------------------------------------------------------------
(* Progress                                                                *)

\* What leaves a scan between submission and a terminal status for good: a
\* submit that failed after its 'queued' write; inline, a process that died;
\* in the queue, a job that stalled twice; and a markScanFailed that died or
\* met a database error. Each is an event of this very scan.
Stranded(s) ==
  \/ s \in stranded
  \/ \E r \in Submits : SubmitScan[r] = s /\ sub[r] = "lost"

\* Nothing in flight is lost track of, but for those events: a scan between
\* submission and a terminal status has a submit, a job or a task that will
\* move it on, however often the job was redelivered, failed or evicted.
Tracked ==
  \A s \in Scans : row[s].status \in {"queued", "processing"} =>
    \/ \E r \in Submits : SubmitScan[r] = s /\ sub[r] = "written"
    \/ job[s].state \in {"waiting", "active", "delayed"}
    \/ \E t \in Tasks : run[t].scan = s
    \/ Stranded(s)

\* A submit that passed its checks ends in a terminal row, unless one of those
\* events hits the scan: retries are bounded and their exhaustion reaches the
\* row.
Settles ==
  \A r \in Submits :
    sub[r] = "checked" ~>
      \/ row[SubmitScan[r]].status \in {"complete", "failed"}
      \/ Stranded(SubmitScan[r])
-----------------------------------------------------------------------------
(* Statements of the repository's own docs and comments that the code does *)
(* not keep.                                                               *)

\* "A manual retry starts a fresh run" (retryJob): the row it re-queued, the
\* only kind that is queued with a counter of 0, is picked up.
RetriedRuns ==
  \A s \in Scans :
    (row[s].status = "queued" /\ row[s].attempts = 0) ~>
       row[s].status # "queued"
=============================================================================
