--------------------------- MODULE ScanQuietProofs ---------------------------
(***************************************************************************)
(* Proofs about ScanLifecycle when every scan is submitted once, no        *)
(* operator interferes and no worker outlives its lock: crashes,           *)
(* redeliveries, retries, evictions and database errors are all allowed.   *)
(***************************************************************************)
EXTENDS ScanLifecycleProofs

InProcessor == {"read", "start", "work", "store", "charge", "ack", "fail"}
InMark == {"mark", "markwrite"}

\* A submit of s went all the way to a job or to an inline run.
Started(s) == \E r \in Submits : SubmitScan[r] = s /\ sub[r] = "done"

\* Before that, nothing but the submit has touched the scan.
UntouchedBefore ==
  \A s \in Scans : ~Started(s) =>
    /\ job[s].state = "none"
    /\ \A t \in Tasks : run[t].pc # "idle" => run[t].scan # s
    /\ row[s].status \in {"awaiting_upload", "queued"}

SubmitInOrder ==
  \A r \in Submits :
    /\ sub[r] \in {"new", "checked"} =>
         row[SubmitScan[r]].status = "awaiting_upload"
    /\ sub[r] \in {"written", "done"} =>
         row[SubmitScan[r]].status # "awaiting_upload"

OneTaskPerScan ==
  \A t, u \in Tasks :
    (run[t].pc # "idle" /\ run[u].pc # "idle" /\ run[t].scan = run[u].scan) =>
       t = u

NoInlineJobs == path = "inline" => \A s \in Scans : job[s].state = "none"

\* A task in the processor holds its job; one in the 'failed' listener has
\* spent all the attempts.
HoldsJob(t) ==
  IF path = "queue"
  THEN /\ run[t].pc \in InProcessor => job[run[t].scan].owner = t
       /\ run[t].pc \in InMark => /\ job[run[t].scan].state \in {"none", "failed"}
                                  /\ run[t].made = MaxAttempts
  ELSE run[t].pc \in InMark => run[t].made = 1

\* What a task read or wrote is still what the row says.
SeesRow(t) ==
  LET r == row[run[t].scan] IN
  /\ (run[t].pc = "start" /\ run[t].seen \in Open) =>
       r.status \in {"queued", "processing"}
  /\ run[t].pc \in {"work", "store"} => r.status = "processing"
  /\ run[t].pc = "charge" => r.status = "complete" /\ ledger[run[t].scan] = 0
  /\ run[t].pc = "markwrite" => r.status \in {"queued", "processing"}

SourceOK(t) ==
  (run[t].pc = "store" /\ run[t].src # run[t].scan) =>
    /\ row[run[t].src].status = "complete"
    /\ row[run[t].src].payload # run[t].scan

TaskFine(t) == HoldsJob(t) /\ SeesRow(t) /\ SourceOK(t)

RowFine(s) ==
  /\ row[s].status # "complete" => ledger[s] = 0 /\ row[s].payload = NoScan
  /\ ledger[s] <= 1
  /\ row[s].status = "failed" =>
       /\ row[s].attempts = (IF path = "queue" THEN MaxAttempts ELSE 1)
       /\ job[s].state \in {"none", "failed"}

QInv == /\ UntouchedBefore
        /\ SubmitInOrder
        /\ OneTaskPerScan
        /\ NoInlineJobs
        /\ \A t \in Tasks : TaskFine(t)
        /\ \A s \in Scans : RowFine(s)
        /\ ReuseIsGrounded
-----------------------------------------------------------------------------
LEMMA InitQInv == ASSUME Init PROVE QInv
<1> USE Constants
<1>1. \A t \in Tasks : run[t].pc = "idle"
  BY DEF Init, NoRun, Activation
<1>2. \A s \in Scans : row[s].status = "awaiting_upload" /\ ledger[s] = 0
        /\ row[s].payload = NoScan /\ job[s].state = "none"
  BY DEF Init, NewRow, NoJob
<1>3. UntouchedBefore /\ OneTaskPerScan /\ NoInlineJobs
  BY <1>1, <1>2 DEF UntouchedBefore, OneTaskPerScan, NoInlineJobs
<1>4. SubmitInOrder
  BY <1>2 DEF SubmitInOrder, Init
<1>5. \A t \in Tasks : TaskFine(t)
  BY <1>1 DEF TaskFine, HoldsJob, SeesRow, SourceOK, InProcessor, InMark
<1>6. (\A s \in Scans : RowFine(s)) /\ ReuseIsGrounded
  BY <1>2 DEF RowFine, ReuseIsGrounded
<1> QED
  BY <1>3, <1>4, <1>5, <1>6 DEF QInv
-----------------------------------------------------------------------------
(* What one step does to one scan.                                         *)

\* A terminal status stays, and a complete row keeps its result.
Final(s) == /\ row[s].status \in {"complete", "failed"} =>
                 row'[s].status = row[s].status
            /\ row[s].status = "complete" => row'[s].payload = row[s].payload

\* A result appears at most once, and from a scan that has its own.
Grounded(s) ==
  \/ row'[s].payload = row[s].payload
  \/ /\ row[s].payload = NoScan
     /\ row'[s].payload \in Scans
     /\ row'[s].payload # s => /\ row[row'[s].payload].status = "complete"
                               /\ row[row'[s].payload].payload # s

\* The status takes a step of the lifecycle, or none.
Walks(s) ==
  \/ row'[s].status = row[s].status
  \/ row[s].status = "awaiting_upload" /\ row'[s].status = "queued"
  \/ row[s].status = "queued" /\ row'[s].status = "processing"
  \/ row[s].status = "processing" /\ row'[s].status = "complete"
  \/ row[s].status \in {"queued", "processing"} /\ row'[s].status = "failed"

RowStep(s) == Final(s) /\ Grounded(s) /\ Walks(s)

\* A task that is not idle has its scan to itself.
LEMMA Alone ==
  ASSUME IInv, QInv, NEW t \in Tasks, run[t].pc # "idle"
  PROVE  /\ run[t].scan \in Scans
         /\ row[run[t].scan] \in Row
         /\ job[run[t].scan] \in Job
         /\ Started(run[t].scan)
         /\ row[run[t].scan].status # "awaiting_upload"
         /\ \A u \in Tasks \ {t} : run[u].pc # "idle" =>
              run[u].scan # run[t].scan
<1>1. run[t].scan \in Scans
  BY DEF IInv, TasksOK, TaskOK
<1>2. Started(run[t].scan)
  BY <1>1 DEF QInv, UntouchedBefore
<1>3. row[run[t].scan].status # "awaiting_upload"
  BY <1>2 DEF Started, QInv, SubmitInOrder
<1> QED
  BY <1>1, <1>2, <1>3 DEF QInv, OneTaskPerScan, IInv, TypeOK

\* A step of task t, at work on scan s, that leaves everything else alone.
TouchesOnly(t, s) ==
  /\ OnlyMoves(t)
  /\ run'[t].pc # "idle" => run'[t].scan = s
  /\ \A p \in Scans \ {s} : /\ row'[p] = row[p]
                            /\ ledger'[p] = ledger[p]
                            /\ job'[p] = job[p]

LEMMA TaskAssembles ==
  ASSUME Quiet, IInv, QInv, UNCHANGED <<path, sub>>,
         NEW t \in Tasks, run[t].pc # "idle",
         NEW s \in Scans, s = run[t].scan,
         TouchesOnly(t, s), RowStep(s), RowFine(s)', TaskFine(t)',
         path = "inline" => job'[s].state = "none"
  PROVE  QInv'
<1>1. Started(s) /\ row[s].status # "awaiting_upload"
  BY Alone
<1>2. \A u \in Tasks \ {t} : run'[u] = run[u]
        /\ (run[u].pc # "idle" => run[u].scan \in Scans \ {s})
  BY Alone DEF TouchesOnly, OnlyMoves
<1>3. UntouchedBefore'
  BY <1>1, <1>2 DEF UntouchedBefore, QInv, TouchesOnly, Started
<1>4. SubmitInOrder'
  <2>1. row'[s].status # "awaiting_upload"
    BY <1>1 DEF RowStep, Walks
  <2>2. \A r \in Submits : SubmitScan[r] = s => sub[r] = "done"
    BY <1>1 DEF Started, Quiet, SubmittedOnce
  <2>3. \A r \in Submits : SubmitScan[r] \in Scans
    BY Constants
  <2> QED
    BY <2>1, <2>2, <2>3 DEF SubmitInOrder, QInv, TouchesOnly
<1>5. OneTaskPerScan'
  BY <1>2 DEF OneTaskPerScan, QInv, TouchesOnly
<1>6. NoInlineJobs'
  BY DEF NoInlineJobs, QInv, TouchesOnly
<1>7. ASSUME NEW u \in Tasks PROVE TaskFine(u)'
  <2>1. CASE u = t
    BY <2>1
  <2>2. CASE u # t
    <3>1. run'[u] = run[u]
      BY <1>2, <2>2
    <3>2. CASE run[u].pc = "idle"
      BY <3>1, <3>2 DEF TaskFine, HoldsJob, SeesRow, SourceOK, InProcessor,
                        InMark
    <3>3. CASE run[u].pc # "idle"
      <4>1. run[u].scan \in Scans \ {s}
        BY <1>2, <2>2, <3>3
      <4>2. /\ row'[run[u].scan] = row[run[u].scan]
            /\ job'[run[u].scan] = job[run[u].scan]
            /\ ledger'[run[u].scan] = ledger[run[u].scan]
        BY <4>1 DEF TouchesOnly
      <4>3. HoldsJob(u)'
        BY <3>1, <4>2 DEF QInv, TaskFine, HoldsJob
      <4>4. SeesRow(u)'
        BY <3>1, <4>2 DEF QInv, TaskFine, SeesRow
      <4>5. SourceOK(u)'
        <5>1. run[u].pc = "store" => run[u].src \in Scans
          BY DEF IInv, TasksOK, TaskOK
        <5> QED
          BY <3>1, <5>1 DEF QInv, TaskFine, SourceOK, TouchesOnly, RowStep,
                            Final
      <4> QED
        BY <4>3, <4>4, <4>5 DEF TaskFine
    <3> QED
      BY <3>2, <3>3
  <2> QED
    BY <2>1, <2>2
<1>8. ASSUME NEW p \in Scans PROVE RowFine(p)'
  BY DEF QInv, RowFine, TouchesOnly
<1>9. ReuseIsGrounded'
  <2> SUFFICES ASSUME NEW q \in Scans, NEW p \in Scans,
                      row'[q].payload = p, q # p
               PROVE  row'[p].payload \notin {NoScan, q}
    BY DEF ReuseIsGrounded
  <2>1. \A x \in Scans : row[x].payload \in Scans => row[x].payload # NoScan
    BY Constants
  <2>2. \A x, y \in Scans : (row[x].payload = y /\ x # y) =>
                               row[y].payload \notin {NoScan, x}
    BY DEF QInv, ReuseIsGrounded
  <2>3. CASE row'[s].payload = row[s].payload
    BY <2>2, <2>3 DEF TouchesOnly
  <2>4. CASE row'[s].payload # row[s].payload
    <3>1. /\ row[s].payload = NoScan
          /\ row'[s].payload \in Scans
          /\ row'[s].payload # s =>
               /\ row[row'[s].payload].status = "complete"
               /\ row[row'[s].payload].payload # s
      BY <2>4 DEF RowStep, Grounded
    <3>2. CASE q = s
      <4>1. row'[p] = row[p] /\ row[p].status = "complete"
            /\ row[p].payload # q
        BY <3>1, <3>2 DEF TouchesOnly
      <4>2. row[p].payload # NoScan
        BY <4>1 DEF IInv, RowConsistent
      <4> QED
        BY <4>1, <4>2
    <3>3. CASE q # s
      <4>1. row[q].payload = p
        BY <3>3 DEF TouchesOnly
      <4>2. p # s
        BY <2>2, <3>1, <3>3, <4>1
      <4> QED
        BY <2>2, <4>1, <4>2 DEF TouchesOnly
    <3> QED
      BY <3>2, <3>3
  <2> QED
    BY <2>3, <2>4
<1> QED
  BY <1>3, <1>4, <1>5, <1>6, <1>7, <1>8, <1>9 DEF QInv

\* A task in the processor is not in the way of its own job's end: a job it
\* holds is active, inline there is none.
LEMMA HeldJob ==
  ASSUME IInv, QInv, NEW t \in Tasks, run[t].pc # "idle"
  PROVE  /\ path \in {"queue", "inline"}
         /\ path = "inline" => /\ job[run[t].scan].state = "none"
                               /\ job[run[t].scan].owner # t
         /\ job[run[t].scan].owner = t => job[run[t].scan].state = "active"
<1> USE Constants
<1>1. run[t].scan \in Scans
  BY Alone
<1> QED
  BY <1>1 DEF IInv, TypeOK, LockedByItsTask, QInv, NoInlineJobs

\* Steps that change neither the row nor the ledger of the scan.
LEMMA SameRowStep ==
  ASSUME UNCHANGED row, NEW s PROVE RowStep(s)
BY DEF RowStep, Final, Grounded, Walks

LEMMA TaskLocal ==
  ASSUME Quiet, IInv, QInv, UNCHANGED path, NEW t \in Tasks,
         TaskStep(t) \/ Crash(t), NEW s, s = run[t].scan
  PROVE  /\ run[t].pc # "idle" /\ s \in Scans
         /\ TouchesOnly(t, s) /\ RowStep(s) /\ RowFine(s)' /\ TaskFine(t)'
         /\ path = "inline" => job'[s].state = "none"
<1> USE Constants
<1>0. /\ run \in [Tasks -> Run] /\ run[t] \in Run
      /\ row \in [Scans -> Row] /\ job \in [Scans -> Job]
      /\ ledger \in [Scans -> Nat]
  BY DEF IInv, TypeOK
<1>p. run[t].pc # "idle"
  BY DEF TaskStep, Crash, ReadRow, SkipSettled, MarkProcessing, Analyse,
         StoreResult, Charge, Ack, RetryLater, GiveUp, ThrowWithoutJob,
         MarkRead, MarkWrite
<1>a. /\ s \in Scans /\ row[s] \in Row /\ job[s] \in Job
      /\ row[s].status # "awaiting_upload"
  BY <1>p, Alone
<1>q. /\ path \in {"queue", "inline"}
      /\ path = "inline" => job[s].state = "none" /\ job[s].owner # t
      /\ job[s].owner = t => job[s].state = "active"
  BY <1>p, HeldJob
<1>f. TaskFine(t) /\ RowFine(s)
  BY <1>a DEF QInv
\* Idle tasks owe nothing.
<1>e. ASSUME Return(t)
      PROVE  OnlyMoves(t) /\ run'[t].pc = "idle" /\ TaskFine(t)'
  <2>1. OnlyMoves(t) /\ run'[t].pc = "idle"
    BY <1>0, <1>e, ReturnMoves DEF NoRun, Activation
  <2> QED
    BY <2>1 DEF TaskFine, HoldsJob, SeesRow, SourceOK, InProcessor, InMark
\* Moving on to settle the job.
<1>g. ASSUME NEW pc \in {"ack", "fail"}, Goto(t, pc), UNCHANGED job,
             run[t].pc \in InProcessor
      PROVE  OnlyMoves(t) /\ run'[t].scan = s /\ TaskFine(t)'
  <2>1. OnlyMoves(t) /\ run'[t].pc = pc /\ run'[t].scan = s
    BY <1>0, <1>g, GotoMoves DEF Pcs
  <2> QED
    BY <1>f, <1>g, <2>1 DEF TaskFine, HoldsJob, SeesRow, SourceOK, InProcessor,
                            InMark
<1>s. ASSUME UNCHANGED <<row, ledger, job>> PROVE RowStep(s) /\ RowFine(s)'
  BY <1>f, <1>s, SameRowStep DEF RowFine
<1>1. CASE ReadRow(t)
  <2>1. UNCHANGED <<row, ledger, job>> /\ run[t].pc = "read"
    BY <1>1 DEF ReadRow
  <2>2. OnlyMoves(t) /\ run'[t].scan = s /\ TaskFine(t)'
    <3>1. CASE Goto(t, "fail")
      BY <1>g, <2>1, <3>1 DEF InProcessor
    <3>2. CASE run' = [run EXCEPT ![t].pc = "start", ![t].seen = row[s].status]
      <4>1. run' \in [Tasks -> Run]
        BY <1>0, <1>a, <3>2 DEF Run, Row, Pcs
      <4>2. /\ run'[t].pc = "start" /\ run'[t].scan = s
            /\ run'[t].seen = row[s].status
            /\ \A u \in Tasks \ {t} : run'[u] = run[u]
        BY <1>0, <3>2 DEF Run
      <4>3. HoldsJob(t)'
        BY <1>f, <2>1, <4>2 DEF TaskFine, HoldsJob, InProcessor, InMark
      <4>4. SeesRow(t)' /\ SourceOK(t)'
        BY <1>a, <2>1, <4>2 DEF SeesRow, SourceOK, Open
      <4> QED
        BY <4>1, <4>2, <4>3, <4>4 DEF OnlyMoves, TaskFine
    <3> QED
      BY <1>1, <3>1, <3>2 DEF ReadRow
  <2> QED
    BY <1>a, <1>p, <1>q, <1>s, <2>1, <2>2 DEF TouchesOnly
<1>2. CASE SkipSettled(t)
  <2>1. UNCHANGED <<row, ledger, job>> /\ run[t].pc = "start" /\ Goto(t, "ack")
    BY <1>2 DEF SkipSettled
  <2>2. OnlyMoves(t) /\ run'[t].scan = s /\ TaskFine(t)'
    BY <1>g, <2>1 DEF InProcessor
  <2> QED
    BY <1>a, <1>p, <1>q, <1>s, <2>1, <2>2 DEF TouchesOnly
<1>3. CASE MarkProcessing(t)
  <2>1. /\ UNCHANGED <<ledger, job>> /\ run[t].pc = "start"
        /\ (Goto(t, "work") \/ Goto(t, "fail"))
        /\ row[s].status \in {"queued", "processing"}
    BY <1>f, <1>3 DEF MarkProcessing, TaskFine, SeesRow
  <2>2. /\ \A p \in Scans \ {s} : row'[p] = row[p]
        /\ row'[s] \in {row[s], Processing(row[s])}
        /\ Goto(t, "work") => row'[s] = Processing(row[s])
    <3>1. CASE UpdateScan(s, Processing(row[s]), Open)
      BY <1>0, <1>a, <3>1 DEF UpdateScan
    <3>2. CASE UpdateScanFails(s, Processing(row[s]), Open) /\ Goto(t, "fail")
      <4>1. ~Goto(t, "work")
        BY <1>0, <3>2, GotoMoves DEF Pcs
      <4> QED
        BY <1>0, <1>a, <3>2, <4>1 DEF UpdateScanFails, UpdateScan
    <3> QED
      BY <1>3, <3>1, <3>2 DEF MarkProcessing
  <2>3. /\ Processing(row[s]).status = "processing"
        /\ Processing(row[s]).payload = row[s].payload
    BY <1>a DEF Processing, Row
  <2>4. RowStep(s) /\ RowFine(s)'
    BY <1>f, <2>1, <2>2, <2>3 DEF RowStep, Final, Grounded, Walks, RowFine
  <2>5. OnlyMoves(t) /\ run'[t].scan = s /\ TaskFine(t)'
    <3>1. CASE Goto(t, "fail")
      BY <1>g, <2>1, <3>1 DEF InProcessor
    <3>2. CASE Goto(t, "work")
      <4>1. OnlyMoves(t) /\ run'[t].pc = "work" /\ run'[t].scan = s
        BY <1>0, <3>2, GotoMoves DEF Pcs
      <4> QED
        BY <1>f, <2>1, <2>2, <2>3, <3>2, <4>1
           DEF TaskFine, HoldsJob, SeesRow, SourceOK, InProcessor, InMark
    <3> QED
      BY <2>1, <3>1, <3>2
  <2> QED
    BY <1>a, <1>p, <1>q, <2>1, <2>2, <2>4, <2>5 DEF TouchesOnly
<1>4. CASE Analyse(t)
  <2>1. UNCHANGED <<row, ledger, job>> /\ run[t].pc = "work"
        /\ row[s].status = "processing"
    BY <1>f, <1>4 DEF Analyse, TaskFine, SeesRow
  <2>2. OnlyMoves(t) /\ run'[t].scan = s /\ TaskFine(t)'
    <3>1. CASE Goto(t, "fail")
      BY <1>g, <2>1, <3>1 DEF InProcessor
    <3>2. ASSUME NEW src \in Sources(s),
                 run' = [run EXCEPT ![t].pc = "store", ![t].src = src]
          PROVE  OnlyMoves(t) /\ run'[t].scan = s /\ TaskFine(t)'
      <4>1. src \in Scans
        BY <1>a DEF Sources, Priors
      <4>2. run' \in [Tasks -> Run]
        BY <1>0, <3>2, <4>1 DEF Run, Pcs
      <4>3. /\ run'[t].pc = "store" /\ run'[t].scan = s /\ run'[t].src = src
            /\ \A u \in Tasks \ {t} : run'[u] = run[u]
        BY <1>0, <3>2 DEF Run
      <4>4. HoldsJob(t)' /\ SeesRow(t)'
        BY <1>f, <2>1, <4>3 DEF TaskFine, HoldsJob, SeesRow, InProcessor,
                                InMark
      <4>5. src # s => row[src].status = "complete" /\ row[src].payload # s
        <5>1. src # s => row[src].status = "complete"
          BY DEF Sources, Priors
        <5>2. row[s].payload = NoScan
          BY <1>f, <2>1 DEF RowFine
        <5> QED
          BY <1>a, <4>1, <5>1, <5>2 DEF QInv, ReuseIsGrounded
      <4> QED
        BY <2>1, <4>2, <4>3, <4>4, <4>5 DEF OnlyMoves, TaskFine, SourceOK
    <3> QED
      BY <1>4, <3>1, <3>2 DEF Analyse
  <2> QED
    BY <1>a, <1>p, <1>q, <1>s, <2>1, <2>2 DEF TouchesOnly
<1>5. CASE StoreResult(t)
  <2> DEFINE done == Completed(row[s], run[t].src)
  <2>1. /\ UNCHANGED <<ledger, job>> /\ run[t].pc = "store"
        /\ (Goto(t, "charge") \/ Goto(t, "fail"))
        /\ row[s].status = "processing"
    BY <1>f, <1>5 DEF StoreResult, TaskFine, SeesRow
  <2>2. /\ \A p \in Scans \ {s} : row'[p] = row[p]
        /\ row'[s] \in {row[s], done}
        /\ Goto(t, "charge") => row'[s] = done
    <3>1. CASE UpdateScan(s, done, Open)
      BY <1>0, <1>a, <3>1 DEF UpdateScan
    <3>2. CASE UpdateScanFails(s, done, Open) /\ Goto(t, "fail")
      <4>1. ~Goto(t, "charge")
        BY <1>0, <3>2, GotoMoves DEF Pcs
      <4> QED
        BY <1>0, <1>a, <3>2, <4>1 DEF UpdateScanFails, UpdateScan
    <3> QED
      BY <1>5, <3>1, <3>2 DEF StoreResult
  <2>3. done.status = "complete" /\ done.payload = run[t].src
    BY <1>a DEF Completed, Row
  <2>4. /\ row[s].payload = NoScan /\ ledger[s] = 0
        /\ run[t].src \in Scans
        /\ run[t].src # s => /\ row[run[t].src].status = "complete"
                             /\ row[run[t].src].payload # s
    BY <1>f, <2>1 DEF RowFine, TaskFine, SourceOK, IInv, TasksOK, TaskOK
  <2>5. RowStep(s) /\ RowFine(s)'
    BY <1>f, <2>1, <2>2, <2>3, <2>4 DEF RowStep, Final, Grounded, Walks, RowFine
  <2>6. OnlyMoves(t) /\ run'[t].scan = s /\ TaskFine(t)'
    <3>1. CASE Goto(t, "fail")
      BY <1>g, <2>1, <3>1 DEF InProcessor
    <3>2. CASE Goto(t, "charge")
      <4>1. OnlyMoves(t) /\ run'[t].pc = "charge" /\ run'[t].scan = s
        BY <1>0, <3>2, GotoMoves DEF Pcs
      <4> QED
        BY <1>f, <2>1, <2>2, <2>3, <2>4, <3>2, <4>1
           DEF TaskFine, HoldsJob, SeesRow, SourceOK, InProcessor, InMark
    <3> QED
      BY <2>1, <3>1, <3>2
  <2> QED
    BY <1>a, <1>p, <1>q, <2>1, <2>2, <2>5, <2>6 DEF TouchesOnly
<1>6. CASE Charge(t)
  <2>1. /\ UNCHANGED <<row, job>> /\ run[t].pc = "charge" /\ Goto(t, "ack")
        /\ row[s].status = "complete" /\ ledger[s] = 0
    BY <1>f, <1>6 DEF Charge, TaskFine, SeesRow
  <2>2. /\ \A p \in Scans \ {s} : ledger'[p] = ledger[p]
        /\ ledger'[s] \in {0, 1}
    BY <1>0, <1>a, <1>6, <2>1 DEF Charge
  <2>3. RowStep(s) /\ RowFine(s)'
    BY <1>f, <2>1, <2>2, SameRowStep DEF RowFine
  <2>4. OnlyMoves(t) /\ run'[t].scan = s /\ TaskFine(t)'
    BY <1>g, <2>1 DEF InProcessor
  <2> QED
    BY <1>a, <1>p, <1>q, <2>1, <2>2, <2>3, <2>4 DEF TouchesOnly
\* The job of a task that is not in the listener may change as it likes: its
\* row has not failed.
<1>j. ASSUME UNCHANGED <<row, ledger>>, job[s].owner = t,
             \A p \in Scans \ {s} : job'[p] = job[p]
      PROVE  RowStep(s) /\ RowFine(s)' /\ path # "inline"
  <2>1. row[s].status # "failed"
    BY <1>f, <1>j, <1>q DEF RowFine
  <2> QED
    BY <1>f, <1>j, <1>q, <2>1, SameRowStep DEF RowFine
<1>7. CASE Ack(t) \/ Crash(t) \/ RetryLater(t)
  <2>1. /\ UNCHANGED <<row, ledger>> /\ Return(t)
        /\ \A p \in Scans \ {s} : job'[p] = job[p]
        /\ job[s].owner # t => UNCHANGED job
    BY <1>0, <1>7 DEF Ack, Crash, RetryLater
  <2>2. OnlyMoves(t) /\ run'[t].pc = "idle" /\ TaskFine(t)'
    BY <1>e, <2>1
  <2>3. RowStep(s) /\ RowFine(s)' /\ (path = "inline" => job'[s].state = "none")
    BY <1>j, <1>q, <1>s, <2>1
  <2> QED
    BY <1>a, <1>p, <2>1, <2>2, <2>3 DEF TouchesOnly
<1>m. ASSUME NEW n \in 0..MaxAttempts,
             run' = [run EXCEPT ![t].pc = "mark", ![t].made = n]
      PROVE  OnlyMoves(t) /\ run'[t].pc = "mark" /\ run'[t].scan = s
             /\ run'[t].made = n
  <2>1. run' \in [Tasks -> Run]
    BY <1>0, <1>m DEF Run, Pcs
  <2> QED
    BY <1>0, <1>m, <2>1 DEF Run, OnlyMoves
<1>8. CASE GiveUp(t)
  <2>1. /\ UNCHANGED <<row, ledger>> /\ run[t].pc = "fail"
        /\ job[s].owner = t /\ job[s].attempts + 1 >= MaxAttempts
    BY <1>8 DEF GiveUp
  <2>2. job[s].attempts + 1 = MaxAttempts
    <3>1. job[s].attempts \in 0..MaxAttempts /\ job[s].attempts < MaxAttempts
      BY <1>a, <1>q, <2>1 DEF Job, IInv, JobsOK
    <3> QED
      BY <2>1, <3>1 DEF MaxAttempts
  <2>3. /\ \A p \in Scans \ {s} : job'[p] = job[p]
        /\ job'[s].state = "failed"
    BY <1>0, <1>a, <1>8 DEF GiveUp, Job
  <2>4. OnlyMoves(t) /\ run'[t].pc = "mark" /\ run'[t].scan = s
        /\ run'[t].made = MaxAttempts
    <3>1. run' = [run EXCEPT ![t].pc = "mark", ![t].made = MaxAttempts]
      BY <1>8, <2>2 DEF GiveUp
    <3>2. MaxAttempts \in 0..MaxAttempts
      BY DEF MaxAttempts
    <3> QED
      BY <1>m, <3>1, <3>2
  <2>5. RowStep(s) /\ RowFine(s)' /\ path = "queue"
    BY <1>j, <1>q, <2>1, <2>3
  <2>6. TaskFine(t)'
    BY <2>3, <2>4, <2>5 DEF TaskFine, HoldsJob, SeesRow, SourceOK, InProcessor,
                            InMark
  <2> QED
    BY <1>a, <1>p, <2>1, <2>3, <2>4, <2>5, <2>6 DEF TouchesOnly
<1>9. CASE ThrowWithoutJob(t)
  <2>1. /\ UNCHANGED <<row, ledger, job>> /\ run[t].pc = "fail"
        /\ job[s].owner # t
    BY <1>9 DEF ThrowWithoutJob
  <2>2. path = "inline"
    BY <1>f, <1>q, <2>1 DEF TaskFine, HoldsJob, InProcessor
  <2>3. 1 \in 0..MaxAttempts
    BY DEF MaxAttempts
  <2>4. OnlyMoves(t) /\ run'[t].pc = "mark" /\ run'[t].scan = s
        /\ run'[t].made = 1
    BY <1>m, <1>9, <2>2, <2>3 DEF ThrowWithoutJob
  <2>5. TaskFine(t)'
    BY <2>2, <2>4 DEF TaskFine, HoldsJob, SeesRow, SourceOK, InProcessor, InMark
  <2> QED
    BY <1>a, <1>p, <1>q, <1>s, <2>1, <2>4, <2>5 DEF TouchesOnly
<1>10. CASE MarkRead(t)
  <2>1. /\ UNCHANGED <<row, ledger, job>> /\ run[t].pc = "mark"
        /\ \/ Return(t)
           \/ Goto(t, "markwrite") /\ row[s].status \in Open
    BY <1>10 DEF MarkRead
  <2>2. OnlyMoves(t) /\ (run'[t].pc # "idle" => run'[t].scan = s)
        /\ TaskFine(t)'
    <3>1. CASE Return(t)
      BY <1>e, <3>1
    <3>2. CASE Goto(t, "markwrite") /\ row[s].status \in Open
      <4>1. OnlyMoves(t) /\ run'[t].pc = "markwrite" /\ run'[t].scan = s
            /\ run'[t].made = run[t].made
        BY <1>0, <3>2, GotoMoves DEF Pcs
      <4> QED
        BY <1>a, <1>f, <2>1, <3>2, <4>1
           DEF TaskFine, HoldsJob, SeesRow, SourceOK, InProcessor, InMark, Open
    <3> QED
      BY <2>1, <3>1, <3>2
  <2> QED
    BY <1>a, <1>p, <1>q, <1>s, <2>1, <2>2 DEF TouchesOnly
<1>11. CASE MarkWrite(t)
  <2> DEFINE r == MarkedFailed(row[s], run[t].made)
  <2>1. /\ UNCHANGED <<ledger, job>> /\ run[t].pc = "markwrite" /\ Return(t)
        /\ row[s].status \in {"queued", "processing"}
        /\ run[t].made = (IF path = "queue" THEN MaxAttempts ELSE 1)
        /\ job[s].state \in {"none", "failed"}
    BY <1>f, <1>q, <1>11 DEF MarkWrite, TaskFine, HoldsJob, SeesRow, InMark
  <2>2. /\ \A p \in Scans \ {s} : row'[p] = row[p]
        /\ row'[s] \in {row[s], r}
    BY <1>0, <1>a, <1>11 DEF MarkWrite, UpdateScan, UpdateScanFails
  <2>3. r.status = "failed" /\ r.payload = row[s].payload
        /\ r.attempts = run[t].made
    BY <1>a DEF MarkedFailed, Row
  <2>4. RowStep(s) /\ RowFine(s)'
    BY <1>f, <2>1, <2>2, <2>3 DEF RowStep, Final, Grounded, Walks, RowFine
  <2> QED
    BY <1>a, <1>e, <1>p, <1>q, <2>1, <2>2, <2>4 DEF TouchesOnly
<1> QED
  BY <1>1, <1>2, <1>3, <1>4, <1>5, <1>6, <1>7, <1>8, <1>9, <1>10, <1>11
     DEF TaskStep
-----------------------------------------------------------------------------
(* The steps that are not a task's.                                        *)

LEMMA SubmitLocal ==
  ASSUME Quiet, IInv, QInv, UNCHANGED path, NEW r \in Submits,
         SubmitCheck(r) \/ SubmitStep(r)
  PROVE  QInv' /\ UNCHANGED ledger /\ \A p \in Scans : RowStep(p)
<1> USE Constants
<1> DEFINE s == SubmitScan[r]
<1>0. /\ s \in Scans /\ row \in [Scans -> Row] /\ row[s] \in Row
      /\ run \in [Tasks -> Run] /\ job \in [Scans -> Job]
      /\ sub \in [Submits -> SubStates]
  BY DEF IInv, TypeOK
<1>1. sub[r] \in {"new", "checked", "written"}
  BY DEF SubmitCheck, SubmitStep, SubmitQueued, Enqueue, EnqueueFails, RunInline
<1>2. ~Started(s) /\ \A q \in Submits : SubmitScan[q] = s => q = r
  BY <1>1 DEF Started, Quiet, SubmittedOnce
<1>3. /\ job[s].state = "none"
      /\ \A t \in Tasks : run[t].pc # "idle" => run[t].scan # s
      /\ row[s].status \in {"awaiting_upload", "queued"}
      /\ row[s].payload = NoScan /\ ledger[s] = 0
  BY <1>0, <1>2 DEF QInv, UntouchedBefore, RowFine
<1>4. \A p \in Scans : Started(p) => p # s
  BY <1>2
\* A step that touches at most the submit and its row.
<1>a. ASSUME UNCHANGED <<ledger, job, run>>,
             \A q \in Submits \ {r} : sub'[q] = sub[q],
             row' \in {row, [row EXCEPT ![s] = Queued(row[s])]},
             row' # row => row[s].status = "awaiting_upload",
             sub'[r] # "done",
             sub'[r] \in {"new", "checked"} => row'[s].status = "awaiting_upload",
             sub'[r] = "written" => row'[s].status # "awaiting_upload"
      PROVE  QInv' /\ UNCHANGED ledger /\ \A p \in Scans : RowStep(p)
  <2>1. /\ \A p \in Scans \ {s} : row'[p] = row[p]
        /\ row'[s].status \in {"awaiting_upload", "queued"}
        /\ row'[s].payload = NoScan
        /\ row[s].status = "queued" => row'[s].status = "queued"
    BY <1>0, <1>3, <1>a DEF Queued, Row
  <2>2. \A p \in Scans : RowStep(p)
    BY <1>3, <2>1 DEF RowStep, Final, Grounded, Walks
  <2>3. \A p \in Scans : Started(p)' <=> Started(p)
    BY <1>1, <1>a DEF Started
  <2>4. UntouchedBefore'
    BY <1>a, <2>1, <2>3 DEF QInv, UntouchedBefore
  <2>5. SubmitInOrder'
    <3>1. \A q \in Submits \ {r} : SubmitScan[q] \in Scans \ {s}
      BY <1>2
    <3> QED
      BY <1>a, <2>1, <3>1 DEF QInv, SubmitInOrder
  <2>6. OneTaskPerScan' /\ NoInlineJobs'
    BY <1>a DEF QInv, OneTaskPerScan, NoInlineJobs
  <2>7. ASSUME NEW t \in Tasks PROVE TaskFine(t)'
    <3>1. CASE run[t].pc = "idle"
      BY <1>a, <3>1 DEF TaskFine, HoldsJob, SeesRow, SourceOK, InProcessor,
                        InMark
    <3>2. CASE run[t].pc # "idle"
      <4>1. run[t].scan \in Scans \ {s}
        BY <1>3, <3>2, Alone
      <4>2. run[t].pc = "store" => run[t].src \in Scans
        BY DEF IInv, TasksOK, TaskOK
      <4>3. row[s].status # "complete"
        BY <1>3
      <4> QED
        BY <1>a, <2>1, <4>1, <4>2, <4>3
           DEF QInv, TaskFine, HoldsJob, SeesRow, SourceOK
    <3> QED
      BY <3>1, <3>2
  <2>8. \A p \in Scans : RowFine(p)'
    BY <1>3, <1>a, <2>1 DEF QInv, RowFine
  <2>9. ReuseIsGrounded'
    <3>1. \A p \in Scans : row'[p].payload = row[p].payload
      BY <1>3, <2>1
    <3> QED
      BY <3>1 DEF QInv, ReuseIsGrounded
  <2> QED
    BY <1>a, <2>2, <2>4, <2>5, <2>6, <2>7, <2>8, <2>9 DEF QInv
\* A step that starts the scan: its job is added, or a task runs it inline.
<1>b. ASSUME UNCHANGED <<row, ledger>>, sub[r] = "written",
             sub' = [sub EXCEPT ![r] = "done"],
             \A p \in Scans \ {s} : job'[p] = job[p],
             job'[s].state \in {"none", "waiting"},
             path = "inline" => UNCHANGED job,
             OneTaskPerScan', \A t \in Tasks : TaskFine(t)',
             \A t \in Tasks : run'[t] = run[t] \/ run'[t].scan = s
      PROVE  QInv' /\ UNCHANGED ledger /\ \A p \in Scans : RowStep(p)
  <2>1. row[s].status = "queued"
    BY <1>b, <1>3 DEF QInv, SubmitInOrder
  <2>2. Started(s)' /\ \A p \in Scans \ {s} : Started(p)' <=> Started(p)
    BY <1>0, <1>b DEF Started
  <2>3. UntouchedBefore'
    BY <1>b, <2>2 DEF QInv, UntouchedBefore
  <2>4. SubmitInOrder'
    BY <1>0, <1>b, <2>1 DEF QInv, SubmitInOrder
  <2>5. NoInlineJobs'
    BY <1>b DEF QInv, NoInlineJobs
  <2>6. \A p \in Scans : RowFine(p)'
    BY <1>b, <2>1 DEF QInv, RowFine
  <2>7. ReuseIsGrounded' /\ \A p \in Scans : RowStep(p)
    BY <1>b, SameRowStep DEF QInv, ReuseIsGrounded
  <2> QED
    BY <1>b, <2>3, <2>4, <2>5, <2>6, <2>7 DEF QInv
<1>5. CASE SubmitCheck(r) \/ EnqueueFails(r)
  <2>1. /\ UNCHANGED <<row, ledger, job, run>>
        /\ \A q \in Submits \ {r} : sub'[q] = sub[q]
        /\ sub'[r] \in {"checked", "refused", "lost"}
        /\ sub'[r] = "checked" => row[s].status = "awaiting_upload"
    BY <1>0, <1>5 DEF SubmitCheck, EnqueueFails
  <2>2. /\ UNCHANGED <<ledger, job, run>> /\ row' = row
        /\ sub'[r] # "done" /\ sub'[r] # "written"
        /\ sub'[r] \in {"new", "checked"} => row'[s].status = "awaiting_upload"
    BY <2>1
  <2> QED
    BY <1>a, <2>1, <2>2
<1>6. CASE SubmitQueued(r)
  <2>1. row[s].status = "awaiting_upload" /\ sub[r] = "checked"
    BY <1>6 DEF SubmitQueued, QInv, SubmitInOrder
  <2>2. /\ UNCHANGED <<ledger, job, run>>
        /\ \A q \in Submits \ {r} : sub'[q] = sub[q]
        /\ row' = row \/ row' = [row EXCEPT ![s] = Queued(row[s])]
        /\ sub'[r] \in {"written", "lost"}
        /\ sub'[r] = "written" => row' = [row EXCEPT ![s] = Queued(row[s])]
    BY <1>0, <1>6 DEF SubmitQueued, UpdateScan, UpdateScanFails
  <2>3. sub'[r] = "written" => row'[s].status = "queued"
    BY <1>0, <2>2 DEF Queued, Row
  <2> QED
    BY <1>a, <2>1, <2>2, <2>3
<1>7. CASE Enqueue(r)
  <2>1. /\ UNCHANGED <<row, ledger, run>> /\ path = "queue"
        /\ sub[r] = "written" /\ sub' = [sub EXCEPT ![r] = "done"]
        /\ \A p \in Scans \ {s} : job'[p] = job[p]
        /\ job'[s].state = "waiting"
    BY <1>0, <1>3, <1>7 DEF Enqueue, NoJob
  <2>2. OneTaskPerScan'
    BY <2>1 DEF QInv, OneTaskPerScan
  <2>3. ASSUME NEW t \in Tasks PROVE TaskFine(t)'
    <3>1. CASE run[t].pc = "idle"
      BY <2>1, <3>1 DEF TaskFine, HoldsJob, SeesRow, SourceOK, InProcessor,
                        InMark
    <3>2. CASE run[t].pc # "idle"
      <4>1. run[t].scan \in Scans \ {s}
        BY <1>3, <3>2, Alone
      <4> QED
        BY <2>1, <4>1 DEF QInv, TaskFine, HoldsJob, SeesRow, SourceOK
    <3> QED
      BY <3>1, <3>2
  <2> QED
    BY <1>b, <2>1, <2>2, <2>3
<1>8. ASSUME NEW t \in Tasks, RunInline(r, t)
      PROVE  QInv' /\ UNCHANGED ledger /\ \A p \in Scans : RowStep(p)
  <2>1. /\ UNCHANGED <<row, ledger, job>> /\ path = "inline"
        /\ sub[r] = "written" /\ sub' = [sub EXCEPT ![r] = "done"]
        /\ run' = [run EXCEPT ![t] = Activation("start", s)]
    BY <1>8 DEF RunInline
  <2>2. /\ \A u \in Tasks \ {t} : run'[u] = run[u]
        /\ run'[t].pc = "start" /\ run'[t].scan = s
    BY <1>0, <2>1 DEF Activation
  <2>3. OneTaskPerScan'
    BY <1>3, <2>2 DEF QInv, OneTaskPerScan
  <2>4. ASSUME NEW u \in Tasks PROVE TaskFine(u)'
    <3>1. CASE u = t
      <4>1. row[s].status = "queued"
        BY <1>3, <2>1 DEF QInv, SubmitInOrder
      <4> QED
        BY <2>1, <2>2, <3>1, <4>1
           DEF TaskFine, HoldsJob, SeesRow, SourceOK, InProcessor, InMark
    <3>2. CASE u # t
      BY <2>1, <2>2, <3>2 DEF QInv, TaskFine, HoldsJob, SeesRow, SourceOK
    <3> QED
      BY <3>1, <3>2
  <2> QED
    BY <1>b, <1>3, <2>1, <2>2, <2>3, <2>4
<1> QED
  BY <1>5, <1>6, <1>7, <1>8 DEF SubmitStep

LEMMA QueueLocal ==
  ASSUME Quiet, IInv, QInv, UNCHANGED path, NEW s \in Scans,
         QueueStep(s) \/ LoseLock(s) \/ Evict(s)
  PROVE  QInv' /\ UNCHANGED ledger /\ \A p \in Scans : RowStep(p)
<1> USE Constants
<1>0. job \in [Scans -> Job] /\ job[s] \in Job
  BY DEF IInv, TypeOK
\* The job is not a task's, and a failed one stays so or goes.
<1>1. /\ UNCHANGED <<row, ledger, sub, run>>
      /\ \A p \in Scans \ {s} : job'[p] = job[p]
      /\ job[s].state # "none" /\ job[s].owner \notin Tasks
      /\ job[s].state = "failed" => job'[s].state = "none"
  BY <1>0 DEF QueueStep, Backoff, StallCheck, LoseLock, Evict, Quiet, NoJob,
              IInv, LockedByItsTask
<1>2. Started(s) /\ path # "inline"
  BY <1>1 DEF QInv, UntouchedBefore, NoInlineJobs
<1>3. UntouchedBefore'
  BY <1>1, <1>2 DEF QInv, UntouchedBefore, Started
<1>4. SubmitInOrder' /\ OneTaskPerScan' /\ NoInlineJobs' /\ ReuseIsGrounded'
  BY <1>1, <1>2 DEF QInv, SubmitInOrder, OneTaskPerScan, NoInlineJobs,
                    ReuseIsGrounded
<1>5. ASSUME NEW t \in Tasks PROVE TaskFine(t)'
  <2>1. SeesRow(t)' /\ SourceOK(t)'
    BY <1>1 DEF QInv, TaskFine, SeesRow, SourceOK
  <2>2. HoldsJob(t)'
    <3>1. CASE run[t].pc = "idle"
      BY <1>1, <3>1 DEF HoldsJob, InProcessor, InMark
    <3>2. CASE run[t].pc # "idle" /\ run[t].scan # s
      <4>1. run[t].scan \in Scans \ {s}
        BY <3>2, Alone
      <4> QED
        BY <1>1, <4>1 DEF QInv, TaskFine, HoldsJob
    <3>3. CASE run[t].pc # "idle" /\ run[t].scan = s
      BY <1>1, <3>3 DEF QInv, TaskFine, HoldsJob
    <3> QED
      BY <3>1, <3>2, <3>3
  <2> QED
    BY <2>1, <2>2 DEF TaskFine
<1>6. \A p \in Scans : RowFine(p)'
  BY <1>1 DEF QInv, RowFine
<1> QED
  BY <1>1, <1>3, <1>4, <1>5, <1>6, SameRowStep DEF QInv

LEMMA ClaimLocal ==
  ASSUME Quiet, IInv, QInv, UNCHANGED path, NEW t \in Tasks, NEW s \in Scans,
         Claim(t, s)
  PROVE  QInv' /\ UNCHANGED ledger /\ \A p \in Scans : RowStep(p)
<1> USE Constants
<1>0. job \in [Scans -> Job] /\ run \in [Tasks -> Run] /\ job[s] \in Job
  BY DEF IInv, TypeOK
<1>1. /\ UNCHANGED <<row, ledger, sub>>
      /\ run[t].pc = "idle" /\ job[s].state = "waiting"
      /\ \A p \in Scans \ {s} : job'[p] = job[p]
      /\ job'[s].state = "active" /\ job'[s].owner = t
      /\ \A u \in Tasks \ {t} : run'[u] = run[u]
      /\ run'[t].pc = "read" /\ run'[t].scan = s
  BY <1>0 DEF Claim, Activation, Job
<1>2. Started(s) /\ path # "inline"
  BY <1>1 DEF QInv, UntouchedBefore, NoInlineJobs
\* A waiting job belongs to nobody.
<1>3. \A u \in Tasks : run[u].pc # "idle" => run[u].scan \in Scans \ {s}
  <2> SUFFICES ASSUME NEW u \in Tasks, run[u].pc # "idle"
               PROVE  run[u].scan \in Scans \ {s}
    OBVIOUS
  <2>1. run[u].pc \in InProcessor \cup InMark
    BY <1>0 DEF Run, Pcs, InProcessor, InMark
  <2>2. run[u].pc \in InProcessor => job[run[u].scan].state = "active"
    BY <1>2, Alone DEF QInv, TaskFine, HoldsJob, IInv, LockedByItsTask, TypeOK
  <2>3. run[u].pc \in InMark => job[run[u].scan].state \in {"none", "failed"}
    BY <1>2 DEF QInv, TaskFine, HoldsJob, IInv, TypeOK
  <2> QED
    BY <1>1, <2>1, <2>2, <2>3, Alone
<1>4. UntouchedBefore'
  BY <1>1, <1>2 DEF QInv, UntouchedBefore, Started
<1>5. SubmitInOrder' /\ NoInlineJobs' /\ ReuseIsGrounded'
  BY <1>1, <1>2 DEF QInv, SubmitInOrder, NoInlineJobs, ReuseIsGrounded
<1>6. OneTaskPerScan'
  BY <1>1, <1>3 DEF QInv, OneTaskPerScan
<1>7. ASSUME NEW u \in Tasks PROVE TaskFine(u)'
  <2>1. CASE u = t
    BY <1>1, <2>1 DEF TaskFine, HoldsJob, SeesRow, SourceOK, InProcessor, InMark
  <2>2. CASE u # t /\ run[u].pc = "idle"
    BY <1>1, <2>2 DEF TaskFine, HoldsJob, SeesRow, SourceOK, InProcessor,
                      InMark
  <2>3. CASE u # t /\ run[u].pc # "idle"
    BY <1>1, <1>3, <2>3 DEF QInv, TaskFine, HoldsJob, SeesRow, SourceOK
  <2> QED
    BY <2>1, <2>2, <2>3
<1>8. \A p \in Scans : RowFine(p)'
  <2>1. row[s].status # "failed"
    BY <1>1 DEF QInv, RowFine
  <2> QED
    BY <1>1, <2>1 DEF QInv, RowFine
<1> QED
  BY <1>1, <1>4, <1>5, <1>6, <1>7, <1>8, SameRowStep DEF QInv
-----------------------------------------------------------------------------
LEMMA NextQInv ==
  ASSUME Quiet, IInv, QInv, [Next]_vars
  PROVE  QInv' /\ \A p \in Scans : RowStep(p)
<1>1. CASE UNCHANGED vars
  <2>1. QInv'
    BY <1>1 DEF vars, QInv, UntouchedBefore, Started, SubmitInOrder,
                OneTaskPerScan, NoInlineJobs, TaskFine, HoldsJob, SeesRow,
                SourceOK, RowFine, ReuseIsGrounded
  <2> QED
    BY <1>1, <2>1, SameRowStep DEF vars
<1>2. ASSUME UNCHANGED path, NEW t \in Tasks, TaskStep(t) \/ Crash(t)
      PROVE  QInv' /\ \A p \in Scans : RowStep(p)
  <2> PICK s : s = run[t].scan
    OBVIOUS
  <2>1. /\ run[t].pc # "idle" /\ s \in Scans
        /\ TouchesOnly(t, s) /\ RowStep(s) /\ RowFine(s)' /\ TaskFine(t)'
        /\ path = "inline" => job'[s].state = "none"
    BY <1>2, TaskLocal
  <2>2. QInv'
    BY <1>2, <2>1, TaskAssembles, TaskFrame
  <2>3. \A p \in Scans \ {s} : RowStep(p)
    BY <2>1 DEF TouchesOnly, RowStep, Final, Grounded, Walks
  <2> QED
    BY <2>1, <2>2, <2>3
<1>3. ~\E a \in AdminCalls : TRUE
  BY DEF Quiet
<1>4. CASE Next
  BY <1>2, <1>3, <1>4, SubmitLocal, QueueLocal, ClaimLocal DEF Next, Step
<1> QED
  BY <1>1, <1>4
-----------------------------------------------------------------------------
\* A step writes one row at most.
LEMMA OneRow ==
  ASSUME IInv, Next
  PROVE  \E s : \A p \in Scans \ {s} : row'[p] = row[p]
<1>0. row \in [Scans -> Row]
  BY DEF IInv, TypeOK
<1>1. ASSUME NEW s, NEW r, NEW accepted,
             UpdateScan(s, r, accepted) \/ UpdateScanFails(s, r, accepted)
      PROVE  \A p \in Scans \ {s} : row'[p] = row[p]
  BY <1>0, <1>1 DEF UpdateScan, UpdateScanFails
<1>2. ASSUME NEW r \in Submits, SubmitCheck(r) \/ SubmitStep(r)
      PROVE  \E s : \A p \in Scans \ {s} : row'[p] = row[p]
  BY <1>1, <1>2 DEF SubmitCheck, SubmitStep, SubmitQueued, Enqueue,
                    EnqueueFails, RunInline
<1>3. ASSUME NEW t \in Tasks, TaskStep(t) \/ Crash(t)
      PROVE  \E s : \A p \in Scans \ {s} : row'[p] = row[p]
  <2>1. CASE MarkProcessing(t)
    BY <1>1, <2>1 DEF MarkProcessing
  <2>2. CASE StoreResult(t)
    BY <1>1, <2>2 DEF StoreResult
  <2>3. CASE MarkWrite(t)
    BY <1>1, <2>3 DEF MarkWrite
  <2> QED
    BY <1>3, <2>1, <2>2, <2>3
       DEF TaskStep, Crash, ReadRow, SkipSettled, Analyse, Charge, Ack,
           RetryLater, GiveUp, ThrowWithoutJob, MarkRead
<1>4. ASSUME NEW s \in Scans, QueueStep(s) \/ LoseLock(s) \/ Evict(s)
      PROVE  UNCHANGED row
  BY <1>4 DEF QueueStep, Backoff, StallCheck, LoseLock, Evict
<1>5. ASSUME NEW t \in Tasks, NEW s \in Scans, Claim(t, s)
      PROVE  UNCHANGED row
  BY <1>5 DEF Claim
<1>6. ASSUME NEW a \in AdminCalls,
             (\E s \in Scans : AdminRead(a, s)) \/ AdminRetry(a) \/ AdminFail(a)
      PROVE  \E s : \A p \in Scans \ {s} : row'[p] = row[p]
  BY <1>1, <1>6 DEF AdminRead, AdminRetry, AdminFail
<1> QED
  BY <1>2, <1>3, <1>4, <1>5, <1>6 DEF Next, Step

\* The ledger moves with the charge of a complete scan and not otherwise.
LEMMA LedgerStep ==
  ASSUME IInv, QInv, Next
  PROVE  \/ UNCHANGED ledger
         \/ /\ UNCHANGED row
            /\ \E s \in Scans : /\ row[s].status = "complete"
                                /\ ledger[s] = 0
                                /\ ledger' = [ledger EXCEPT ![s] = 1]
<1>1. CASE \E t \in Tasks : Charge(t)
  <2> PICK t \in Tasks : Charge(t)
    BY <1>1
  <2>1. run[t].pc = "charge" /\ UNCHANGED row
    BY DEF Charge
  <2>2. /\ run[t].scan \in Scans
        /\ row[run[t].scan].status = "complete"
        /\ ledger[run[t].scan] = 0
    BY <2>1, Alone DEF QInv, TaskFine, SeesRow
  <2> QED
    BY <2>1, <2>2 DEF Charge
<1>2. CASE ~\E t \in Tasks : Charge(t)
  BY <1>2 DEF Next, Step, SubmitCheck, SubmitStep, SubmitQueued, Enqueue,
     EnqueueFails, RunInline, QueueStep, Backoff, StallCheck, LoseLock, Evict,
     Claim, TaskStep, Crash, ReadRow, SkipSettled, MarkProcessing, Analyse,
     StoreResult, Ack, RetryLater, GiveUp, ThrowWithoutJob, MarkRead,
     MarkWrite, AdminRead, AdminRetry, AdminFail
<1> QED
  BY <1>1, <1>2

LEMMA NextContract ==
  ASSUME Quiet, IInv, QInv, [Next]_vars
  PROVE  [Contract!Next]_(Contract!cvars)
<1> DEFINE phase == [s \in Scans |-> row[s].status]
<1>1. CASE UNCHANGED vars
  BY <1>1 DEF vars, Contract!cvars
<1>2. CASE Next
  <2>1. CASE UNCHANGED ledger
    <3>1. PICK s : \A p \in Scans \ {s} : row'[p] = row[p]
      BY <1>2, OneRow
    <3>2. CASE phase' = phase
      BY <2>1, <3>2 DEF Contract!cvars
    <3>3. CASE phase' # phase
      <4>1. s \in Scans /\ row'[s].status # row[s].status
        BY <3>1, <3>3
      <4>2. \A to : row'[s].status = to => phase' = [phase EXCEPT ![s] = to]
        BY <3>1, <4>1
      <4>3. Walks(s)
        BY <4>1, NextQInv DEF RowStep
      <4>4. \/ Contract!Submit(s) \/ Contract!Begin(s) \/ Contract!Finish(s)
            \/ Contract!Fail(s)
        BY <2>1, <4>1, <4>2, <4>3
           DEF Walks, Contract!Submit, Contract!Begin, Contract!Finish,
               Contract!Fail, Contract!Move
      <4> QED
        BY <4>1, <4>4 DEF Contract!Next
    <3> QED
      BY <3>2, <3>3
  <2>2. CASE ledger' # ledger
    <3>1. PICK s \in Scans : /\ row[s].status = "complete"
                             /\ ledger[s] = 0
                             /\ ledger' = [ledger EXCEPT ![s] = 1]
      BY <1>2, <2>2, LedgerStep
    <3>2. UNCHANGED row
      BY <1>2, <2>2, LedgerStep
    <3>3. Contract!Charge(s)
      BY <3>1, <3>2 DEF Contract!Charge
    <3> QED
      BY <3>3 DEF Contract!Next
  <2> QED
    BY <2>1, <2>2
<1> QED
  BY <1>1, <1>2

LEMMA InitContract == ASSUME Init PROVE Contract!Init
BY DEF Init, NewRow, Contract!Init
-----------------------------------------------------------------------------
(* Nothing in flight is lost track of. Tracked is not inductive: that a    *)
(* task may drop a scan whose job is done rests on what it saw of the row. *)

Settled(s) == row[s].status \in {"complete", "failed"}
LiveJob == {"waiting", "active", "delayed"}
Busy(s) == \E t \in Tasks : run[t].pc # "idle" /\ run[t].scan = s

\* A scan that was started has a job or a task, until it is settled or its way
\* there was cut off.
Followed ==
  \A s \in Scans : Started(s) =>
    Settled(s) \/ job[s].state \in LiveJob \/ Busy(s) \/ s \in stranded

\* A row beyond awaiting_upload has a submit that took it there.
Submitted ==
  \A s \in Scans : row[s].status # "awaiting_upload" =>
    \E r \in Submits : SubmitScan[r] = s /\ sub[r] \in {"written", "done", "lost"}

\* A task acknowledges, or is about to, only what is settled.
AckFine(t) ==
  (run[t].pc = "ack" \/ (run[t].pc = "start" /\ run[t].seen \notin Open))
    => Settled(run[t].scan)

TInv == /\ Followed
        /\ Submitted
        /\ \A t \in Tasks : AckFine(t)

LEMMA InitTInv == ASSUME Init PROVE TInv
<1>1. \A t \in Tasks : run[t].pc = "idle"
  BY DEF Init, NoRun, Activation
<1>2. \A s \in Scans : row[s].status = "awaiting_upload" /\ job[s].state = "none"
  BY DEF Init, NewRow, NoJob
<1>3. \A s \in Scans : ~Started(s)
  BY DEF Init, Started
<1> QED
  BY <1>1, <1>2, <1>3 DEF TInv, Followed, Submitted, AckFine

\* What a step of task t owes the scan s it works on.
Leaves(t, s) ==
  /\ \/ Settled(s)' \/ job'[s].state \in LiveJob \/ run'[t].pc # "idle"
     \/ s \in stranded'
  /\ stranded \subseteq stranded'
  /\ AckFine(t)'

LEMMA TaskTracks ==
  ASSUME Quiet, IInv, QInv, TInv, UNCHANGED <<path, sub>>,
         NEW t \in Tasks, run[t].pc # "idle",
         NEW s \in Scans, s = run[t].scan,
         TouchesOnly(t, s), RowStep(s), Leaves(t, s)
  PROVE  TInv'
<1>1. Started(s) /\ row[s].status # "awaiting_upload"
  BY Alone
<1>2. \A u \in Tasks \ {t} : run'[u] = run[u]
        /\ (run[u].pc # "idle" => run[u].scan \in Scans \ {s})
  BY Alone DEF TouchesOnly, OnlyMoves
<1>3. \A p \in Scans : Started(p)' <=> Started(p)
  BY DEF Started
<1>4. \A p \in Scans \ {s} : /\ row'[p] = row[p] /\ job'[p] = job[p]
                             /\ Settled(p)' <=> Settled(p)
  BY DEF TouchesOnly, Settled
<1>5. Followed'
  <2>1. run'[t].pc # "idle" => Busy(s)'
    BY DEF TouchesOnly, Busy
  <2>2. ASSUME NEW p \in Scans \ {s}, Busy(p) PROVE Busy(p)'
    BY <1>2, <2>2 DEF Busy
  <2> QED
    BY <1>3, <1>4, <2>1, <2>2 DEF TInv, Followed, Leaves
<1>6. Submitted'
  BY <1>1, <1>4 DEF TInv, Submitted
<1>8. ASSUME NEW u \in Tasks PROVE AckFine(u)'
  <2>1. CASE u = t
    BY <2>1 DEF Leaves
  <2>2. CASE u # t
    BY <1>2, <1>4, <2>2 DEF TInv, AckFine
  <2> QED
    BY <2>1, <2>2
<1> QED
  BY <1>5, <1>6, <1>8 DEF TInv

LEMMA TaskLeaves ==
  ASSUME Quiet, IInv, QInv, TInv, UNCHANGED path, NEW t \in Tasks,
         TaskStep(t) \/ Crash(t), NEW s \in Scans, s = run[t].scan,
         run[t].pc # "idle", RowStep(s)
  PROVE  Leaves(t, s)
<1> USE Constants
<1>0. /\ run \in [Tasks -> Run] /\ run[t] \in Run
      /\ row \in [Scans -> Row] /\ row[s] \in Row
      /\ job \in [Scans -> Job] /\ job[s] \in Job
  BY DEF IInv, TypeOK
<1>f. TaskFine(t) /\ AckFine(t)
  BY DEF QInv, TInv
<1>q. /\ path \in {"queue", "inline"}
      /\ job[s].owner = t => job[s].state = "active"
  BY HeldJob
<1>s. Settled(s) => Settled(s)'
  BY DEF Settled, RowStep, Final
<1>h. stranded \subseteq stranded'
  BY DEF TaskStep, Crash, ReadRow, SkipSettled, MarkProcessing, Analyse,
         StoreResult, Charge, Ack, RetryLater, GiveUp, ThrowWithoutJob,
         MarkRead, MarkWrite, Strand
\* Steps after which the task goes on, or need not.
<1>j. ASSUME AckFine(t)',
             run'[t].pc # "idle" \/ Settled(s)' \/ s \in stranded'
      PROVE  Leaves(t, s)
  BY <1>h, <1>j DEF Leaves
<1>g. ASSUME NEW pc \in {"work", "charge", "fail", "markwrite"}, Goto(t, pc)
      PROVE  Leaves(t, s)
  <2>1. run'[t].pc = pc
    BY <1>0, <1>g, GotoMoves DEF Pcs
  <2> QED
    BY <1>g, <1>j, <2>1 DEF AckFine
<1>e. ASSUME Return(t) PROVE run'[t].pc = "idle" /\ AckFine(t)'
  BY <1>0, <1>e, ReturnMoves DEF NoRun, Activation, AckFine
<1>1. CASE ReadRow(t)
  <2>1. CASE Goto(t, "fail")
    BY <1>g, <1>1, <2>1 DEF ReadRow
  <2>2. CASE run' = [run EXCEPT ![t].pc = "start", ![t].seen = row[s].status]
    <3>1. /\ run'[t].pc = "start" /\ run'[t].scan = s
          /\ run'[t].seen = row[s].status
          /\ UNCHANGED row
      BY <1>0, <1>1, <2>2 DEF Run, ReadRow
    <3>2. AckFine(t)'
      BY <1>0, <3>1 DEF AckFine, Settled, Open, Row, Statuses, Started
    <3> QED
      BY <1>j, <3>1, <3>2
  <2> QED
    BY <1>1, <2>1, <2>2 DEF ReadRow
<1>2. CASE SkipSettled(t)
  <2>1. UNCHANGED row /\ run[t].pc = "start" /\ run[t].seen \notin Open
        /\ run'[t].pc = "ack" /\ run'[t].scan = s
    BY <1>0, <1>2, GotoMoves DEF SkipSettled, Pcs
  <2> QED
    BY <1>f, <1>j, <1>s, <2>1 DEF AckFine
<1>3. CASE MarkProcessing(t)
  BY <1>g, <1>3 DEF MarkProcessing
<1>4. CASE Analyse(t)
  <2>1. CASE Goto(t, "fail")
    BY <1>g, <1>4, <2>1 DEF Analyse
  <2>2. ASSUME NEW src, run' = [run EXCEPT ![t].pc = "store", ![t].src = src]
        PROVE  Leaves(t, s)
    <3>1. run'[t].pc = "store"
      BY <1>0, <2>2 DEF Run
    <3> QED
      BY <1>j, <3>1 DEF AckFine
  <2> QED
    BY <1>4, <2>1, <2>2 DEF Analyse
<1>5. CASE StoreResult(t)
  BY <1>g, <1>5 DEF StoreResult
<1>6. CASE Charge(t)
  <2>1. UNCHANGED row /\ run'[t].pc = "ack" /\ run'[t].scan = s
        /\ row[s].status = "complete"
    BY <1>0, <1>6, <1>f, GotoMoves DEF Charge, Pcs, TaskFine, SeesRow
  <2> QED
    BY <1>j, <2>1 DEF AckFine, Settled
<1>7. CASE Ack(t)
  <2>1. UNCHANGED row /\ Return(t) /\ Settled(s)
    BY <1>7, <1>f DEF Ack, AckFine
  <2> QED
    BY <1>e, <1>j, <1>s, <2>1
<1>8. CASE Crash(t)
  <2>1. Return(t) /\ run[t].pc \in Pcs \ {"idle"}
    BY <1>0, <1>8 DEF Crash, Run
  <2>2. CASE path = "inline" \/ run[t].pc \in InMark
    BY <1>8, <1>e, <1>j, <2>1, <2>2 DEF Crash, Strand, InMark
  <2>3. CASE path = "queue" /\ run[t].pc \notin InMark
    <3>1. job[s].owner = t
      BY <1>f, <2>1, <2>3 DEF TaskFine, HoldsJob, InProcessor, InMark, Pcs
    <3>2. job'[s].state = "active"
      BY <1>0, <1>8, <1>q, <3>1 DEF Crash
    <3> QED
      BY <1>e, <1>h, <2>1, <3>2 DEF Leaves, LiveJob
  <2> QED
    BY <1>q, <2>2, <2>3
<1>9. CASE RetryLater(t)
  <2>1. Return(t) /\ job'[s].state = "delayed"
    BY <1>0, <1>9 DEF RetryLater, Job
  <2> QED
    BY <1>e, <1>h, <2>1 DEF Leaves, LiveJob
<1>m. ASSUME NEW n, run' = [run EXCEPT ![t].pc = "mark", ![t].made = n]
      PROVE  run'[t].pc = "mark" /\ AckFine(t)'
  <2>1. run'[t].pc = "mark"
    BY <1>0, <1>m DEF Run
  <2> QED
    BY <2>1 DEF AckFine
<1>10. CASE GiveUp(t)
  BY <1>m, <1>j, <1>10 DEF GiveUp
<1>11. CASE ThrowWithoutJob(t)
  <2>1. path = "inline"
    BY <1>f, <1>q, <1>11 DEF ThrowWithoutJob, TaskFine, HoldsJob, InProcessor
  <2> QED
    BY <1>m, <1>j, <1>11, <2>1 DEF ThrowWithoutJob
<1>12. CASE MarkRead(t)
  <2>1. \/ Goto(t, "markwrite")
        \/ Return(t) /\ (Settled(s) \/ s \in stranded')
    <3>1. row[s].status \notin Open => Settled(s)
      BY <1>0 DEF Open, Settled, Row, Statuses
    <3> QED
      BY <1>12, <3>1 DEF MarkRead, Strand
  <2> QED
    BY <1>e, <1>g, <1>j, <1>s, <2>1
<1>13. CASE MarkWrite(t)
  <2> DEFINE r == MarkedFailed(row[s], run[t].made)
  <2>1. Return(t) /\ (row' = [row EXCEPT ![s] = r] \/ s \in stranded')
    BY <1>13 DEF MarkWrite, UpdateScan, Strand
  <2>2. r.status = "failed"
    BY <1>0 DEF MarkedFailed, Row
  <2> QED
    BY <1>0, <1>e, <1>j, <2>1, <2>2 DEF Settled
<1> QED
  BY <1>1, <1>2, <1>3, <1>4, <1>5, <1>6, <1>7, <1>8, <1>9, <1>10, <1>11, <1>12,
     <1>13 DEF TaskStep

LEMMA SubmitTracks ==
  ASSUME Quiet, IInv, QInv, TInv, UNCHANGED path, NEW r \in Submits,
         SubmitCheck(r) \/ SubmitStep(r)
  PROVE  TInv'
<1> USE Constants
<1> DEFINE s == SubmitScan[r]
<1>0. /\ s \in Scans /\ row \in [Scans -> Row] /\ row[s] \in Row
      /\ run \in [Tasks -> Run] /\ job \in [Scans -> Job]
      /\ sub \in [Submits -> SubStates]
  BY DEF IInv, TypeOK
<1>1. sub[r] \in {"new", "checked", "written"}
  BY DEF SubmitCheck, SubmitStep, SubmitQueued, Enqueue, EnqueueFails, RunInline
<1>2. ~Started(s) /\ \A q \in Submits : SubmitScan[q] = s => q = r
  BY <1>1 DEF Started, Quiet, SubmittedOnce
<1>3. /\ job[s].state = "none"
      /\ \A t \in Tasks : run[t].pc # "idle" => run[t].scan \in Scans \ {s}
  BY <1>0, <1>2, Alone DEF QInv, UntouchedBefore
<1>4. \A p \in Scans : RowStep(p)
  BY SubmitLocal
<1>5. \A p \in Scans : Settled(p) => Settled(p)'
  BY <1>4 DEF Settled, RowStep, Final
<1>h. UNCHANGED stranded
  BY DEF SubmitCheck, SubmitStep, SubmitQueued, Enqueue, EnqueueFails, RunInline
\* A step of the submit alone.
<1>a. ASSUME UNCHANGED <<job, run>>,
             \A q \in Submits \ {r} : sub'[q] = sub[q],
             \A p \in Scans \ {s} : row'[p] = row[p],
             sub'[r] # "done",
             row'[s].status # "awaiting_upload" => sub'[r] \in {"written", "lost"}
      PROVE  TInv'
  <2>1. \A p \in Scans : Started(p)' <=> Started(p)
    BY <1>1, <1>a DEF Started
  <2>2. Followed'
    BY <1>5, <1>a, <1>h, <2>1 DEF TInv, Followed, Busy
  <2>3. Submitted'
    <3>1. ASSUME NEW p \in Scans \ {s}, row'[p].status # "awaiting_upload"
          PROVE  \E q \in Submits : SubmitScan[q] = p /\ sub'[q] \in {"written", "done", "lost"}
      <4>1. PICK q \in Submits : SubmitScan[q] = p /\ sub[q] \in {"written", "done", "lost"}
        BY <1>a, <3>1 DEF TInv, Submitted
      <4> QED
        BY <1>a, <4>1
    <3> QED
      BY <1>a, <3>1 DEF Submitted
  <2>5. \A t \in Tasks : AckFine(t)'
    BY <1>3, <1>5, <1>a DEF TInv, AckFine
  <2> QED
    BY <2>2, <2>3, <2>5 DEF TInv
\* A step that starts the scan.
<1>b. ASSUME UNCHANGED row, sub' = [sub EXCEPT ![r] = "done"],
             \A p \in Scans \ {s} : job'[p] = job[p],
             \A t \in Tasks : AckFine(t)',
             \A p \in Scans : Busy(p) => Busy(p)',
             \/ job'[s].state = "waiting"
             \/ job'[s].state = "none" /\ path = "inline" /\ Busy(s)'
      PROVE  TInv'
  <2>1. Started(s)' /\ \A p \in Scans \ {s} : Started(p)' <=> Started(p)
    BY <1>0, <1>b DEF Started
  <2>2. Followed'
    BY <1>5, <1>b, <1>h, <2>1 DEF TInv, Followed, LiveJob
  <2>3. Submitted'
    BY <1>0, <1>b DEF TInv, Submitted
  <2> QED
    BY <1>b, <2>2, <2>3 DEF TInv
<1>6. CASE SubmitCheck(r) \/ EnqueueFails(r)
  <2>1. /\ UNCHANGED <<row, job, run>>
        /\ \A q \in Submits \ {r} : sub'[q] = sub[q]
        /\ sub'[r] # "done"
        /\ sub[r] = "new" \/ sub'[r] = "lost"
    BY <1>0, <1>6 DEF SubmitCheck, EnqueueFails
  <2>2. sub[r] = "new" => row[s].status = "awaiting_upload"
    BY DEF QInv, SubmitInOrder
  <2> QED
    BY <1>a, <2>1, <2>2
<1>7. CASE SubmitQueued(r)
  <2>1. /\ UNCHANGED <<job, run>>
        /\ \A q \in Submits \ {r} : sub'[q] = sub[q]
        /\ \A p \in Scans \ {s} : row'[p] = row[p]
        /\ sub'[r] \in {"written", "lost"}
    BY <1>0, <1>7 DEF SubmitQueued, UpdateScan, UpdateScanFails
  <2> QED
    BY <1>a, <2>1
<1>8. CASE Enqueue(r)
  <2>1. /\ UNCHANGED <<row, run>> /\ sub' = [sub EXCEPT ![r] = "done"]
        /\ \A p \in Scans \ {s} : job'[p] = job[p]
        /\ job'[s].state = "waiting"
    BY <1>0, <1>3, <1>8 DEF Enqueue, NoJob
  <2>2. /\ \A t \in Tasks : AckFine(t)'
        /\ \A p \in Scans : Busy(p) => Busy(p)'
    BY <2>1 DEF TInv, AckFine, Settled, Busy
  <2> QED
    BY <1>b, <2>1, <2>2
<1>9. ASSUME NEW t \in Tasks, RunInline(r, t) PROVE TInv'
  <2>1. /\ UNCHANGED <<row, job>> /\ path = "inline"
        /\ sub' = [sub EXCEPT ![r] = "done"]
        /\ run[t].pc = "idle"
        /\ run' = [run EXCEPT ![t] = Activation("start", s)]
    BY <1>9 DEF RunInline
  <2>2. /\ \A u \in Tasks \ {t} : run'[u] = run[u]
        /\ run'[t].pc = "start" /\ run'[t].scan = s
        /\ run'[t].seen = "awaiting_upload"
    BY <1>0, <2>1 DEF Activation
  <2>3. \A u \in Tasks : AckFine(u)'
    BY <2>1, <2>2 DEF TInv, AckFine, Settled, Open
  <2>4. /\ Busy(s)'
        /\ \A p \in Scans : Busy(p) => Busy(p)'
    BY <2>1, <2>2 DEF Busy
  <2> QED
    BY <1>3, <1>b, <2>1, <2>3, <2>4
<1> QED
  BY <1>6, <1>7, <1>8, <1>9 DEF SubmitStep

\* The queue's own steps and a claim: the rows stay, the tasks do not stop.
LEMMA JobTracks ==
  ASSUME Quiet, IInv, QInv, TInv, UNCHANGED path, NEW s \in Scans,
         \/ QueueStep(s) \/ LoseLock(s) \/ Evict(s)
         \/ \E t \in Tasks : Claim(t, s)
  PROVE  TInv'
<1> USE Constants
<1>0. job \in [Scans -> Job] /\ job[s] \in Job /\ run \in [Tasks -> Run]
  BY DEF IInv, TypeOK
<1>f. Started(s) => \/ Settled(s) \/ job[s].state \in LiveJob
                    \/ Busy(s) \/ s \in stranded
  BY DEF TInv, Followed
<1>1. /\ UNCHANGED <<row, sub>> /\ stranded \subseteq stranded'
      /\ \A p \in Scans \ {s} : job'[p] = job[p]
  BY <1>0 DEF QueueStep, Backoff, StallCheck, LoseLock, Evict, Claim, Strand
<1>2. \A p \in Scans : /\ Started(p)' <=> Started(p)
                       /\ Settled(p)' <=> Settled(p)
  BY <1>1 DEF Started, Settled
<1>3. \A t \in Tasks : \/ run'[t] = run[t]
                       \/ run[t].pc = "idle" /\ run'[t].pc = "read"
  BY <1>0 DEF QueueStep, Backoff, StallCheck, LoseLock, Evict, Claim, Activation
<1>4. \A p \in Scans : Busy(p) => Busy(p)'
  BY <1>3 DEF Busy
<1>5. \A t \in Tasks : AckFine(t)'
  BY <1>1, <1>3 DEF TInv, AckFine, Settled
<1>6. Started(s)' => \/ Settled(s)' \/ job'[s].state \in LiveJob
                     \/ Busy(s)' \/ s \in stranded'
  <2>1. CASE Backoff(s) \/ \E t \in Tasks : Claim(t, s)
    BY <1>0, <2>1 DEF Backoff, Claim, Job, LiveJob
  <2>2. CASE StallCheck(s)
    <3>1. job'[s].state = "waiting" \/ s \in stranded'
      BY <1>0, <2>2 DEF StallCheck, Strand, Job
    <3> QED
      BY <3>1 DEF LiveJob
  <2>3. CASE Evict(s)
    <3>1. job[s].state \in {"completed", "failed"}
      BY <2>3 DEF Evict
    <3> QED
      BY <1>1, <1>2, <1>4, <1>f, <3>1 DEF LiveJob
  <2>4. ~LoseLock(s)
    BY DEF LoseLock, Quiet
  <2> QED
    BY <2>1, <2>2, <2>3, <2>4 DEF QueueStep
<1>7. Followed'
  <2>1. ASSUME NEW p \in Scans \ {s}
        PROVE  Started(p)' => \/ Settled(p)' \/ job'[p].state \in LiveJob
                              \/ Busy(p)' \/ p \in stranded'
    BY <1>1, <1>2, <1>4 DEF TInv, Followed
  <2> QED
    BY <1>6, <2>1 DEF Followed
<1>8. Submitted'
  BY <1>1 DEF TInv, Submitted
<1> QED
  BY <1>5, <1>7, <1>8 DEF TInv

LEMMA NextTInv ==
  ASSUME Quiet, IInv, QInv, TInv, [Next]_vars
  PROVE  TInv'
<1>1. CASE UNCHANGED vars
  BY <1>1 DEF vars, TInv, Followed, Submitted, AckFine, Started, Settled, Busy
<1>2. ASSUME UNCHANGED path, NEW t \in Tasks, TaskStep(t) \/ Crash(t)
      PROVE  TInv'
  <2> PICK s : s = run[t].scan
    OBVIOUS
  <2>1. run[t].pc # "idle" /\ s \in Scans /\ TouchesOnly(t, s) /\ RowStep(s)
    BY <1>2, TaskLocal
  <2> QED
    BY <1>2, <2>1, TaskLeaves, TaskTracks, TaskFrame
<1>3. ~\E a \in AdminCalls : TRUE
  BY DEF Quiet
<1>4. CASE Next
  BY <1>2, <1>3, <1>4, SubmitTracks, JobTracks DEF Next, Step
<1> QED
  BY <1>1, <1>4

\* A scan in flight has a submit, a job or a task, or one of the events that
\* Stranded lists has hit it.
LEMMA TracksAll == ASSUME Quiet, IInv, QInv, TInv PROVE Tracked
<1> SUFFICES ASSUME NEW s \in Scans, row[s].status \in {"queued", "processing"},
                    ~\E r \in Submits : SubmitScan[r] = s /\ sub[r] = "written",
                    job[s].state \notin {"waiting", "active", "delayed"},
                    ~\E t \in Tasks : run[t].scan = s
             PROVE  Stranded(s)
  BY DEF Tracked
<1>1. PICK r \in Submits : SubmitScan[r] = s /\ sub[r] \in {"done", "lost"}
  BY DEF TInv, Submitted
<1>2. CASE sub[r] = "lost"
  BY <1>1, <1>2 DEF Stranded
<1>3. CASE sub[r] = "done"
  <2>1. Started(s) /\ ~Settled(s) /\ ~Busy(s)
    BY <1>1, <1>3 DEF Started, Settled, Busy
  <2> QED
    BY <2>1 DEF TInv, Followed, LiveJob, Stranded
<1> QED
  BY <1>1, <1>2, <1>3
-----------------------------------------------------------------------------
\* The inductive invariant of the quiet pipeline.
THEOREM QuietInvariance == ASSUME Quiet PROVE Spec => [](IInv /\ QInv)
<1>1. Init => IInv /\ QInv
  BY InitIInv, InitQInv
<1>2. IInv /\ QInv /\ [Next]_vars => (IInv /\ QInv)'
  BY Quiet, NextIInv, NextQInv
<1> QED
  BY <1>1, <1>2, PTL DEF Spec

\* However often the processor crashes, is redelivered or retried, a scan's
\* units are charged at most once.
THEOREM ChargesAtMostOnce == ASSUME Quiet PROVE Spec => []ChargedAtMostOnce
<1>1. QInv => ChargedAtMostOnce
  BY DEF QInv, RowFine, ChargedAtMostOnce
<1> QED
  BY <1>1, QuietInvariance, PTL

\* A scan is only marked failed when its attempts are spent.
THEOREM FailuresAreExhausted == ASSUME Quiet PROVE Spec => []FailedIsExhausted
<1>1. QInv => FailedIsExhausted
  BY DEF QInv, RowFine, FailedIsExhausted
<1> QED
  BY <1>1, QuietInvariance, PTL

\* Dedup never leaves two scans that each carry the other's result, nor one
\* that carries the result of a scan without any.
THEOREM ReuseLeadsToAnalysis == ASSUME Quiet PROVE Spec => []ReuseIsGrounded
<1>1. QInv => ReuseIsGrounded
  BY DEF QInv
<1> QED
  BY <1>1, QuietInvariance, PTL

\* A complete or failed scan never changes its status again.
THEOREM TerminalStays == ASSUME Quiet PROVE Spec => TerminalIsFinal
<1>1. IInv /\ QInv /\ [Next]_vars =>
        [\A s \in Scans : row[s].status \in {"complete", "failed"} =>
                            row'[s].status = row[s].status]_vars
  BY Quiet, NextQInv DEF RowStep, Final
<1> QED
  BY <1>1, QuietInvariance, PTL DEF Spec, TerminalIsFinal

\* The queue, the worker and their retries implement the documented lifecycle
\* of a scan, charge included.
THEOREM PipelineKeepsContract == ASSUME Quiet PROVE Spec => KeepsContract
<1>1. Init => Contract!Init
  BY InitContract
<1>2. IInv /\ QInv /\ [Next]_vars => [Contract!Next]_(Contract!cvars)
  BY Quiet, NextContract
<1> QED
  BY <1>1, <1>2, QuietInvariance, PTL DEF Spec, KeepsContract, Contract!Spec

\* Whatever crashes, is redelivered, evicted or fails, a scan between submission
\* and a terminal status has a submit, a job or a task to move it on, unless an
\* event that Stranded lists has hit this very scan: a submit lost after its
\* 'queued' write, a job that stalled twice, a markScanFailed that died or met a
\* database error, or an inline run that died.
THEOREM NothingIsLost == ASSUME Quiet PROVE Spec => []Tracked
<1>1. Init => IInv /\ QInv /\ TInv
  BY InitIInv, InitQInv, InitTInv
<1>2. IInv /\ QInv /\ TInv /\ [Next]_vars => (IInv /\ QInv /\ TInv)'
  BY Quiet, NextIInv, NextQInv, NextTInv
<1>3. IInv /\ QInv /\ TInv => Tracked
  BY Quiet, TracksAll
<1> QED
  BY <1>1, <1>2, <1>3, PTL DEF Spec
=============================================================================
