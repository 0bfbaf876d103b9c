--------------------------------- MODULE Panel ---------------------------------
(***************************************************************************)
(* A live panel of the web client: the hook useResource                    *)
(* (src/lib/useResource.js) as the report page and the upload page use it. *)
(* One panel shows one subject (a scan) at a time; the hook loads it, polls *)
(* it while its gate says there is work left, and refreshes it on demand.  *)
(* Loads, polls and refreshes are promises: their answers are made when    *)
(* the server reads the subject and come back in any order.                *)
(*                                                                         *)
(* A subject is a scan row, and a version of it is its status with a count  *)
(* of the changes so far. The pages poll a scan on display while it is      *)
(* queued or processing and blank the panel on a reload (keepDataOnReload   *)
(* is the mock backend's alone).                                            *)
(***************************************************************************)
EXTENDS Naturals, FiniteSets

CONSTANTS
  Subjects,   \* what the panel may be asked to show
  MaxRuns,    \* bound on the navigations and reloads
  MaxFails,   \* bound on the fetches that fail
  MaxTaps,    \* bound on the refreshes
  MaxHides,   \* bound on the times the tab is hidden
  MaxRetries, \* bound on the failed scans an operator puts back in the queue
  MaxPolls,   \* bound on the polls out at once; the code allows one
  None        \* no value

ASSUME Constants ==
  /\ {MaxRuns, MaxFails, MaxTaps, MaxHides, MaxRetries} \subseteq Nat
  /\ MaxPolls \in Nat \ {0}
  /\ None \notin Subjects

VARIABLES
  server,   \* the version of each subject: its row
  want,     \* the subject the page asks for: the hook's deps
  state,    \* the hook's state; by is the kind of fetch that last set it
  fetches,  \* the calls of the loader whose answer will still be looked at
  visible,  \* the tab
  left      \* what the bounds leave of runs, failures, taps, hides, retries

vars == <<server, want, state, fetches, visible, left>>
-----------------------------------------------------------------------------
Kinds == {"load", "poll", "refresh"}
Statuses == {"awaiting_upload", "queued", "processing", "complete", "failed"}
Versions == [status : Statuses, no : Nat]
Fetch == [kind : Kinds, of : Subjects,
          ver : Versions \cup {None}, n : 1..MaxPolls]
Bounds == [runs |-> MaxRuns, fails |-> MaxFails, taps |-> MaxTaps,
           hides |-> MaxHides, retries |-> MaxRetries]

Loading == [status |-> "loading", of |-> None, ver |-> None, by |-> None]
Failed == [status |-> "error", of |-> None, ver |-> None, by |-> "load"]
Shows(f) == [status |-> "ready", of |-> f.of, ver |-> f.ver, by |-> f.kind]

\* Nothing is on display, or one answer is.
State == {Loading, Failed} \cup
  [status : {"ready"}, of : Subjects, ver : Versions, by : Kinds]

TypeOK ==
  /\ server \in [Subjects -> Versions]
  /\ want \in Subjects
  /\ state \in State
  /\ fetches \subseteq Fetch
  /\ visible \in BOOLEAN
  /\ left \in [DOMAIN Bounds -> Nat]

Call(kind, subject, n) == [kind |-> kind, of |-> subject, ver |-> None, n |-> n]

Spend(what) == left[what] > 0 /\ left' = [left EXCEPT ![what] = @ - 1]

Init ==
  /\ server = [s \in Subjects |-> [status |-> "awaiting_upload", no |-> 0]]
  /\ want \in Subjects
  /\ state = Loading
  /\ fetches = {Call("load", want, 1)}
  /\ visible = TRUE
  /\ left = Bounds
-----------------------------------------------------------------------------
(* The scan behind a subject.                                              *)

Becomes(s, status) ==
  /\ server' = [server EXCEPT ![s] = [status |-> status, no |-> @.no + 1]]
  /\ UNCHANGED <<want, state, fetches, visible>>

\* submitScan: the upload page calls it after it has begun to show the scan.
Submit(s) ==
  /\ server[s].status = "awaiting_upload"
  /\ Becomes(s, "queued") /\ UNCHANGED left

\* runScanProcessing and markScanFailed, off the overlaps ScanLifecycle has.
Process(s) ==
  /\ \/ server[s].status = "queued" /\ Becomes(s, "processing")
     \/ server[s].status = "processing" /\ Becomes(s, "complete")
     \/ server[s].status \in {"queued", "processing"} /\ Becomes(s, "failed")
  /\ UNCHANGED left

\* retryJob: the row alone is put back in the queue.
Retry(s) ==
  /\ server[s].status = "failed"
  /\ Becomes(s, "queued") /\ Spend("retries")
-----------------------------------------------------------------------------
\* Bug variant of Kept: the effects have no cleanup.
KeptAll(calls) == calls

\* The cleanup cancels the load and the poll under way: whatever they bring is
\* dropped. A refresh belongs to no effect.
Kept(calls) == {f \in calls : f.kind = "refresh"}

\* Bug variant of Blank: what was on display stays.
BlankNothing == [state EXCEPT !.status = "loading"]

Blank == Loading

\* The effects run again, for another subject or for the same one (reload).
Enter(s) ==
  /\ Spend("runs")
  /\ want' = s
  /\ state' = Blank
  /\ fetches' = Kept(fetches) \cup {Call("load", s, 1)}
  /\ UNCHANGED <<server, visible>>

\* Bug variant of NeedsPolling: a scan a worker has picked up is left alone.
NeedsPollingQueued(version) == version.status = "queued"

\* scanNeedsPolling
NeedsPolling(version) == version.status \in {"queued", "processing"}

OnDisplay == state.status = "ready"

\* pollWhen: what is on display has work left; nothing on display has none.
Gate == OnDisplay /\ NeedsPolling(state.ver)

Polls == {f \in fetches : f.kind = "poll"}

\* Bug variant of MayPoll: a poll does not wait for the one before it.
MayPollAgain(n) == n \notin {f.n : f \in Polls}

\* inFlight.
MayPoll(n) == n = 1 /\ Polls = {}

Poll(n) ==
  /\ Gate /\ MayPoll(n)
  /\ fetches' = fetches \cup {Call("poll", want, n)}

\* The interval; it does nothing while the tab is hidden.
Tick(n) ==
  /\ visible
  /\ Poll(n)
  /\ UNCHANGED <<server, want, state, visible, left>>

Hide ==
  /\ visible /\ Spend("hides")
  /\ visible' = FALSE
  /\ UNCHANGED <<server, want, state, fetches>>

\* onVisibilityChange ticks at once.
Show(n) ==
  /\ ~visible
  /\ visible' = TRUE
  /\ \/ Poll(n)
     \/ ~(Gate /\ MayPoll(n)) /\ UNCHANGED fetches
  /\ UNCHANGED <<server, want, state, left>>

\* refresh: no gate, and its own guard, kept across the effects. The pages
\* offer it while the subject on display has work left.
Refresh ==
  /\ Gate
  /\ \A f \in fetches : f.kind # "refresh"
  /\ Spend("taps")
  /\ fetches' = fetches \cup {Call("refresh", want, 1)}
  /\ UNCHANGED <<server, want, state, visible>>
-----------------------------------------------------------------------------
\* getScan: the server reads the row.
Answer(f) ==
  /\ f \in fetches /\ f.ver = None
  /\ fetches' = (fetches \ {f}) \cup {[f EXCEPT !.ver = server[f.of]]}
  /\ UNCHANGED <<server, want, state, visible, left>>

\* A poll or a refresh never replaces the loading state.
Ignored(f) == f.kind # "load" /\ state.status = "loading"

Return(f) ==
  /\ f \in fetches /\ f.ver # None
  /\ fetches' = fetches \ {f}
  /\ state' = IF Ignored(f) THEN state ELSE Shows(f)
  /\ UNCHANGED <<server, want, visible, left>>

\* A failed poll or refresh keeps the last known good.
Fail(f) ==
  /\ f \in fetches /\ Spend("fails")
  /\ fetches' = fetches \ {f}
  /\ state' = IF f.kind = "load" THEN Failed ELSE state
  /\ UNCHANGED <<server, want, visible>>
-----------------------------------------------------------------------------
Next ==
  \/ \E s \in Subjects : Submit(s) \/ Process(s) \/ Retry(s) \/ Enter(s)
  \/ \E n \in 1..MaxPolls : Tick(n) \/ Show(n)
  \/ Hide \/ Refresh
  \/ \E f \in fetches : Answer(f) \/ Return(f) \/ Fail(f)

Spec == Init /\ [][Next]_vars

\* The interval runs on and every request is answered or fails; nobody has to
\* submit, to reload, to refresh or to look, and the pipeline may stop.
Fairness ==
  /\ \A n \in 1..MaxPolls : WF_vars(Tick(n))
  /\ WF_vars(\E f \in fetches : Answer(f))
  /\ WF_vars(\E f \in fetches : Return(f))

FairSpec == Spec /\ Fairness
-----------------------------------------------------------------------------
\* The report on display is the one the URL names, however navigations, polls
\* and loads overlap, except for one left by a refresh.
ForeignOnlyByRefresh ==
  OnDisplay => state.of = want \/ state.by = "refresh"

\* A panel goes back to an older version of its subject only when a refresh
\* and another fetch returned out of order.
BackwardsOnlyByRefresh ==
  [][(OnDisplay /\ OnDisplay' /\ state'.of = state.of
        /\ state'.ver.no < state.ver.no)
       => "refresh" \in {state.by, state'.by}]_vars

Current == state.of = want /\ state.ver = server[want]

\* A panel in view never stays with work that is not what the server has: in
\* the end it shows the current row of its scan, an error the user can retry,
\* or a status no poll was promised for (awaiting_upload, complete, failed),
\* whatever polls fail, tabs hide, operators retry or answers cross.
PanelSettles ==
  []<>visible => <>[](/\ state # Loading
                      /\ OnDisplay /\ state.ver.status \in {"queued", "processing"}
                           => Current)
-----------------------------------------------------------------------------
(* A statement of a comment of the repository that the code does not keep. *)

\* "Live status tracking of the submitted scan: while it is queued /
\* processing, [it] refreshes every 5s so the status panel reflects real
\* worker progress" (AppUploadsPage): a panel left in view ends up with the
\* row the server has.
TracksSubmittedScan == []<>visible => <>[](OnDisplay => Current)
=============================================================================
