# Provance: a TLA+ verification project

Provance verifies images: a user uploads a file, a worker analyses it, and the
result is metered in Verification Units (VU) against a monthly plan. This
directory models the parts of the repository where that can go wrong in ways a
unit test hardly reaches: handlers that interleave between two database calls,
a job queue that delivers at least once, ledgers that are read long before they
are written, and rollbacks that can fail half-way. Each module names the code it
translates; `PROJECT.json` maps every definition to its lines.

## 1. The system

The backend (`backend/src`, NestJS) keeps all its state in Supabase (Postgres
tables, an auth service, a file store) and in BullMQ (Redis). It uses **no
transaction and no row lock**: a handler is a sequence of awaited calls, and
other handlers, in the same or another process, run between any two of them.
Most writes are `update ... where id = ?`, unconditional on the value they were
decided from.

| Component | State | Operations | Hard behaviours | What makes it correct |
|---|---|---|---|---|
| Scan pipeline (`scans/scans.service.ts`, `worker.ts`) | `scans` rows: status, result, reason, attempts | submitScan, processQueuedScan, runScanProcessing, markScanFailed | double submits, two runs of one scan, dedup against a scan in flight, errors after the write was applied | a row tells one story; a terminal status is final; failed only when retries are spent |
| Scan queue (`queue/`) | BullMQ jobs, one per scan | add, claim, retry with backoff, stall, evict | at-least-once delivery, lost locks, job-id reuse | every scan in flight is tracked by someone; a scan is charged once, and only when it is complete |
| Operator jobs (`admin/admin.service.ts`) | the same rows | retryJob, failJob | check-then-write against a running worker | an operator's decision is not mixed with the worker's |
| Intake and quota (`initiateScan`, `billing/`) | `scans` rows awaiting upload, `vu_ledger` | initiateScan with Idempotency-Key, assertScanQuota, recordRollover, recordScanUsage | the gate reads what completions write later; month ends; first looks racing | no month over its limit; a retry is not a second scan; row and ledger agree |
| Auth lockouts (`auth/refresh-lockout*.ts`, `sign-in-lockout*.ts`) | in-memory map by address | isLockedOut, recordFailure, recordSuccess | requests in progress when the lockout trips | a lockout is earned and counted once; bursts are caught |
| Organization and invites (`organization/`, `auth.service.ts`) | members, invites, auth accounts | inviteMember, cancelInvite, removeMember, acceptInvite | seat checks racing, duplicate acceptances, a rollback in two parallel calls | an accepted invite has one member; a failed acceptance leaves nothing; seats bound members |
| Sessions and security (`security/`, rest of `auth.service.ts`, `auth.controller.ts`) | `user_sessions` ledger, auth sessions, refresh cookies, settings row | signIn, refresh, signOut, revoke (by the user, by an organization admin), changePassword, confirmPasswordReset, updateSetting | revocation against rotation, a ledger kept beside the auth service by best-effort writes, read-modify-write | the list of sessions is the sessions; a sign-out or revocation that was answered is final; a new device is announced; no setting is lost |
| Waitlist invites (`admin/`, `waitlist/`) | applications, `access_invites` | createApplication, review, createInvite, acceptInvite | partial failure, ignored results, a status written by id | application and invite agree with the account |
| Roles (`roles/`) | scope rows, member roles | updateRoleScopes, reassignMember | delete-then-insert | a role never loses its scopes |
| Account, notifications, reports, telemetry, health, configuration, guards | single rows, or none | reads and single-row writes | none between calls | - |
| Client session (`src/lib/api.js`, `src/context/AuthContext.jsx`) | access token and user in each tab's memory, one cookie | hydrate, ensureSession, request, signIn, signOut | answers out of order, tabs that share the cookie, single-use tokens | a tab acts as the user it shows; signed out stays out; a page load ends |
| Live panels (`src/lib/useResource.js`) | what is on display, calls under way | load, poll, refresh, reload, navigate, hide | answers out of order, a poll loop that stops by what it shows | the panel shows its subject and ends up current |
| Other pages, mock backend (`src/pages`, `src/lib/mock*.js`) | forms; fixtures | - | - | - |
| `api/`, `scripts/`, `backend/scripts/` | - | prototype and operator scripts | - | - |

How they interact: `initiateScan` asks the billing service for the quota, inserts
the row and hands out an upload URL; `submitScan` moves the row to `queued` and
adds a job whose id is the scan's id (or, without Redis, starts the run in the
API process); the worker runs the scan, writes the completion and then, best
effort, the ledger row that the next quota decision reads; the worker's `failed`
listener calls `markScanFailed` after the last attempt. The lockout interceptors
wrap the auth routes. Invites are written by the organization and admin services
and consumed by the auth service, which owns the one account an address can
have. Every sign-in and refresh records itself in the security service's ledger,
from which revocations and password changes take their targets; the browser
holds the refresh token as a cookie and each tab an access token. The report and
upload pages follow a scan by polling.

## 2. The modules

**ScanContract** is the abstract lifecycle a reader of a scan may rely on:
submitted, processed, complete or failed for good, charged at most once and only
after completion.

**ScanLifecycle** is the pipeline, the queue and the operator, one action per
awaited call. `row` is the scan's row (the columns the completion write sets
together are one field, `payload`: which scan's analysis they carry), `ledger` the
number of charges, `job` the BullMQ job, `sub` a submitScan call, `run` a
processor activation with the values it has read, `adm` an operator call between
its read and its write. Faults are members of a set: a database call that errors
(applied or not), a rejected enqueue, a failed analysis, a worker crash, a worker
that loses its lock and goes on, eviction of settled jobs. Two variables are
history: `raced`, the scans hit by a *lost update* (a write that lands on a status
its handler's guard refuses: a second `queued` on a row already queued, a
completion on a row an operator failed meanwhile), and `stranded`, the scans whose
way to a terminal status an event cut off. `KeepsContract` is the refinement:
ScanContract with `phase` as the row's status and `charged` as the ledger.

**VuRates** holds the pure functions of the rate card. The code's fractional
multipliers are kept over common denominators, so `Math.ceil` is exact.

**ScanIntake** is initiateScan with its key, the quota gate as the four reads and
one insert of resolveUsage, the rollover row, and the later submit, completion
and charge; months pass. It does not repeat the queue: a submitted scan
completes or fails, as ScanContract allows.

**RefreshLockout** is the tracker and the two interceptors, for one address (the
map's entries do not interact). The methods are synchronous and so atomic; the
handlers between `Admit` and their end are what overlaps. `rejected` and
`tripped` are history.

**OrgInvites** is the two ways into an account: workspace invites (inviteMember's
three reads and insert, cancelInvite, removeMember) and waitlist applications
(createApplication, the review, createInvite with its ignored approval), and the
acceptance of either kind of invite with its rollback, whose calls run in any
order and may each fail. A call may fail, or be done and reported as failed.
`removed`, `peak` and the `lost` of an acceptance are history.

**Sessions** is one user's sessions on the server, one action per awaited call:
sign-in and refresh (rotate the token, look for the device, upsert the ledger
row, audit a new device, answer with the cookie), sign-out (spend the token,
delete the row by its hash, clear the cookie), revocation of one row, of a
member's rows or of all others (list, then for each row delete the auth session
and the row), password reset with its wipe of the ledger, and the settings row's
read-modify-write. A token is its session and a generation; the auth service is
external. `untracked`, `gone`, `ghosts` and `batch` are history; `told` is the
audit rows of new devices, with the surfaces whose detection or audit failed.

**ClientSession** is the browser: per tab the memory of `api.js` (`mem`) and the
user of AuthContext (`ui`), refreshes (`flights`, shared by all callers of a tab)
and calls of `request()` that are sent, served and delivered in any order, page
loads that drop what was under way, and the cookie all tabs share. Its server
does in one step what Sessions does call by call. `spender`, `mixed` and `out`
are history.

**Panel** is the hook useResource: the load, the poll loop with its gate and its
in-flight flag, the manual refresh, the cleanup on navigation and reload, and the
visibility listener, over scans with their statuses: awaiting upload until
`Submit` (submitScan), moved on by `Process` (the pipeline), put back in the queue
by `Retry` (retryJob). `NeedsPolling` is scanNeedsPolling: only a queued or
processing scan on display is polled. An answer is made when the server reads the
row and may come back much later.

**MC...** modules give TLC its instances. Definitions named in a comment as a
*bug variant of X* are mutations of X that the named property must catch; no
specification uses them.

## 3. What the runs check

| Run | Checks | Result |
|---|---|---|
| `scan_anyfault` | one scan, two submits, one operator call, every fault, both paths: `TypeOK`, `RowConsistent`, `ChargedHasResult`, `ChargedIsComplete` | holds |
| `scan_quiet` | two scans of one file, each submitted once, no operator, no zombie, every other fault: `ChargedAtMostOnce`, `FailedIsExhausted`, `ReuseIsGrounded`, `Tracked`, `TerminalIsFinal`, `KeepsContract` and, under fairness, `Settles` | holds |
| `scan_retry` | retryJob's comment "A manual retry starts a fresh run" | violated |
| `intake_serial` | a client that settles an upload before the next, a keyed upload sent twice, a billing-page read, three months, failing calls: `TypeOK`, `WithinLimit`, `SameReservation`, `RolloverNeverUnderstates`, `RefusedOnlyWhenShort` | holds |
| `intake_parallel` | `WithinLimit` with two uploads going at once (the contract's "reserves against the projected cost", "hard-stop overage") | violated |
| `lockout_all` | three overlapping requests over more than a window and a lockout, with a restart: `TypeOK`, `TripIsEarned`, `OncePerEpisode`, `BurstIsCaught` | holds |
| `invites_all` | two addresses, one of them an applicant, two invites of either kind, two acceptances, one manager, every fault: `TypeOK`, `SuccessIsKept`, `OverrunIsBounded`, `FailedLeavesNoTrace`, `AcceptedByOne` | holds |
| `sessions_all` | two sessions, browsers and addresses, four requests, two at once, every operation and fault: `TypeOK`, `ActiveDeviceIsListed`, `SignedOutIsGone`, `ListedIsLive`, `NewDeviceIsAlerted`, `AnsweredMeansEvicted`, `SettingsLostOnlyToOverlap` | holds |
| `panel_all` | two scans that are submitted, processed and retried, two navigations or reloads, a refresh, a failure, a hidden tab, under fairness: `TypeOK`, `ForeignOnlyByRefresh`, `BackwardsOnlyByRefresh`, `PanelSettles` | holds |
| `panel_upload` | AppUploadsPage's "Live status tracking of the submitted scan", one scan and no failure, under fairness (`TracksSubmittedScan`) | violated |
| `client_all` | two tabs, two users, two sessions, tokens that age, one fault: `TypeOK`, `ActsAsShown`, `SignedOutStaysOut`, `NeverRefusesItself` | holds |
| `client_boot` | ensureSession's "a usable access token ... or null": a page load ends, under fairness (`BootAlwaysEnds`) | violated |

What the violated ones show:

- **Retry.** `retryJob` queues the row and adds no job.
- **Parallel admissions.** The gate compares with what the ledger says and
  reserves nothing until completion. `intake_serial` shows that this is the only
  way over the limit: a client with one upload at a time never exceeds it, even
  across the month's end.
- **The upload page.** It sets `activeScanId` right after initiateScan
  (`AppUploadsPage.jsx:351`), while the file is still to be uploaded. The panel's
  one load answers `awaiting_upload`, for which `scanNeedsPolling` is false: no poll
  starts, nothing reloads after submitScan (369), and the refresh control is shown
  only while the scan is live (628). The panel never shows the scan queued,
  processing or settled, against the comment at 277-281. What a user sees of it is
  limited: after a submission that succeeded the page goes on to the queue or the
  report within two seconds (265-275), without the live dot having shown. When
  submitScan answers with an error although the row was queued (a rejected
  enqueue, a lost answer) the user stays, and the panel stays behind. The report
  page has the same gate, but is as a rule opened on a scan already submitted.
- **Boot.** `hydrateRealSession` awaits the refresh outside its `try`, and
  `refreshRealSession` does not catch a fetch that throws: a page loaded without
  network restores its session for ever. Without a fault (`MaxFaults` = 0) the
  property holds.

Many properties name the one way in which they fail. That clause is what the
code really does, and removing it gives a violation: an update decided on a status
the row has left behind breaks the tie between a charge and its complete row
(`raced` in `ChargedIsComplete`); a panel may show another
scan's report, or an older version, after a manual refresh that was begun before
the navigation (`ForeignOnlyByRefresh`, `BackwardsOnlyByRefresh`), and if that
report is settled the poll gate closes and it stays: `PanelSettles` promises that
only work on display that needs polling is brought up to date; a refresh
that comes back after a sign-in in another tab installs that user's token under
the user the tab shows (`mixed` in `ActsAsShown`); a refresh that overlaps a
sign-out can set the cookie after it was cleared (`out`); a revocation that
overlaps a refresh leaves a listed ghost, and one whose target has left the
ledger spares it (`ghosts`, `batch`); a lost answer makes the next refresh be
refused (`spender`); two changes of different settings lose one
(`SettingsLostOnlyToOverlap`); the workspace's seats are overrun by acceptances
in progress together (`peak`); a rollback that fails leaves an account that can
never accept an invite again (`lost`).

Disagreements too plain, or too close to another run, for a run of their own:

- `markScanFailed` (`scans.service.ts:786-787`: "never downgraded to 'failed'")
  re-reads the row and then writes by id: two inline runs of one scan, which a
  double submit can start, let one complete in between. The worker path needs a
  zombie or an operator. `TerminalIsFinal` holds where there is neither.
- `failJob` neither removes the job nor re-checks the row: the worker completes
  and charges, the row ends failed, against the contract's "Failed scans consume
  0 VUs".
- The row's units include the image's resolution, the ledger's do not, against
  "same units the billing ledger writes" (`scans.service.ts:733-740`).
- The invite rollback runs under `Promise.allSettled` with its results ignored
  (`auth.service.ts:600`), against "a half-activated account never persists"
  (493-494). It restores an application to `waitlist_submitted` whatever it was, and
  an invite to `pending` by id: one that was cancelled meanwhile is open again.
  `cancelInvite` has no status filter either: cancelling during an acceptance is
  overwritten, cancelling after it hides who joined. An accepted application can
  be put back to waiting by a review or a further invite. `SuccessIsKept` and
  `AcceptedByOne` speak of the account, the seat and the accepted status, which
  these leave alone.
- `resolutionFactor` is linear: 8 and 20 megapixels give 1.25 and 1.75 where the
  comment in `billing.service.ts:111` says 1.5 and 2.
- The lockout's window is documented as sliding (`refresh-lockout.ts:21`) and
  tumbles; `BurstIsCaught` states what does hold: `2 * threshold - 2` rejections
  in a row within a window's length always trip it. The audit row's
  `lockout_until` (`refresh-lockout.interceptor.ts:117`) is the time of the trip.
- A refresh from another address is a new surface and alerts, though
  `security.service.ts:147-148` says that a refresh never does.
- Background refreshes never update the expiry AuthContext keeps, so
  updateProfile, long after sign-in, signs the tab out. A wrong password is a 401
  and makes the client post a refresh as well, which counts towards the lockout.
  Two tabs restored at once send one cookie, and the second is refused.
- A person who holds both an access and a workspace invite can accept only one;
  a removed member can never accept again: `createUser` refuses the address.

### Bounds

- *ScanLifecycle.* Two scans are the least for dedup, two tasks the least for an
  overlap, two submits the least for a double submit. `MaxAttempts` and
  `MaxStalls` are the code's 3 and BullMQ's 1. Nothing else is bounded.
- *ScanIntake.* Costs of 10 and 4 against an allowance of 6: the two do not fit
  in the first month's 12 (allowance and full carry), either fits alone, and the
  smaller is less than an allowance, so that a late charge leaves a carry.
  `MaxCycle` = 3 lets a carry be earned, used and expire. `MaxOpen` is how many
  uploads the client keeps unsettled, 1 or 2. A resolveUsage call does not last a
  whole month.
- *RefreshLockout.* The code's refresh defaults (3 failures, 30 s, 60 s) in units
  of ten seconds; `MaxTime` = 14 covers a lockout and a window on each side of it.
  The history keeps the last `2 * Threshold - 2` rejections, all that
  `BurstIsCaught` looks at.
- *OrgInvites.* Two seats, one of them the owner's, and two addresses, so that the
  last seat can be overrun; two acceptances, of the same or of different invites;
  `MaxOpen` = 2 in progress. `peak` records how many really overlapped.
- *Sessions.* Two sessions and two browsers are the least for one to revoke the
  other's; four requests let both sign in and two more requests race
  (`MaxOpen` = 2). Requests are used once; nothing else is bounded.
- *ClientSession.* Two tabs and two users are the least for a tab to get a token
  that is not its user's; `MaxFlights` = 2 is more than the code's one shared
  refresh, so that `MayFly` is what keeps it at one; one page load per tab, one
  aging, one page call and one fault are enough for each history above to happen.
- *Panel.* A scan goes from awaiting upload to settled, and once more after
  `MaxRetries` = 1, so that a panel can go back among versions that are polled.
  `MaxPolls` = 2 is more than the code's one poll at a time, for the same reason as
  `MaxFlights`. `panel_upload` needs one scan and none of the rest.

Tasks, requests, sessions, browsers, tabs, users, invites and acceptances are
interchangeable where a run declares symmetry; no run with a liveness property
does.

Deadlock is not checked: each system may stop, with every submit, request or
invite used up.

### Fairness

`FairSpec` of ScanLifecycle assumes weak fairness of each submit, of each job's
timers (the backoff), of claiming a waiting job by some worker, and of each
task's own steps. The code justifies them: a Node process runs every settled
promise's continuation, the worker process polls the queue as long as it lives,
and BullMQ moves delayed jobs when they are due. Where workers may crash this
assumes of the deployment that some worker runs again. Nothing is assumed of
operators, and faults are never fair. The actions' fairness is over all
variables but `path`, which never changes. The code has no recovery for some
events: an inline run dies with its process, a job that stalls twice is failed by
the queue without `markScanFailed`, a `markScanFailed` that dies or fails is not
repeated, and a submit that fails after its `queued` write strands the row.
`Stranded` says so scan by scan: it holds of a scan once such an event has hit that
very scan, and of no other, so that an inline run, a failed job or a missing job
alone excuses nothing. `Tracked` and `Settles` show, with all those faults
possible, that there is no other cause: without the `failed` listener, or with an
enqueue whose rejection is not noticed, both fail.

Panel assumes that the interval ticks and that every request is answered and its
answer delivered; not that the pipeline moves, nor that anybody submits, reloads,
taps refresh or brings the tab back, which is why `PanelSettles` is about a tab
that is looked at again and again. ClientSession's fairness, used by
`client_boot` alone, is that every fetch is served and delivered, or throws.

## 4. What is proved

The proofs hold for every value of the constants that satisfies the named
`Constants` assumption of the module; TLC evaluates that assumption in every run.
The assumptions type the constants, ask for finite sets where a cardinality or a
sum is taken (`Accepts`, `Ops`) and say that the placeholder `None` is none of the
values it stands beside. Three hypotheses are stated by the theorems themselves:
`Quiet` throughout ScanQuietProofs, one upload at a time for `WithinLimit`, and
finitely many requests for `TypeOK` of Sessions.

**ScanLifecycleProofs** (any scans, submits, tasks, operator calls and faults).
`RowConsistent` and `ChargedHasResult` are not inductive: what a task is about to
write depends on what it read. `IInv` adds `TasksOK` (a task past the completion
write finds its scan with a result; one about to store has a source),
`OperatorsOK`, `JobsOK` (an owned job is active) and `LockedByItsTask`, a lemma
about the queue that ScanQuietProofs builds on. The argument is that every row
update is one of six writes, and each keeps a result once it is there
(`RowsGrow`): so what a task saw stays true enough. From `Spec => []IInv` follow
`TypeCorrect`, `RowsTellOneStory` and `ChargesFollowResults`.
`ChargesFollowGuards` (`ChargedIsComplete`) adds `ChargingOK`: off a lost update,
a task about to charge is the only one for its scan, the scan is complete, and
nothing is charged yet. Its argument is that every guard refuses a complete row
(`CompleteStays`): a write that takes a row out of `complete`, or completes it
twice, was decided on a status the row no longer had, and puts it in `raced`. So
the guards of submitScan, runScanProcessing, markScanFailed and the operator's
calls agree, and the gap between a guard and its unconditional write is all that
can break the charge; a guard that lets a complete row through breaks the property
without a race.

**ScanQuietProofs** (under `Quiet`: one submit per scan, no operator, no worker
that outlives its lock; crashes, redeliveries and errors stay). `QInv` adds that
at most one task works on a scan, that a scan is untouched before its submit is
done, that a task in the processor holds its job's lock, and that the row still
says what its task read. With a single actor per scan every read is still true
when it is written on; hence `ChargesAtMostOnce`, `FailuresAreExhausted`,
`ReuseLeadsToAnalysis`, `TerminalStays`, and the step simulation behind
`PipelineKeepsContract`. `scan_retry` and the disagreements above show why
`Quiet` is needed. `NothingIsLost` (`Tracked`) adds `TInv`: a row beyond
`awaiting_upload` has a submit that took it there (`Submitted`); a scan that was
started has a live job or a task until it is settled or an event has stranded it
(`Followed`). A task may drop a scan because it was settled when read; `AckFine`
carries that to the acknowledgement.

**RefreshLockoutProofs** (any threshold above 1, window, lockout, clock bound and
requests). `IInv` adds that an entry that is not tripped is below the threshold
and that the map holds the last lockout while it runs and nobody cleared it.
From it: `LockoutTypeCorrect` and `LockoutOncePerEpisode`. `History` relates the
entry to the rejections behind it: their times are in order (`InOrder`), the
entry's window starts at the first of the last `failures` of them (`InWindow`), and
of those before it all but the latest `Threshold - 2` lie more than a window before
that start (`Before`), because a window that ended untripped held at most
`Threshold - 1`. So `2 * Threshold - 2` rejections in a row that are within a window's
length cannot have gone by untripped (`LockoutCatchesBursts`), and a trip has
`Threshold` of them behind it, none older than its window (`LockoutIsEarned`).

**PanelProofs** (any subjects, versions and bounds, the one on polls included).
`ForeignOnlyByRefresh` rests on the cleanup: `OneOwn` says that the effects have at
most one fetch under way, for the subject in the URL, and a load only while
nothing is on display. `Read` adds that a fetch of the effects that was answered
was answered after what a load or a poll put on display. From them:
`PanelTypeCorrect`, `PanelShowsItsSubject` and `PanelNeverGoesBack`.

**SessionsProofs** (any sessions, browsers, addresses, requests and faults).
Tokens are the key (`Tokens`): a request that has minted a token and not yet
handed it out holds the session's current one, no other request does so for
that session, and whatever cookie, request or sign-out was handed a token before
then holds an older one. So an upsert always writes the hash the answer's cookie
will carry, and a token that was signed out is older than any to come. `Burned`
carries that through a sign-out's calls, `Revocations` (a session a revocation
works on has begun, so it cannot begin again once it is dead), `RecordedCovered`,
`RecordingOK` and `DetectedOK` carry the others through theirs. `IInv` joins them
with the four invariants, and gives `SignOutIsFinal`, `DevicesAreListed`,
`ListShowsLiveSessions` and `EveryDeviceIsAnnounced`; its steps give
`RevocationIsDone` and `SettingsAreKept`. `IInv` has `Types`, in which a generation is
any natural number. `TypeOK` bounds it by the number of requests: no generation
exceeds the number of requests the auth service has served (`Spent`, `GensWithin`),
since serving one moves one session on by one generation; hence `TypesHold`.

**OrgInvitesProofs** (any addresses, invites, seats, managers and faults). An
acceptance that has created its account holds the address until it undoes it
(`Owned`): `createUser` refuses an address that is taken, and nobody else deletes
that account. It leaves its account and its membership nowhere else (`Traced`), so
that whatever its rollback's calls, in any order, have not yet taken back is still
on its list, or lost. From these `SuccessHolds` and `NoTraceHolds`.
`AcceptedHolds` needs `Attributed`: each status that says "accepted" has an
acceptance that wrote it and has not taken it back. `OverrunHolds` needs
`Counted`: who is seated and who was told that there is a seat, together, exceed
the seats by less than the most acceptances that were ever in progress at once.
The count a request compares is stale by the others in progress, and by no more.

**ScanIntakeProofs** (any costs, allowance, keys, months, with and without failing
calls). The quota gate reads one number after the other while the ledger moves.
`CallOK` bounds how wrong it can be: it is at most a month late, has read no more
usage than there is now and no less carry. Usage only grows, and a late charge
only takes from a carry. So `RolloverHolds` (the rollover row errs on the high
side) and `RefusalsAreJustified`: a refusal follows from the ledger at that
moment. If a month has begun since the request read the clock, its usage includes
what that month was charged, which is why `RefusedOnlyWhenShort` adds it.
`RetriesShareOneScan` rests on the unique index, `ChargesAreMetered` on the rate
card: what the ledger is charged lacks the resolution's multiplier, which is at
least 1. `SerialClientStaysWithinLimit` is for `MaxOpen <= 1`. Such a client has
one unsettled upload (`OneGoing`), so what its gate read is what the ledger says
(`Fresh`), nothing else is charged before it settles, and an upload admitted in
one month fits each later month it may complete in (`AdmittedFits`): a fresh month
has the allowance and whatever the old one leaves is carried, up to an allowance.
`intake_parallel` shows the same property violated for `MaxOpen` = 2.

**ClientSessionProofs** (any tabs, users, sessions and faults). What a refresh that
was served brings is its session's only valid token, and neither the cookie, nor
another flight, nor a sign-out has it yet (`Brings`, `Unknown`); a token just spent
by a tab is in the cookie only while that tab's answer is under way
(`SpentByOther`). With one flight per tab (`OneFlight`) this gives
`RefreshesDoNotCollide`. `OneSession` says that until somebody signs in beside
another user the browser knows a single session, hence `TabsActAsShown`; `CleanOut`
follows a sign-out that has nothing beside it, hence `SignOutIsFinal`.

Every invariant and every action property of a passing run is stated by one of
these theorems, as is the refinement. Only model-checked are the two liveness
properties, `Settles` and `PanelSettles`, which are out of the prover's reach;
the properties of the four violated runs are false.

## 5. Not modelled, and why

Pixel and metadata analysis, scores and report text are numeric heuristics with no
state; only their success or failure matters here. A plan change in the middle of
a month, the storage and API-call meters, team and role changes of a member are
left out of ScanIntake and OrgInvites. findMemberByEmail joins profiles, where an
address appears with the first sign-in: it may find a member or miss one.
Duplicate pending invites of one address are merely possible. Row limits of the
hosted database are not modelled: sums and counts see every row.

Sessions leaves out the columns that no decision reads (location, last activity),
the in-app notification beside the new-device audit, the trail of admin
revocations, the degraded modes without the ledger's migration, and the throwaway
session with which changePassword verifies the old password (its sign-out passes a
refresh token where the auth service expects an access token, and ignores the
result). ClientSession leaves out the mock and Better Auth modes and
ensureProfile; Panel leaves out `keepDataOnReload`, which only the mock uses.

Account, notification, telemetry and health services make single-row writes or
reads, and the client's telemetry buffer and notification badge only races over
what is displayed. The remaining pages render what the hooks load; the mock
backend stands in for the real one. These pages, their styles and the mock data
are most of the repository's lines, which is why the map covers a small share of
them. `api/` is a prototype beside the deployed backend, and the scripts are run by
hand. Role scopes are planned.

## 6. Plan

In order of importance:

1. *Done*: ScanContract, ScanLifecycle with its refinement; ScanIntake;
   RefreshLockout; OrgInvites with the waitlist's invites; Sessions; Panel;
   ClientSession; each with the proofs of all its safety properties.
2. An abstract specification of a session that both Sessions and ClientSession
   implement (a token is valid until it is spent or its session ends), with the
   step simulation proved, so that ClientSession's one-step server is justified
   by Sessions' call-by-call one.
3. **RoleScopes**: delete-then-insert against a concurrent edit and a reader; the
   rows of a role are one save's whole map, or none after a failed save.
4. A composition of ScanIntake with ScanContract's charge, so that the intake's
   completion is the pipeline's.
