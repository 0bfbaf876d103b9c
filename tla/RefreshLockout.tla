---------------------------- MODULE RefreshLockout ----------------------------
(***************************************************************************)
(* The failure-triggered lockout of POST /auth/refresh and of the sign-in  *)
(* route: RefreshLockoutTracker (backend/src/auth/refresh-lockout.ts) and  *)
(* the two interceptors that consult it before a handler runs and tell it  *)
(* how the handler ended. The tracker keeps one entry per client address   *)
(* and the entries do not interact, so one address is modelled.            *)
(*                                                                         *)
(* The tracker's methods are synchronous, hence atomic; what interleaves   *)
(* is the handlers: a request admitted before a lockout ends during it.    *)
(***************************************************************************)
EXTENDS Naturals, Sequences

CONSTANTS
  Requests,    \* requests of the address that can be in progress
  Threshold,   \* failures that trip the lockout
  Window,      \* windowMs
  Lockout,     \* lockoutMs
  MaxTime,     \* bound on the clock
  MayRestart   \* whether the process, and the map with it, may restart

ASSUME Constants ==
  /\ Threshold \in Nat \ {0, 1}
  /\ Window \in Nat
  /\ Lockout \in Nat \ {0}
  /\ MaxTime \in Nat \ {0}
  /\ MayRestart \in BOOLEAN

VARIABLES
  now,       \* Date.now()
  entry,     \* the address's entry in the map, NoEntry without one
  busy,      \* the requests whose handler is running
  rejected,  \* history: times of the 401s since the entry was last dropped
  tripped    \* history: the last lockout, until when and whether an
             \* admitted request that succeeded cleared it

vars == <<now, entry, busy, rejected, tripped>>
-----------------------------------------------------------------------------
Never == 0

Times == 0..MaxTime

\* lockoutUntil: Never stands for null.
Entry == [failures : 0..Threshold, windowStart : Times,
          lockoutUntil : 0..(MaxTime + Lockout)]

NoEntry == [failures |-> 0, windowStart |-> 0, lockoutUntil |-> Never]

TypeOK ==
  /\ now \in 1..MaxTime
  /\ entry \in Entry
  /\ busy \subseteq Requests
  /\ rejected \in Seq(Times)
  /\ tripped \in [until : 0..(MaxTime + Lockout), cleared : BOOLEAN]

Init ==
  /\ now = 1
  /\ entry = NoEntry
  /\ busy = {}
  /\ rejected = <<>>
  /\ tripped = [until |-> Never, cleared |-> FALSE]

\* isLockedOut; an expired entry is dropped on the way.
LockedOut == now < entry.lockoutUntil
Expired   == entry.lockoutUntil # Never /\ now >= entry.lockoutUntil
Kept == IF Expired THEN NoEntry ELSE entry
KeptRejected == IF Expired THEN <<>> ELSE rejected

\* Only the latest ones matter: as many as a burst may need (BurstIsCaught).
Longest == 2 * Threshold - 2
Latest(times) == IF Len(times) > Longest THEN Tail(times) ELSE times
-----------------------------------------------------------------------------
\* intercept: the handler runs.
Admit(r) ==
  /\ r \notin busy
  /\ ~LockedOut
  /\ entry' = Kept
  /\ rejected' = KeptRejected
  /\ busy' = busy \cup {r}
  /\ UNCHANGED <<now, tripped>>

\* recordSuccess
Succeed(r) ==
  /\ r \in busy
  /\ busy' = busy \ {r}
  /\ entry' = NoEntry
  /\ rejected' = <<>>
  /\ tripped' = [tripped EXCEPT !.cleared = TRUE]
  /\ UNCHANGED now

\* A 5xx or a 429: not a sign of a replay.
EndOtherwise(r) ==
  /\ r \in busy
  /\ busy' = busy \ {r}
  /\ UNCHANGED <<now, entry, rejected, tripped>>

Rolled(e) == now > e.windowStart + Window

\* Bug variant of Counted: a new window keeps the failures of the old one.
CountedWithStale(e) ==
  IF e.failures = 0 \/ Rolled(e)
  THEN [NoEntry EXCEPT !.failures = e.failures + 1, !.windowStart = now]
  ELSE [e EXCEPT !.failures = @ + 1]

\* Bug variant of Counted: the failure that rolls the window is not counted.
CountedFromZero(e) ==
  IF e.failures = 0 \/ Rolled(e)
  THEN [NoEntry EXCEPT !.failures = IF e.failures = 0 THEN 1 ELSE 0,
                       !.windowStart = now]
  ELSE [e EXCEPT !.failures = @ + 1]

\* The entry with one failure more, in a new window when the old one is over.
Counted(e) ==
  IF e.failures = 0 \/ Rolled(e)
  THEN [NoEntry EXCEPT !.failures = 1, !.windowStart = now]
  ELSE [e EXCEPT !.failures = @ + 1]

Trips(e) == e.failures >= Threshold

\* Bug variant of Reject: a failure during the lockout is counted too.
RejectWhileLocked(r) ==
  LET e == Counted(Kept) IN
  /\ r \in busy
  /\ busy' = busy \ {r}
  /\ entry' = IF Trips(e) THEN [e EXCEPT !.lockoutUntil = now + Lockout] ELSE e
  /\ tripped' = IF Trips(e)
                THEN [until |-> now + Lockout, cleared |-> FALSE] ELSE tripped
  /\ rejected' = Latest(Append(KeptRejected, now))
  /\ UNCHANGED now

\* recordFailure, on a 401: nothing while locked out; otherwise count it, and
\* trip at the threshold, which writes the one audit row of the episode.
Reject(r) ==
  LET e == Counted(Kept) IN
  /\ r \in busy
  /\ busy' = busy \ {r}
  /\ \/ /\ LockedOut
        /\ UNCHANGED <<entry, tripped, rejected>>
     \/ /\ ~LockedOut
        /\ rejected' = Latest(Append(KeptRejected, now))
        /\ \/ /\ Trips(e)
              /\ entry' = [e EXCEPT !.lockoutUntil = now + Lockout]
              /\ tripped' = [until |-> now + Lockout, cleared |-> FALSE]
           \/ /\ ~Trips(e)
              /\ entry' = e
              /\ UNCHANGED tripped
  /\ UNCHANGED now

\* The map lives in the process.
Restart ==
  /\ MayRestart
  /\ entry' = NoEntry
  /\ busy' = {}
  /\ rejected' = <<>>
  /\ tripped' = [until |-> Never, cleared |-> FALSE]
  /\ UNCHANGED now

Tick == /\ now < MaxTime
        /\ now' = now + 1
        /\ UNCHANGED <<entry, busy, rejected, tripped>>

Next == \/ \E r \in Requests : \/ Admit(r) \/ Succeed(r)
                               \/ EndOtherwise(r) \/ Reject(r)
        \/ Restart
        \/ Tick

Spec == Init /\ [][Next]_vars
-----------------------------------------------------------------------------
Trip == tripped' # tripped /\ tripped'.until # Never /\ ~tripped'.cleared

\* A lockout is earned: the failures that trip it are Threshold rejections in a
\* row, none older than the window. One stale token is not a pattern.
TripIsEarned ==
  [][Trip => /\ Len(rejected') >= Threshold
             /\ \A i \in (Len(rejected') - Threshold + 1)..Len(rejected') :
                  now <= rejected'[i] + Window]_vars

\* One audit row per episode: requests that were in the handlers when the
\* lockout tripped neither trip it again nor extend it. Only a success that
\* clears the key starts a new episode earlier.
OncePerEpisode ==
  [][tripped'.until # tripped.until =>
       \/ now >= tripped.until
       \/ tripped.cleared
       \/ tripped'.until = Never]_vars

\* No burst slips through where two windows meet: although Threshold rejections
\* in a row within a window's length may not trip the lockout (windows tumble),
\* 2 * Threshold - 2 of them always do.
BurstIsCaught ==
  (Len(rejected) = Longest /\ rejected[Longest] <= rejected[1] + Window)
    => entry.lockoutUntil # Never
=============================================================================
