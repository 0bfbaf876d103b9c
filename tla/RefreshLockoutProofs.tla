-------------------------- MODULE RefreshLockoutProofs --------------------------
(***************************************************************************)
(* Proofs about RefreshLockout for every threshold, window and length of   *)
(* the lockout, any number of requests in progress and any clock.          *)
(***************************************************************************)
EXTENDS RefreshLockout, SequenceTheorems, TLAPS

\* An entry at the threshold is locked out: it never counts further.
Untripped == entry.lockoutUntil = Never => entry.failures < Threshold

\* While the last lockout runs and no success cleared it, the map holds it.
Held == (now < tripped.until /\ ~tripped.cleared)
          => entry.lockoutUntil = tripped.until

IInv == TypeOK /\ Untripped /\ Held
-----------------------------------------------------------------------------
\* What a handler finds after isLockedOut is an entry, below the threshold
\* unless it is locked out.
LEMMA KeptIsEntry ==
  ASSUME IInv
  PROVE  /\ Kept \in Entry
         /\ KeptRejected \in Seq(Times)
         /\ Kept.lockoutUntil = Never => Kept.failures < Threshold
         /\ ~LockedOut => Kept.lockoutUntil = Never
         /\ (now < tripped.until /\ ~tripped.cleared) => Kept = entry
<1> USE DEF IInv, TypeOK
<1>1. NoEntry \in Entry /\ NoEntry.lockoutUntil = Never /\ NoEntry.failures < Threshold
  BY Constants DEF NoEntry, Entry, Times, Never
<1>2. KeptRejected \in Seq(Times)
  BY DEF KeptRejected
<1>3. CASE Expired
  <2>1. ~(now < tripped.until /\ ~tripped.cleared)
    BY <1>3, Constants DEF Held, Expired, Times, Entry, Never
  <2> QED BY <1>1, <1>2, <1>3, <2>1 DEF Kept
<1>4. CASE ~Expired
  <2>1. ~LockedOut => entry.lockoutUntil = Never
    BY <1>4, Constants DEF LockedOut, Expired, Never, Times, Entry
  <2> QED BY <1>2, <1>4, <2>1 DEF Kept, Untripped
<1> QED BY <1>3, <1>4

\* One failure more, on an entry that is not locked out.
LEMMA CountedIsEntry ==
  ASSUME IInv, ~LockedOut
  PROVE  /\ Counted(Kept) \in Entry
         /\ Counted(Kept).lockoutUntil = Never
<1> DEFINE e == Kept
<1>1. /\ e \in Entry
      /\ e.lockoutUntil = Never
      /\ e.failures < Threshold
  BY KeptIsEntry
<1>2. now \in Times /\ 1 \in 0..Threshold /\ Never \in 0..(MaxTime + Lockout)
  BY Constants DEF IInv, TypeOK, Times, Never
<1>3. CASE e.failures = 0 \/ Rolled(e)
  <2>1. Counted(e) = [failures |-> 1, windowStart |-> now, lockoutUntil |-> Never]
    BY <1>3 DEF Counted, NoEntry
  <2> QED BY <2>1, <1>2 DEF Entry
<1>4. CASE ~(e.failures = 0 \/ Rolled(e))
  <2>1. Counted(e) = [e EXCEPT !.failures = @ + 1]
    BY <1>4 DEF Counted
  <2>2. e.failures + 1 \in 0..Threshold
    BY <1>1, Constants DEF Entry
  <2> QED BY <2>1, <2>2, <1>1 DEF Entry
<1> QED BY <1>3, <1>4

\* The history keeps a sequence of times.
LEMMA LatestIsSeq ==
  ASSUME NEW s \in Seq(Times), NEW t \in Times
  PROVE  Latest(Append(s, t)) \in Seq(Times)
<1>1. Append(s, t) \in Seq(Times) /\ Append(s, t) # <<>>
  BY AppendProperties
<1>2. Tail(Append(s, t)) \in Seq(Times)
  BY <1>1, HeadTailProperties
<1> QED BY <1>1, <1>2 DEF Latest
-----------------------------------------------------------------------------
LEMMA InitIInv == Init => IInv
<1> SUFFICES ASSUME Init PROVE IInv
  OBVIOUS
<1>1. TypeOK
  BY Constants DEF Init, TypeOK, NoEntry, Entry, Times, Never
<1> QED BY <1>1, Constants DEF Init, IInv, Untripped, Held, NoEntry, Never

\* recordFailure outside a lockout, the only step that trips one.
LEMMA CountKeepsIInv ==
  ASSUME IInv, NEW r \in Requests, Reject(r), ~LockedOut
  PROVE  IInv'
<1> DEFINE e == Counted(Kept)
<1>1. /\ e \in Entry
      /\ e.lockoutUntil = Never
  BY CountedIsEntry
<1>2. /\ now \in 1..MaxTime /\ now' = now
      /\ KeptRejected \in Seq(Times)
      /\ busy' \subseteq Requests
      /\ rejected' = Latest(Append(KeptRejected, now))
  BY KeptIsEntry DEF IInv, TypeOK, Reject
<1>3. rejected' \in Seq(Times)
  BY <1>2, LatestIsSeq DEF Times
<1>4. CASE Trips(e)
  <2> DEFINE until == now + Lockout
  <2>1. until \in 0..(MaxTime + Lockout) /\ until # Never
    BY <1>2, Constants DEF Never
  <2>2. entry' = [e EXCEPT !.lockoutUntil = until]
    BY <1>4 DEF Reject
  <2>3. tripped' = [until |-> until, cleared |-> FALSE]
    BY <1>4 DEF Reject
  <2>4. entry' \in Entry /\ entry'.lockoutUntil = until
    BY <1>1, <2>1, <2>2 DEF Entry
  <2>5. TypeOK'
    BY <1>2, <1>3, <2>1, <2>3, <2>4 DEF TypeOK
  <2> QED BY <2>1, <2>3, <2>4, <2>5 DEF IInv, Untripped, Held
<1>5. CASE ~Trips(e)
  <2>1. entry' = e /\ tripped' = tripped
    BY <1>5 DEF Reject
  <2>2. TypeOK'
    BY <1>1, <1>2, <1>3, <2>1 DEF IInv, TypeOK
  <2>3. Untripped'
    BY <1>1, <1>5, <2>1, Constants DEF Untripped, Trips, Entry
  <2>4. ~(now < tripped.until /\ ~tripped.cleared)
    BY DEF IInv, Held, LockedOut
  <2> QED BY <1>2, <2>1, <2>2, <2>3, <2>4 DEF IInv, Held
<1> QED BY <1>4, <1>5

LEMMA StepIInv == IInv /\ [Next]_vars => IInv'
<1> SUFFICES ASSUME IInv, [Next]_vars PROVE IInv'
  OBVIOUS
<1>k. /\ Kept \in Entry
      /\ KeptRejected \in Seq(Times)
      /\ Kept.lockoutUntil = Never => Kept.failures < Threshold
      /\ (now < tripped.until /\ ~tripped.cleared) => Kept = entry
  BY KeptIsEntry
<1>n. NoEntry \in Entry /\ NoEntry.lockoutUntil = Never /\ NoEntry.failures < Threshold
  BY Constants DEF NoEntry, Entry, Times, Never
<1>1. ASSUME NEW r \in Requests, Admit(r) PROVE IInv'
  <2>1. TypeOK' BY <1>1, <1>k DEF Admit, IInv, TypeOK
  <2>2. Untripped' BY <1>1, <1>k DEF Admit, Untripped
  <2>3. Held' BY <1>1, <1>k DEF Admit, Held, IInv
  <2> QED BY <2>1, <2>2, <2>3 DEF IInv
<1>2. ASSUME NEW r \in Requests, Succeed(r) PROVE IInv'
  <2>1. tripped' = [until |-> tripped.until, cleared |-> TRUE]
    BY <1>2 DEF Succeed, IInv, TypeOK
  <2>2. TypeOK'
    <3>1. tripped' \in [until : 0..(MaxTime + Lockout), cleared : BOOLEAN]
      BY <2>1 DEF IInv, TypeOK
    <3>2. rejected' \in Seq(Times) /\ entry' \in Entry
      BY <1>2, <1>n DEF Succeed
    <3> QED BY <1>2, <3>1, <3>2 DEF Succeed, IInv, TypeOK
  <2>3. Untripped' BY <1>2, <1>n DEF Succeed, Untripped
  <2>4. Held' BY <2>1 DEF Held
  <2> QED BY <2>2, <2>3, <2>4 DEF IInv
<1>3. ASSUME NEW r \in Requests, EndOtherwise(r) PROVE IInv'
  BY <1>3 DEF EndOtherwise, IInv, TypeOK, Untripped, Held
<1>4. ASSUME NEW r \in Requests, Reject(r) PROVE IInv'
  <2>1. CASE LockedOut
    BY <1>4, <2>1 DEF Reject, IInv, TypeOK, Untripped, Held
  <2>2. CASE ~LockedOut
    BY <1>4, <2>2, CountKeepsIInv
  <2> QED BY <2>1, <2>2
<1>5. CASE Restart
  <2>1. tripped' = [until |-> Never, cleared |-> FALSE] /\ now' = now
    BY <1>5 DEF Restart
  <2>2. TypeOK'
    BY <1>5, <1>n, <2>1, Constants DEF Restart, IInv, TypeOK, Never
  <2>3. Untripped' BY <1>5, <1>n DEF Restart, Untripped
  <2>4. Held' BY <2>1 DEF Held, Never, IInv, TypeOK
  <2> QED BY <2>2, <2>3, <2>4 DEF IInv
<1>6. CASE Tick
  <2>1. now' \in 1..MaxTime /\ now < now'
    BY <1>6, Constants DEF Tick, IInv, TypeOK
  <2>2. TypeOK' BY <1>6, <2>1 DEF Tick, IInv, TypeOK
  <2>3. Untripped' BY <1>6 DEF Tick, IInv, Untripped
  <2>4. Held' BY <1>6, <2>1, Constants DEF Tick, IInv, TypeOK, Held
  <2> QED BY <2>2, <2>3, <2>4 DEF IInv
<1>7. CASE UNCHANGED vars
  BY <1>7 DEF vars, IInv, TypeOK, Untripped, Held
<1> QED BY <1>1, <1>2, <1>3, <1>4, <1>5, <1>6, <1>7 DEF Next

THEOREM LockoutInvariance == Spec => []IInv
<1> QED BY InitIInv, StepIInv, PTL DEF Spec
-----------------------------------------------------------------------------
\* Every reachable state of the tracker and of its history is well typed: a
\* counter never passes the threshold.
THEOREM LockoutTypeCorrect == Spec => []TypeOK
<1>1. IInv => TypeOK
  BY DEF IInv
<1> QED BY <1>1, LockoutInvariance, PTL

LEMMA EpisodeStep ==
  ASSUME IInv, [Next]_vars, tripped'.until # tripped.until
  PROVE  now >= tripped.until \/ tripped.cleared \/ tripped'.until = Never
<1>1. ASSUME NEW r \in Requests, Succeed(r) PROVE FALSE
  BY <1>1 DEF Succeed, IInv, TypeOK
<1>2. ASSUME NEW r \in Requests, Reject(r)
      PROVE  now >= tripped.until \/ tripped.cleared
  <2>1. ~LockedOut
    BY <1>2 DEF Reject
  <2> QED BY <2>1, Constants DEF IInv, TypeOK, Held, LockedOut
<1>3. CASE Restart
  BY <1>3 DEF Restart
<1> QED
  BY <1>1, <1>2, <1>3 DEF Next, vars, Admit, EndOtherwise, Tick

\* One audit row per episode: however many requests were in their handlers
\* when the lockout tripped, none of them trips it again before it is over.
THEOREM LockoutOncePerEpisode == Spec => OncePerEpisode
<1>1. IInv /\ [Next]_vars =>
        [tripped'.until # tripped.until =>
           \/ now >= tripped.until
           \/ tripped.cleared
           \/ tripped'.until = Never]_vars
  BY EpisodeStep
<1> QED BY <1>1, LockoutInvariance, PTL DEF Spec, OncePerEpisode
-----------------------------------------------------------------------------
(* The rejections behind an entry. The last failures of them are those of  *)
(* its window, which the first of these opened; and of the rejections      *)
(* before it, all but the Threshold - 2 latest were made more than a       *)
(* window's length before it opened: their window ended untripped.         *)
InOrder ==
  /\ \A i, j \in 1..Len(rejected) : i <= j => rejected[i] <= rejected[j]
  /\ \A i \in 1..Len(rejected) : rejected[i] <= now

InWindow ==
  /\ entry.failures <= Len(rejected)
  /\ entry.failures = 0 => Len(rejected) = 0
  /\ entry.failures > 0 => rejected[Len(rejected) - entry.failures + 1] = entry.windowStart

Before ==
  \A i \in 1..Len(rejected) :
    i <= Len(rejected) - entry.failures - Threshold + 2
      => rejected[i] + Window < entry.windowStart

History == InOrder /\ InWindow /\ Before

\* A rejection more: the history shifts by one when it is full.
LEMMA LatestShifts ==
  ASSUME NEW s \in Seq(Times), NEW t \in Times, Threshold \in Nat \ {0, 1}
  PROVE  LET q == Latest(Append(s, t)) IN
         \E d \in {0, 1} :
           /\ Len(q) = Len(s) + 1 - d
           /\ Len(q) >= Len(s) + 1 \/ Len(q) >= Threshold
           /\ \A i \in 1..Len(q) : q[i] = IF i + d <= Len(s) THEN s[i + d] ELSE t
<1> DEFINE a == Append(s, t)
           q == Latest(a)
<1>1. /\ a \in Seq(Times) /\ a # <<>> /\ Len(a) = Len(s) + 1 /\ Len(s) \in Nat
      /\ \A i \in 1..Len(s) : a[i] = s[i]
      /\ a[Len(s) + 1] = t
  BY AppendProperties
<1>2. \A i \in 1..Len(a) : a[i] = IF i <= Len(s) THEN s[i] ELSE t
  BY <1>1
<1>3. CASE Len(a) > Longest
  <2>1. q = Tail(a)
    BY <1>3 DEF Latest
  <2>2. Len(q) = Len(s) /\ \A i \in 1..Len(q) : q[i] = a[i + 1]
    BY <1>1, <2>1, HeadTailProperties
  <2>3. Len(q) >= Threshold
    BY <1>1, <1>3, <2>2 DEF Longest
  <2>4. \A i \in 1..Len(q) : q[i] = IF i + 1 <= Len(s) THEN s[i + 1] ELSE t
    BY <1>1, <1>2, <2>2
  <2> HIDE DEF q
  <2>5. /\ Len(q) = Len(s) + 1 - 1
        /\ Len(q) >= Len(s) + 1 \/ Len(q) >= Threshold
        /\ \A i \in 1..Len(q) : q[i] = IF i + 1 <= Len(s) THEN s[i + 1] ELSE t
    BY <1>1, <2>2, <2>3, <2>4
  <2> QED
    BY <2>5 DEF q
<1>4. CASE ~(Len(a) > Longest)
  <2>1. q = a
    BY <1>4 DEF Latest
  <2>2. /\ Len(q) = Len(s) + 1 - 0
        /\ Len(q) >= Len(s) + 1 \/ Len(q) >= Threshold
        /\ \A i \in 1..Len(q) : q[i] = IF i + 0 <= Len(s) THEN s[i + 0] ELSE t
    BY <1>1, <1>2, <2>1
  <2> HIDE DEF q
  <2> QED
    BY <2>2 DEF q
<1> QED
  BY <1>3, <1>4

LEMMA TimesOfSeq ==
  ASSUME NEW s \in Seq(Times)
  PROVE  \A i \in 1..Len(s) : s[i] \in Nat
<1>1. \A i \in 1..Len(s) : s[i] \in Times
  BY ElementOfSeq
<1>2. Times \subseteq Nat
  BY Constants DEF Times
<1> QED
  BY <1>1, <1>2

LEMMA InitHistory == Init => History
BY DEF Init, History, InOrder, InWindow, Before, NoEntry

\* What a handler finds has a history of its own.
LEMMA KeptHistory ==
  ASSUME IInv, History
  PROVE  LET e == Kept
             q == KeptRejected
         IN  /\ \A i, j \in 1..Len(q) : i <= j => q[i] <= q[j]
             /\ \A i \in 1..Len(q) : q[i] <= now
             /\ e.failures <= Len(q) /\ (e.failures = 0 => Len(q) = 0)
             /\ e.failures > 0 => q[Len(q) - e.failures + 1] = e.windowStart
             /\ \A i \in 1..Len(q) :
                  i <= Len(q) - e.failures - Threshold + 2 => q[i] + Window < e.windowStart
BY DEF Kept, KeptRejected, NoEntry, History, InOrder, InWindow, Before

\* One failure more, in the history and in the entry.
LEMMA CountKeepsHistory ==
  ASSUME IInv, History, NEW r \in Requests, Reject(r), ~LockedOut
  PROVE  /\ History'
         /\ Trips(Counted(Kept)) => /\ entry'.failures = Threshold
                                   /\ now <= entry'.windowStart + Window
<1> DEFINE e == Kept
           k == KeptRejected
           c == Counted(e)
           q == Latest(Append(k, now))
           n == Len(k)
<1>1. /\ e \in Entry /\ e.failures < Threshold
      /\ k \in Seq(Times) /\ n \in Nat
      /\ now \in Times /\ now \in Nat /\ now' = now
      /\ Threshold \in Nat \ {0, 1} /\ Window \in Nat
  BY KeptIsEntry, Constants DEF IInv, TypeOK, Times, Reject
<1>2. /\ \A i, j \in 1..n : i <= j => k[i] <= k[j]
      /\ \A i \in 1..n : k[i] <= now
      /\ e.failures <= n /\ (e.failures = 0 => n = 0)
      /\ e.failures > 0 => k[n - e.failures + 1] = e.windowStart
      /\ \A i \in 1..n : i <= n - e.failures - Threshold + 2 => k[i] + Window < e.windowStart
  BY KeptHistory
<1>3. /\ rejected' = q
      /\ entry'.failures = c.failures /\ entry'.windowStart = c.windowStart
      /\ c \in Entry
  BY CountedIsEntry DEF Reject, Entry
<1>4. PICK d \in {0, 1} :
        /\ Len(q) = n + 1 - d
        /\ Len(q) >= n + 1 \/ Len(q) >= Threshold
        /\ \A i \in 1..Len(q) : q[i] = IF i + d <= n THEN k[i + d] ELSE now
  BY <1>1, LatestShifts
<1>5. \/ /\ e.failures = 0 \/ now > e.windowStart + Window
         /\ c.failures = 1 /\ c.windowStart = now
      \/ /\ e.failures > 0 /\ now <= e.windowStart + Window
         /\ c.failures = e.failures + 1 /\ c.windowStart = e.windowStart
  <2>1. CASE e.failures = 0 \/ Rolled(e)
    <3>1. c = [failures |-> 1, windowStart |-> now, lockoutUntil |-> Never]
      BY <2>1 DEF Counted, NoEntry
    <3> QED
      BY <2>1, <3>1 DEF Rolled
  <2>2. CASE ~(e.failures = 0 \/ Rolled(e))
    <3>1. c = [e EXCEPT !.failures = @ + 1]
      BY <2>2 DEF Counted
    <3>2. c.failures = e.failures + 1 /\ c.windowStart = e.windowStart
      BY <1>1, <3>1 DEF Entry
    <3>3. /\ e.failures \in Nat /\ e.windowStart \in Nat
      BY <1>1 DEF Entry, Times
    <3> HIDE DEF c, e
    <3> QED
      BY <1>1, <2>2, <3>2, <3>3 DEF Rolled
  <2> QED
    BY <2>1, <2>2
<1>6. \A i \in 1..n : k[i] \in Nat
  BY <1>1, TimesOfSeq
<1>7. e.failures \in Nat /\ e.windowStart \in Nat /\ Len(q) \in Nat
  BY <1>1, <1>4 DEF Entry, Times
<1> HIDE DEF e, k, c, q, n
<1>8. InOrder'
  <2>1. \A i, j \in 1..Len(q) : i <= j => q[i] <= q[j]
    BY <1>1, <1>2, <1>4, <1>6
  <2>2. \A i \in 1..Len(q) : q[i] <= now
    BY <1>1, <1>2, <1>4, <1>6
  <2> QED
    BY <1>1, <1>3, <2>1, <2>2 DEF InOrder
<1>9. InWindow'
  <2>1. c.failures <= Len(q) /\ c.failures > 0
    BY <1>1, <1>2, <1>4, <1>5, <1>7
  <2>2. q[Len(q) - c.failures + 1] = c.windowStart
    <3> DEFINE i == Len(q) - c.failures + 1
    <3>1. i \in 1..Len(q)
      BY <1>5, <1>7, <2>1
    <3>2. CASE c.failures = 1 /\ c.windowStart = now
      BY <1>1, <1>4, <1>7, <3>1, <3>2
    <3>3. CASE /\ e.failures > 0
               /\ c.failures = e.failures + 1 /\ c.windowStart = e.windowStart
      <4>1. i + d = n - e.failures + 1 /\ i + d <= n
        <5>1. d \in Nat /\ d <= 1 /\ n \in Nat /\ Len(q) = n + 1 - d
          BY <1>1, <1>4
        <5>2. c.failures = e.failures + 1 /\ e.failures > 0
          BY <3>3
        <5>3. i = (n + 1 - d) - (e.failures + 1) + 1
          BY <1>7, <5>1, <5>2
        <5> HIDE DEF i
        <5> QED
          BY <1>7, <5>1, <5>2, <5>3
      <4> HIDE DEF i
      <4> QED
        BY <1>2, <1>4, <3>1, <3>3, <4>1 DEF i
    <3> QED
      BY <1>5, <3>2, <3>3
  <2> QED
    BY <1>3, <2>1, <2>2 DEF InWindow
<1>10. Before'
  <2> SUFFICES ASSUME NEW i \in 1..Len(q), i <= Len(q) - c.failures - Threshold + 2
      PROVE  q[i] + Window < c.windowStart
    BY <1>3 DEF Before
  <2>0. /\ d \in Nat /\ n \in Nat /\ Threshold \in Nat /\ c.failures \in Nat
        /\ Len(q) = n + 1 - d /\ i \in Nat /\ i >= 1
    <3>1. d \in Nat /\ n \in Nat /\ Threshold \in Nat
      BY <1>1
    <3>2. c.failures \in Nat
      BY <1>5, <1>7
    <3>3. Len(q) = n + 1 - d
      BY <1>4
    <3>4. i \in Nat /\ i >= 1
      BY <1>7
    <3> QED
      BY <3>1, <3>2, <3>3, <3>4
  <2>1. i + d \in 1..n /\ q[i] = k[i + d]
    <3>1. Threshold >= 2 /\ c.failures >= 1
      <4>1. Threshold >= 2
        BY <1>1
      <4>2. c.failures >= 1
        BY <1>5, <1>7
      <4> QED
        BY <4>1, <4>2
    <3>2. i + d <= n
      BY <2>0, <3>1
    <3>3. i + d \in 1..n
      BY <2>0, <3>2
    <3> QED
      BY <1>4, <3>2, <3>3
  <2>2. CASE c.failures = e.failures + 1 /\ c.windowStart = e.windowStart
    <3>1. i + d <= n - e.failures - Threshold + 2
      BY <1>1, <1>4, <1>7, <2>2
    <3> QED
      BY <1>2, <2>1, <2>2, <3>1
  <2>3. CASE e.failures > 0 /\ now > e.windowStart + Window /\ c.failures = 1 /\ c.windowStart = now
    <3>1. i + d <= n - e.failures + 1 /\ n - e.failures + 1 \in 1..n
      BY <1>1, <1>2, <1>4, <1>7, <2>3
    <3>2. k[i + d] <= e.windowStart
      BY <1>2, <2>1, <2>3, <3>1
    <3> QED
      BY <1>1, <1>6, <1>7, <2>1, <2>3, <3>2
  <2>4. CASE e.failures = 0
    BY <1>2, <2>1, <2>4
  <2> QED
    BY <1>5, <1>7, <2>2, <2>3, <2>4
<1>11. c.failures >= Threshold => /\ entry'.failures = Threshold
                                 /\ now <= entry'.windowStart + Window
  BY <1>1, <1>3, <1>5, <1>7
<1> QED
  BY <1>8, <1>9, <1>10, <1>11 DEF History, Trips, c, e

LEMMA StepHistory == IInv /\ History /\ [Next]_vars => History'
<1> SUFFICES ASSUME IInv, History, [Next]_vars PROVE History'
  OBVIOUS
<1>1. ASSUME entry' = Kept, rejected' = KeptRejected, now' = now PROVE History'
  BY <1>1, KeptHistory DEF History, InOrder, InWindow, Before
<1>2. ASSUME entry' = NoEntry, rejected' = <<>> PROVE History'
  BY <1>2 DEF History, InOrder, InWindow, Before, NoEntry
<1>3. ASSUME UNCHANGED <<entry, rejected>>, now' >= now PROVE History'
  <2>1. /\ rejected \in Seq(Times) /\ now \in Nat
        /\ now' \in Nat => \A i \in 1..Len(rejected) : rejected[i] <= now'
    <3>1. \A i \in 1..Len(rejected) : rejected[i] \in Nat /\ rejected[i] <= now
      BY TimesOfSeq DEF IInv, TypeOK, History, InOrder
    <3> QED
      BY <1>3, <3>1 DEF IInv, TypeOK
  <2>2. now' \in Nat
    BY <2>1 DEF Next, vars, Admit, Succeed, EndOtherwise, Reject, Restart, Tick
  <2> QED
    BY <1>3, <2>1, <2>2 DEF History, InOrder, InWindow, Before
<1>4. ASSUME NEW r \in Requests, Reject(r) PROVE History'
  <2>1. CASE LockedOut
    BY <1>3, <1>4, <2>1 DEF Reject, IInv, TypeOK
  <2>2. CASE ~LockedOut
    BY <1>4, <2>2, CountKeepsHistory
  <2> QED
    BY <2>1, <2>2
<1>5. now <= now /\ (now' = now + 1 => now' >= now)
  BY DEF IInv, TypeOK
<1> QED
  BY <1>1, <1>2, <1>3, <1>4, <1>5
     DEF Next, vars, Admit, Succeed, EndOtherwise, Restart, Tick

LEMMA HistoryInvariance == Spec => [](IInv /\ History)
<1> QED
  BY InitHistory, StepHistory, InitIInv, StepIInv, PTL DEF Spec

\* However the tumbling windows fall on the rejections: 2 * Threshold - 2 of
\* them within a window's length are followed by a lockout, for every threshold
\* and window.
THEOREM LockoutCatchesBursts == Spec => []BurstIsCaught
<1>1. ASSUME IInv, History PROVE BurstIsCaught
  <2> SUFFICES ASSUME Len(rejected) = Longest, entry.lockoutUntil = Never
      PROVE  ~(rejected[Longest] <= rejected[1] + Window)
    BY DEF BurstIsCaught
  <2>0. Len(rejected) = Longest
    OBVIOUS
  <2>1. /\ entry.failures \in Nat /\ entry.windowStart \in Nat
        /\ Threshold \in Nat \ {0, 1} /\ Window \in Nat
        /\ entry.failures < Threshold /\ Longest \in Nat /\ Longest >= 2
        /\ Longest = 2 * Threshold - 2
    BY <1>1, Constants DEF IInv, TypeOK, Untripped, Entry, Times, Longest
  <2>2. \A i \in 1..Longest : rejected[i] \in Nat
    BY <1>1, <2>0, TimesOfSeq DEF IInv, TypeOK
  <2> DEFINE o == Longest - entry.failures + 1
  <2>3. o \in 1..Longest /\ rejected[o] = entry.windowStart
    BY <1>1, <2>1 DEF History, InWindow
  <2>4. rejected[1] + Window < entry.windowStart
    BY <1>1, <2>1 DEF History, Before
  <2>5. rejected[o] <= rejected[Longest]
    BY <1>1, <2>1, <2>3 DEF History, InOrder
  <2> HIDE DEF o
  <2> QED
    BY <2>1, <2>2, <2>3, <2>4, <2>5
<1> QED
  BY <1>1, HistoryInvariance, PTL

LEMMA TripStep ==
  ASSUME IInv, History, [Next]_vars, Trip
  PROVE  /\ Len(rejected') >= Threshold
         /\ \A i \in (Len(rejected') - Threshold + 1)..Len(rejected') :
              now <= rejected'[i] + Window
<1>1. ASSUME NEW r \in Requests, Succeed(r) PROVE FALSE
  BY <1>1 DEF Trip, Succeed, IInv, TypeOK
<1>2. PICK r \in Requests : Reject(r)
  BY <1>1 DEF Trip, Next, vars, Admit, EndOtherwise, Restart, Tick
<1>3. ~LockedOut /\ Trips(Counted(Kept))
  BY <1>2 DEF Trip, Reject
<1>4. History' /\ entry'.failures = Threshold /\ now <= entry'.windowStart + Window
  BY <1>2, <1>3, CountKeepsHistory
<1>5. IInv'
  BY StepIInv
<1> DEFINE n == Len(rejected')
<1>6. /\ n \in Nat /\ Threshold \in Nat \ {0, 1} /\ Window \in Nat /\ now \in Nat
      /\ \A i \in 1..n : rejected'[i] \in Nat
  BY <1>5, TimesOfSeq, Constants DEF IInv, TypeOK
<1>7. n >= Threshold /\ rejected'[n - Threshold + 1] = entry'.windowStart
  BY <1>4, <1>6 DEF History, InWindow
<1>8. \A i, j \in 1..n : i <= j => rejected'[i] <= rejected'[j]
  BY <1>4 DEF History, InOrder
<1> HIDE DEF n
<1>9. ASSUME NEW i \in (n - Threshold + 1)..n PROVE now <= rejected'[i] + Window
  <2>1. i \in 1..n /\ n - Threshold + 1 \in 1..n /\ n - Threshold + 1 <= i
    BY <1>6, <1>7
  <2> QED
    BY <1>4, <1>6, <1>7, <1>8, <2>1
<1> QED
  BY <1>7, <1>9 DEF n

\* A lockout is earned: whatever succeeds, expires or restarts in between, only
\* Threshold rejections in a row within the window trip it.
THEOREM LockoutIsEarned == Spec => TripIsEarned
<1>1. IInv /\ History /\ [Next]_vars =>
        [Trip => /\ Len(rejected') >= Threshold
                 /\ \A i \in (Len(rejected') - Threshold + 1)..Len(rejected') :
                      now <= rejected'[i] + Window]_vars
  BY TripStep
<1> QED
  BY <1>1, HistoryInvariance, PTL DEF Spec, TripIsEarned
=============================================================================
