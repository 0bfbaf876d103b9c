------------------------------ MODULE PanelProofs ------------------------------
(***************************************************************************)
(* Proofs about Panel for any subjects and any bounds, among them that on  *)
(* the polls: MayPoll lets one go out at a time.                           *)
(***************************************************************************)
EXTENDS Panel, TLAPS

\* The fetches of the effects, which a cleanup cancels.
Own == {f \in fetches : f.kind # "refresh"}

\* There is one at a time, for the subject in the URL, and a load only while
\* nothing is on display.
OneOwn ==
  /\ \A f, g \in Own : f = g
  /\ \A f \in Own : f.of = want /\ (f.kind = "load" => state = Loading)

\* What is on display and what is on its way was read from the server; a poll
\* on its way was read after what a load or a poll put on display.
Read ==
  /\ \A f \in fetches : f.ver # None => f.ver.no <= server[f.of].no
  /\ OnDisplay => state.ver.no <= server[state.of].no
  /\ \A f \in Own : (OnDisplay /\ state.by # "refresh" /\ f.ver # None)
       => state.ver.no <= f.ver.no

IInv == TypeOK /\ OneOwn /\ Read /\ ForeignOnlyByRefresh
-----------------------------------------------------------------------------
LEMMA InitIInv == Init => IInv
<1> SUFFICES ASSUME Init PROVE IInv
  OBVIOUS
<1>1. TypeOK
  BY Constants
     DEF Init, TypeOK, Call, Fetch, Kinds, Versions, Statuses, Loading, State, Bounds
<1> QED
  BY <1>1, Constants
     DEF Init, IInv, Own, OneOwn, Read, ForeignOnlyByRefresh, OnDisplay, Call, Loading

\* The effects run again: one load, nothing on display.
LEMMA EnterKeeps == ASSUME IInv, NEW s \in Subjects, Enter(s) PROVE IInv'
<1> USE DEF IInv, Enter, Kept, Blank, Call, Loading
<1>1. TypeOK'
  BY Constants DEF TypeOK, Spend, Fetch, Kinds, Versions, State, Bounds
<1>2. Own' = {Call("load", s, 1)}
  BY DEF Own
<1> QED
  BY <1>1, <1>2, Constants
     DEF TypeOK, Own, OneOwn, Read, ForeignOnlyByRefresh, OnDisplay

\* A poll goes out when something unfinished is on display and no poll is out:
\* then no load is out either.
LEMMA PollKeeps ==
  ASSUME IInv, NEW n \in 1..MaxPolls, Poll(n), UNCHANGED <<server, want, state>>,
         visible' \in BOOLEAN, left' = left
  PROVE  IInv'
<1> USE DEF IInv, Poll, Call
<1>1. TypeOK'
  BY Constants DEF TypeOK, Fetch, Kinds, Versions
<1>2. Own = {}
  BY Constants DEF TypeOK, Own, OneOwn, Gate, OnDisplay, Loading, MayPoll, Polls, Fetch, Kinds
<1>3. Own' = {Call("poll", want, n)}
  BY <1>2 DEF Own
<1> QED
  BY <1>1, <1>2, <1>3, Constants
     DEF TypeOK, Own, OneOwn, Read, ForeignOnlyByRefresh, OnDisplay, Gate, Loading

\* A server's answer carries the subject's version of now, the newest so far.
LEMMA AnswerKeeps == ASSUME IInv, NEW f \in fetches, Answer(f) PROVE IInv'
<1> DEFINE g == [f EXCEPT !.ver = server[f.of]]
<1> USE DEF IInv, Answer
<1>1. /\ f \in Fetch /\ g \in Fetch
      /\ g.kind = f.kind /\ g.of = f.of /\ g.ver = server[f.of]
      /\ server[f.of] \in Versions
  BY Constants DEF TypeOK, Fetch, Versions
<1>3. fetches' = (fetches \ {f}) \cup {g}
  OBVIOUS
<1> HIDE DEF g
<1>2. TypeOK'
  BY <1>1, <1>3 DEF TypeOK
<1>4. OneOwn'
  BY <1>1, <1>3 DEF Own, OneOwn
<1>5. Read'
  <2>1. g.ver.no <= server[g.of].no
    BY <1>1 DEF Versions
  <2>2. OnDisplay /\ state.by # "refresh" /\ g \in Own' => state.ver.no <= g.ver.no
    BY <1>1 DEF Own, OneOwn, Read, ForeignOnlyByRefresh, OnDisplay
  <2> QED
    BY <1>3, <2>1, <2>2 DEF Own, Read, OnDisplay
<1> QED
  BY <1>2, <1>4, <1>5 DEF ForeignOnlyByRefresh, OnDisplay

LEMMA ReturnKeeps == ASSUME IInv, NEW f \in fetches, Return(f) PROVE IInv'
<1> USE DEF IInv, Return
<1>1. f \in Fetch /\ f.ver \in Versions
  BY DEF TypeOK, Fetch
<1>2. Shows(f) \in State
  BY <1>1 DEF Shows, State, Fetch
<1>3. TypeOK'
  BY <1>2 DEF TypeOK
<1>4. CASE Ignored(f)
  BY <1>3, <1>4 DEF Own, OneOwn, Read, ForeignOnlyByRefresh, OnDisplay
<1>5. CASE ~Ignored(f)
  <2>1. /\ state' = Shows(f) /\ state'.status = "ready"
        /\ state'.of = f.of /\ state'.ver = f.ver /\ state'.by = f.kind
    BY <1>5 DEF Shows
  <2>2. \A g \in Own' : f.kind = "refresh" /\ g.kind = "poll"
    BY <1>1, <1>5, <2>1 DEF TypeOK, Own, OneOwn, Ignored, Loading, Fetch, Kinds
  <2>3. OneOwn'
    BY <2>2 DEF Own, OneOwn
  <2>4. Read'
    BY <2>1, <2>2 DEF Own, Read, OnDisplay
  <2>5. ForeignOnlyByRefresh'
    BY <2>1 DEF ForeignOnlyByRefresh, Own, OneOwn
  <2> QED
    BY <1>3, <2>3, <2>4, <2>5
<1> QED
  BY <1>4, <1>5

LEMMA FailKeeps == ASSUME IInv, NEW f \in fetches, Fail(f) PROVE IInv'
<1> USE DEF IInv, Fail
<1>1. TypeOK'
  BY DEF TypeOK, Spend, Bounds, State
<1>2. OneOwn'
  BY DEF Own, OneOwn
<1>3. Read' /\ ForeignOnlyByRefresh'
  BY DEF Own, OneOwn, Read, ForeignOnlyByRefresh, OnDisplay, Failed
<1> QED
  BY <1>1, <1>2, <1>3

\* What the tab, the scan itself and a refresh's call leave alone.
LEMMA OthersKeep ==
  ASSUME IInv,
         \/ \E s \in Subjects : Submit(s) \/ Process(s) \/ Retry(s)
         \/ Hide \/ Refresh \/ UNCHANGED vars
  PROVE  IInv'
<1> USE DEF IInv
<1>1. CASE UNCHANGED vars
  BY <1>1 DEF vars, TypeOK, Own, OneOwn, Read, ForeignOnlyByRefresh, OnDisplay
<1>2. CASE Hide
  <2>1. left' \in [DOMAIN Bounds -> Nat]
    BY <1>2 DEF Hide, Spend, Bounds, TypeOK
  <2>2. TypeOK'
    BY <1>2, <2>1 DEF Hide, TypeOK
  <2> QED
    BY <1>2, <2>2 DEF Hide, Own, OneOwn, Read, ForeignOnlyByRefresh, OnDisplay
<1>3. ASSUME NEW s \in Subjects, Submit(s) \/ Process(s) \/ Retry(s) PROVE IInv'
  <2>0. PICK status \in Statuses : Becomes(s, status)
    BY <1>3 DEF Submit, Process, Retry, Statuses
  <2>5. left' \in [DOMAIN Bounds -> Nat]
    BY <1>3 DEF Submit, Process, Retry, Spend, Bounds, TypeOK
  <2>1. TypeOK'
    BY <2>0, <2>5 DEF Becomes, TypeOK, Versions
  <2>2. \A u \in Subjects : server[u].no <= server'[u].no
    BY <2>0 DEF Becomes, TypeOK, Versions
  <2>3. OneOwn' /\ ForeignOnlyByRefresh'
    BY <2>0 DEF Becomes, Own, OneOwn, ForeignOnlyByRefresh, OnDisplay
  <2>4. Read'
    <3>1. ASSUME NEW f \in fetches, f.ver # None PROVE f.ver.no <= server'[f.of].no
      <4>1. f.of \in Subjects /\ f.ver \in Versions /\ f.ver.no <= server[f.of].no
        BY <3>1 DEF TypeOK, Fetch, Read
      <4> QED
        BY <2>1, <2>2, <4>1 DEF TypeOK, Versions
    <3>2. OnDisplay => state.of \in Subjects /\ state.ver \in Versions
      BY DEF TypeOK, State, OnDisplay, Loading, Failed
    <3>3. OnDisplay => state.ver.no <= server'[state.of].no
      BY <2>1, <2>2, <3>2 DEF Read, TypeOK, Versions
    <3> QED
      BY <2>0, <3>1, <3>3 DEF Becomes, Read, Own, OnDisplay
  <2> QED
    BY <2>1, <2>3, <2>4
<1>4. CASE Refresh
  <2> DEFINE g == Call("refresh", want, 1)
  <2>1. g \in Fetch /\ g.kind = "refresh" /\ g.ver = None
    BY Constants DEF TypeOK, Call, Fetch, Kinds
  <2>2. TypeOK'
    BY <1>4, <2>1 DEF Refresh, Spend, Bounds, TypeOK
  <2>3. Own' = Own /\ fetches' = fetches \cup {g}
    BY <1>4, <2>1 DEF Refresh, Own
  <2> QED
    BY <1>4, <2>1, <2>2, <2>3 DEF Refresh, OneOwn, Read, ForeignOnlyByRefresh, OnDisplay
<1> QED
  BY <1>1, <1>2, <1>3, <1>4

LEMMA NextIInv == IInv /\ [Next]_vars => IInv'
<1> SUFFICES ASSUME IInv, [Next]_vars PROVE IInv'
  OBVIOUS
<1>1. ASSUME NEW s \in Subjects, Enter(s) PROVE IInv'
  BY <1>1, EnterKeeps
<1>2. ASSUME NEW n \in 1..MaxPolls, Tick(n) \/ Show(n) PROVE IInv'
  <2>1. CASE Poll(n)
    BY <1>2, <2>1, PollKeeps DEF Tick, Show
  <2>2. CASE ~Poll(n)
    BY <1>2, <2>2 DEF Tick, Show, IInv, TypeOK, Own, OneOwn, Read,
                     ForeignOnlyByRefresh, OnDisplay
  <2> QED
    BY <2>1, <2>2
<1>3. ASSUME NEW f \in fetches, Answer(f) \/ Return(f) \/ Fail(f) PROVE IInv'
  BY <1>3, AnswerKeeps, ReturnKeeps, FailKeeps
<1> QED
  BY <1>1, <1>2, <1>3, OthersKeep DEF Next

\* The invariant of every execution.
LEMMA Invariant == Spec => []IInv
<1> QED
  BY InitIInv, NextIInv, PTL DEF Spec
-----------------------------------------------------------------------------
\* State and fetches are of their types: nothing is on display while the panel
\* loads or reports an error.
THEOREM PanelTypeCorrect == Spec => []TypeOK
<1>1. IInv => TypeOK
  BY DEF IInv
<1> QED
  BY <1>1, Invariant, PTL

\* The report on display is the one the URL names, but for a refresh begun
\* before the navigation.
THEOREM PanelShowsItsSubject == Spec => []ForeignOnlyByRefresh
<1>1. IInv => ForeignOnlyByRefresh
  BY DEF IInv
<1> QED
  BY <1>1, Invariant, PTL

\* Loads and polls never take the panel back to an older version.
THEOREM PanelNeverGoesBack == Spec => BackwardsOnlyByRefresh
<1> DEFINE
  Back == OnDisplay /\ OnDisplay' /\ state'.of = state.of
          /\ state'.ver.no < state.ver.no
  Step == Back => "refresh" \in {state.by, state'.by}
<1>1. ASSUME IInv, [Next]_vars PROVE [Step]_vars
  <2> SUFFICES ASSUME Next, Back PROVE "refresh" \in {state.by, state'.by}
    BY <1>1
  <2>1. state.ver.no \in Nat /\ state'.ver.no \in Nat
    BY <1>1, NextIInv DEF IInv, TypeOK, State, OnDisplay, Loading, Failed, Versions
  <2>2. state' # state
    BY <2>1
  <2>3. PICK f \in fetches : Return(f) /\ ~Ignored(f) /\ state' = Shows(f)
    BY <2>2 DEF Next, Submit, Process, Retry, Becomes, Enter, Blank, Loading,
                OnDisplay, Tick, Show, Poll, Hide, Refresh, Answer, Return, Fail,
                Failed
  <2>4. f.ver # None /\ state'.ver = f.ver /\ state'.by = f.kind
    BY <2>3 DEF Return, Shows
  <2>5. CASE f.kind = "refresh"
    BY <2>4, <2>5
  <2>6. CASE f.kind # "refresh" /\ state.by # "refresh"
    <3>1. state.ver.no <= f.ver.no
      BY <1>1, <2>4, <2>6 DEF IInv, Read, Own
    <3> QED
      BY <2>1, <2>4, <3>1
  <2> QED
    BY <2>5, <2>6
<1> QED
  BY <1>1, Invariant, PTL DEF Spec, BackwardsOnlyByRefresh
=============================================================================
