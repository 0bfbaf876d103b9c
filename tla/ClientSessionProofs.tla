-------------------------- MODULE ClientSessionProofs --------------------------
(***************************************************************************)
(* Proofs about ClientSession for any tabs, users, sessions and faults.    *)
(***************************************************************************)
EXTENDS ClientSession, TLAPS

(* A call's answer says what its kind and its place make of it; the session *)
(* of a sign-in is new until the browser hears of it.                      *)
CallOK(c) ==
  /\ c.kind = "boot" => c.at \in {"token", "no"}
  /\ (c.kind = "viewer" /\ c.at = "ok") => c.sess # None
  /\ c.kind = "signin" => c.user \in Users
  /\ c.kind = "signout" => c.at \in {"sent", "ok", "no"}

Answered == {c \in calls : c.kind = "signin" /\ c.at = "ok"}

CallsOK ==
  /\ \A c \in calls : CallOK(c)
  /\ \A c, d \in Pending("signin") : c = d
  /\ \A c, d \in Pending("signout") : c = d
  /\ \A c \in Answered : /\ c.sess \in SessionIds
                         /\ auth[c.sess].user = c.user
                         /\ auth[c.sess].gen = 1

(* Tokens: everything the browser holds, the cookie or a token under way.  *)
OneFlight == \A f, g \in flights : f.tab = g.tab => f = g

Known == {cookie} \cup {f.tok : f \in flights} \cup {c.tok : c \in Pending("signout")}

Issued == \A t \in Known : t # None => t.gen <= auth[t.sess].gen

(* What a served refresh brings is the session's only valid token, and the *)
(* browser does not have it yet; the same for a sign-in.                   *)
Brings ==
  \A f \in flights : f.at = "ok" =>
    /\ f.tok \in Token
    /\ auth[f.tok.sess].gen = f.tok.gen + 1
    /\ \A g \in flights : (g.at = "ok" /\ g.tok.sess = f.tok.sess) => g = f

Unknown ==
  /\ \A f \in flights : f.at = "ok" =>
       \A t \in Known : (t # None /\ t.sess = f.tok.sess) => t.gen <= f.tok.gen
  /\ \A c \in Answered : \A t \in Known : t # None => t.sess # c.sess

(* The one before last of a session.                                       *)
JustSpent(t) == t # None /\ auth[t.sess].gen = t.gen + 1

SpentByOther ==
  /\ JustSpent(cookie) /\ spender[cookie.sess] \in Tabs =>
       \E f \in flights : /\ f.tab = spender[cookie.sess]
                          /\ f.at = "ok" /\ f.tok = cookie
  /\ \A f \in flights : (f.at = "sent" /\ JustSpent(f.tok))
       => spender[f.tok.sess] # f.tab

Tokens == OneFlight /\ Issued /\ Brings /\ Unknown /\ SpentByOther

(* Until somebody signs in beside another, the browser knows one session,  *)
(* and every user shown is that session's.                                 *)
OnlySession(s) ==
  /\ cookie # None => cookie.sess = s
  /\ \A f \in flights : f.tok # None => f.tok.sess = s
  /\ \A t \in Tabs : mem[t] # None => mem[t].sess = s
  /\ \A t \in Tabs : ui[t].who # None => ui[t].who = auth[s].user
  /\ \A c \in calls : (c.kind = "viewer" /\ c.sess # None) => c.sess = s

OneSession == ~mixed => \E s \in SessionIds : OnlySession(s)

(* A clean sign-out runs alone; once it is over there is no token to keep. *)
CleanOut ==
  out = "clean" =>
    /\ Pending("signout") # {} => flights = {}
    /\ Pending("signout") # {} => \A c \in Pending("signout") : c.at # "no"
    /\ Pending("signout") = {} => cookie = None
    /\ Pending("signout") = {} => \A f \in flights : f.tok = None

IInv == TypeOK /\ CallsOK /\ Tokens /\ OneSession /\ CleanOut
-----------------------------------------------------------------------------
NewFlight(t) == [tab |-> t, n |-> 1, tok |-> cookie, at |-> "sent"]

LEMMA FlightStarts ==
  ASSUME NEW t \in Tabs, StartRefresh(t)
  PROVE  \/ flights' = flights /\ out' = out
         \/ /\ Flights(t) = {}
            /\ flights' = flights \cup {NewFlight(t)}
            /\ out' = Spoiled
BY DEF StartRefresh, MayFly, NewFlight

LEMMA FlightTypes ==
  ASSUME TypeOK
  PROVE  /\ \A t \in Tabs : NewFlight(t) \in Flight
         /\ \A f \in flights :
              [f EXCEPT !.at = "ok"] \in Flight /\ [f EXCEPT !.at = "no"] \in Flight
BY Constants DEF TypeOK, Flight, NewFlight

LEMMA ShownTypes ==
  /\ \A status \in {"closed", "loading", "ready", "thrown"} :
       /\ Nobody(status) \in Ui
       /\ \A u \in Users \cup {None}, a \in Access : Shown(status, u, a) \in Ui
  /\ \A i \in Ui : Nobody(i.status) \in Ui /\ [i EXCEPT !.old = TRUE] \in Ui
                   /\ [i EXCEPT !.status = "thrown"] \in Ui
BY DEF Ui, Nobody, Shown, Access

LEMMA NewCallTypes ==
  /\ \A t \in Tabs : /\ NewCall(t, "boot", "token") \in Call
                     /\ NewCall(t, "edit", "token") \in Call
  /\ \A t \in Tabs, s \in SessionIds :
       [NewCall(t, "edit", "sent") EXCEPT !.sess = s] \in Call
  /\ \A t \in Tabs, u \in Users :
       [NewCall(t, "signin", "sent") EXCEPT !.user = u] \in Call
  /\ \A t \in Tabs, k \in Token \cup {None} :
       [NewCall(t, "signout", "sent") EXCEPT !.tok = k] \in Call
BY DEF Call, NewCall, Kinds

LEMMA MovedCallTypes ==
  ASSUME NEW c \in Call
  PROVE  /\ \A at \in {"ok", "no", "again"} : [c EXCEPT !.at = at] \in Call
         /\ \A s \in SessionIds : [c EXCEPT !.at = "ok", !.sess = s] \in Call
         /\ \A s \in SessionIds \cup {None} : Resumed(c, s) \in Call
BY DEF Call, Kinds, Resumed

LEMMA InitTypes == Init => TypeOK
<1> SUFFICES ASSUME Init PROVE TypeOK
  OBVIOUS
<1>1. auth \in [SessionIds -> [user : Users \cup {None}, live : BOOLEAN, gen : 0..MaxGen]]
  BY Constants DEF Init, NewSession, NoSession
<1>2. cookie \in Token \cup {None}
  BY Constants DEF Init, Token, SessionIds
<1>3. ui \in [Tabs -> Ui]
  BY ShownTypes DEF Init
<1> QED
  BY <1>1, <1>2, <1>3, Constants DEF Init, TypeOK

(* What the actions do to the flights and the calls keeps their types.     *)
LEMMA StartTypes ==
  ASSUME TypeOK, NEW t \in Tabs, StartRefresh(t)
  PROVE  flights' \subseteq Flight /\ out' \in {"in", "clean", "spoiled"}
BY FlightStarts, FlightTypes DEF TypeOK, Spoiled

LEMMA ReplaceTypes ==
  ASSUME TypeOK, NEW c, NEW d \in Call, Replace(c, d)
  PROVE  calls' \subseteq Call
BY DEF TypeOK, Replace

LEMMA FaultTypes ==
  ASSUME TypeOK, Fault
  PROVE  left' \in [loads : [Tabs -> Nat], ages : Nat, edits : Nat, faults : Nat]
BY DEF TypeOK, Fault

LEMMA UnauthorizedTypes ==
  ASSUME TypeOK, NEW c \in calls, Unauthorized(c)
  PROVE  /\ calls' \subseteq Call /\ flights' \subseteq Flight
         /\ out' \in {"in", "clean", "spoiled"}
<1>1. c \in Call /\ c.tab \in Tabs
  BY DEF TypeOK, Call
<1>2. CASE c.retry \/ c.kind = "signout"
  BY <1>1, <1>2, ReplaceTypes, MovedCallTypes DEF Unauthorized, TypeOK
<1>3. CASE ~(c.retry \/ c.kind = "signout")
  BY <1>1, <1>3, ReplaceTypes, MovedCallTypes, StartTypes DEF Unauthorized
<1> QED
  BY <1>2, <1>3

\* A token that is spent is followed by the next generation, within the bound.
LEMMA SpentTypes ==
  ASSUME TypeOK, NEW t \in Token \cup {None}, Usable(t), t.gen < MaxGen, NEW by,
         by \in Tabs \cup {"out", "lost", None}
  PROVE  /\ [auth EXCEPT ![t.sess].gen = @ + 1] \in
              [SessionIds -> [user : Users \cup {None}, live : BOOLEAN, gen : 0..MaxGen]]
         /\ [spender EXCEPT ![t.sess] = by] \in
              [SessionIds -> Tabs \cup {"out", "lost", None}]
<1>1. t \in Token
  BY DEF Usable
<1>2. t.sess \in SessionIds /\ auth[t.sess].gen + 1 \in 0..MaxGen
  BY <1>1, Constants DEF TypeOK, Usable, Token
<1> QED
  BY <1>2 DEF TypeOK

LEMMA ServeRefreshTypes ==
  ASSUME TypeOK, NEW f \in flights, ServeRefresh(f) PROVE TypeOK'
<1>1. f \in Flight /\ f.tab \in Tabs /\ f.tok \in Token \cup {None}
  BY DEF TypeOK, Flight
<1>2. CASE /\ Usable(f.tok) /\ f.tok.gen < MaxGen
           /\ auth' = [auth EXCEPT ![f.tok.sess].gen = @ + 1]
           /\ spender' = [spender EXCEPT ![f.tok.sess] = f.tab]
           /\ flights' = (flights \ {f}) \cup {[f EXCEPT !.at = "ok"]}
           /\ UNCHANGED left
  <2>1. flights' \subseteq Flight
    BY <1>2, FlightTypes DEF TypeOK
  <2> QED
    BY <1>1, <1>2, <2>1, SpentTypes DEF ServeRefresh, TypeOK
<1>3. CASE /\ UNCHANGED left \/ Fault
           /\ flights' = (flights \ {f}) \cup {[f EXCEPT !.at = "no"]}
           /\ UNCHANGED <<auth, spender>>
  <2>1. flights' \subseteq Flight
    BY <1>3, FlightTypes DEF TypeOK
  <2>2. left' \in [loads : [Tabs -> Nat], ages : Nat, edits : Nat, faults : Nat]
    BY <1>3, FaultTypes DEF TypeOK
  <2> QED
    BY <1>3, <2>1, <2>2 DEF ServeRefresh, TypeOK
<1> QED
  BY <1>2, <1>3 DEF ServeRefresh

LEMMA HeldTypes ==
  ASSUME NEW s \in SessionIds \cup {None} PROVE Held(s) \in Access \cup {None}
BY DEF Held, Access

LEMMA DeliverRefreshTypes ==
  ASSUME TypeOK, Brings, NEW f \in flights, DeliverRefresh(f) PROVE TypeOK'
<1> DEFINE s == IF f.at = "ok" THEN f.tok.sess ELSE None
<1>1. f \in Flight /\ f.tab \in Tabs /\ f.tok \in Token \cup {None}
  BY DEF TypeOK, Flight
<1>2. /\ f.at = "ok" => f.tok \in Token /\ f.tok.gen + 1 \in 1..MaxGen
      /\ s \in SessionIds \cup {None}
  BY <1>1, Constants DEF Brings, TypeOK, Token
<1>3. cookie' \in Token \cup {None}
  BY <1>2, Constants DEF DeliverRefresh, TypeOK, Token
<1>4. mem' \in [Tabs -> Access \cup {None}]
  BY <1>1, <1>2, HeldTypes DEF DeliverRefresh, TypeOK
<1>5. calls' \subseteq Call
  <2>1. Awaiting(f.tab) \subseteq Call
    BY DEF Awaiting, Calls, TypeOK
  <2>2. calls' = (calls \ Awaiting(f.tab)) \cup {Resumed(c, s) : c \in Awaiting(f.tab)}
    BY DEF DeliverRefresh
  <2>3. \A c \in Awaiting(f.tab) : Resumed(c, s) \in Call
    BY <1>2, <2>1, MovedCallTypes
  <2> QED
    BY <2>2, <2>3 DEF TypeOK
<1> QED
  BY <1>3, <1>4, <1>5 DEF DeliverRefresh, TypeOK

LEMMA LoseRefreshTypes ==
  ASSUME TypeOK, Brings, NEW f \in flights, LoseRefresh(f) PROVE TypeOK'
<1> DEFINE boots == {c \in Awaiting(f.tab) : c.kind = "boot"}
<1>1. f \in Flight /\ f.tab \in Tabs
  BY DEF TypeOK, Flight
<1>2. calls' \subseteq Call
  <2>1. \A c \in Awaiting(f.tab) : c \in Call /\ [c EXCEPT !.at = "no"] \in Call
    BY MovedCallTypes DEF Awaiting, Calls, TypeOK
  <2> QED
    BY <2>1 DEF LoseRefresh, TypeOK
<1>3. ui' \in [Tabs -> Ui]
  BY <1>1, ShownTypes DEF LoseRefresh, TypeOK
<1>4. spender' \in [SessionIds -> Tabs \cup {"out", "lost", None}]
  BY DEF LoseRefresh, TypeOK
<1> QED
  BY <1>2, <1>3, <1>4, FaultTypes DEF LoseRefresh, TypeOK

LEMMA LoadTypes ==
  ASSUME TypeOK, NEW t \in Tabs, Load(t) PROVE TypeOK'
<1>1. flights' \subseteq Flight /\ calls' \subseteq Call
  BY FlightTypes, NewCallTypes DEF Load, NewFlight, TypeOK
<1>2. ui' \in [Tabs -> Ui] /\ mem' \in [Tabs -> Access \cup {None}]
  BY ShownTypes DEF Load, TypeOK
<1>3. left' \in [loads : [Tabs -> Nat], ages : Nat, edits : Nat, faults : Nat]
  <2>1. left.loads \in [Tabs -> Nat] /\ [left.loads EXCEPT ![t] = @ - 1] \in [Tabs -> Nat]
    BY DEF Load, TypeOK
  <2>2. left' = [left EXCEPT !.loads = [left.loads EXCEPT ![t] = @ - 1]]
    BY DEF Load, TypeOK
  <2> QED
    BY <2>1, <2>2 DEF TypeOK
<1>4. spender' \in [SessionIds -> Tabs \cup {"out", "lost", None}]
  BY DEF Load, TypeOK
<1>5. out' \in {"in", "clean", "spoiled"}
  BY DEF Load, TypeOK, Spoiled
<1> QED
  BY <1>1, <1>2, <1>3, <1>4, <1>5 DEF Load, TypeOK

LEMMA EditTypes ==
  ASSUME TypeOK, NEW t \in Tabs, Edit(t) PROVE TypeOK'
<1>1. left' \in [loads : [Tabs -> Nat], ages : Nat, edits : Nat, faults : Nat]
  BY DEF Edit, TypeOK
<1>2. CASE mem[t] # None /\ ~mem[t].old
  <2>1. mem[t].sess \in SessionIds
    BY <1>2 DEF TypeOK, Access
  <2>2. calls' \subseteq Call
    BY <1>2, <2>1, NewCallTypes DEF Edit, TypeOK
  <2> QED
    BY <1>1, <1>2, <2>2 DEF Edit, TypeOK
<1>3. CASE ~(mem[t] # None /\ ~mem[t].old)
  <2>1. calls' \subseteq Call
    BY <1>3, NewCallTypes DEF Edit, TypeOK
  <2>2. flights' \subseteq Flight /\ out' \in {"in", "clean", "spoiled"}
    BY <1>3, StartTypes DEF Edit
  <2> QED
    BY <1>1, <2>1, <2>2 DEF Edit, TypeOK
<1> QED
  BY <1>2, <1>3

LEMMA SignTypes ==
  ASSUME TypeOK, NEW t \in Tabs, SignOut(t) \/ \E u \in Users : SignIn(t, u)
  PROVE  TypeOK'
<1>1. CASE SignOut(t)
  <2>1. calls' \subseteq Call
    BY <1>1, NewCallTypes DEF SignOut, Announced, TypeOK
  <2>2. ui' \in [Tabs -> Ui] /\ mem' \in [Tabs -> Access \cup {None}]
    BY <1>1, ShownTypes DEF SignOut, TypeOK
  <2> QED
    BY <1>1, <2>1, <2>2 DEF SignOut, TypeOK
<1>2. CASE \E u \in Users : SignIn(t, u)
  BY <1>2, NewCallTypes DEF SignIn, TypeOK
<1> QED
  BY <1>1, <1>2

LEMMA ServeCallTypes ==
  ASSUME TypeOK, NEW c \in calls, ServeCall(c) \/ ServeSignIn(c) \/ ServeSignOut(c)
  PROVE  TypeOK'
<1>1. c \in Call /\ c.tok \in Token \cup {None} /\ c.user \in Users \cup {None}
  BY DEF TypeOK, Call
<1>2. CASE ServeCall(c)
  <2>1. CASE c.sess # None /\ auth[c.sess].live
    BY <1>1, <1>2, <2>1, ReplaceTypes, MovedCallTypes DEF ServeCall, TypeOK
  <2>2. CASE ~(c.sess # None /\ auth[c.sess].live)
    BY <1>2, <2>2, UnauthorizedTypes DEF ServeCall, TypeOK
  <2> QED
    BY <2>1, <2>2
<1>3. CASE ServeSignIn(c)
  <2>1. ASSUME NEW s \in SessionIds,
               auth' = [auth EXCEPT ![s] = NewSession(c.user)],
               Replace(c, [c EXCEPT !.at = "ok", !.sess = s]),
               UNCHANGED <<flights, left, out>>
        PROVE  TypeOK'
    <3>1. calls' \subseteq Call
      BY <1>1, <2>1, ReplaceTypes, MovedCallTypes
    <3>2. auth' \in [SessionIds -> [user : Users \cup {None}, live : BOOLEAN, gen : 0..MaxGen]]
      BY <1>1, <2>1, Constants DEF TypeOK, NewSession
    <3> QED
      BY <1>3, <2>1, <3>1, <3>2 DEF ServeSignIn, TypeOK
  <2>2. CASE Fault /\ Unauthorized(c) /\ UNCHANGED auth
    <3>1. left' \in [loads : [Tabs -> Nat], ages : Nat, edits : Nat, faults : Nat]
      BY <2>2, FaultTypes
    <3> QED
      BY <1>3, <2>2, <3>1, UnauthorizedTypes DEF ServeSignIn, TypeOK
  <2> QED
    BY <1>3, <2>1, <2>2 DEF ServeSignIn
<1>4. CASE ServeSignOut(c)
  <2>1. calls' \subseteq Call
    BY <1>1, <1>4, ReplaceTypes, MovedCallTypes DEF ServeSignOut
  <2>2. /\ auth' \in [SessionIds -> [user : Users \cup {None}, live : BOOLEAN, gen : 0..MaxGen]]
        /\ spender' \in [SessionIds -> Tabs \cup {"out", "lost", None}]
    <3>1. CASE Usable(c.tok) /\ c.tok.gen < MaxGen
      BY <1>1, <1>4, <3>1, SpentTypes DEF ServeSignOut
    <3>2. CASE ~(Usable(c.tok) /\ c.tok.gen < MaxGen)
      BY <1>4, <3>2 DEF ServeSignOut, TypeOK
    <3> QED
      BY <3>1, <3>2
  <2> QED
    BY <1>4, <2>1, <2>2 DEF ServeSignOut, TypeOK
<1> QED
  BY <1>2, <1>3, <1>4

LEMMA LoseCallTypes ==
  ASSUME TypeOK, NEW c \in calls, LoseCall(c) PROVE TypeOK'
<1>1. calls' \subseteq Call
  BY ReplaceTypes, MovedCallTypes DEF LoseCall, TypeOK
<1> QED
  BY <1>1, FaultTypes DEF LoseCall, TypeOK

LEMMA DeliverCallTypes ==
  ASSUME TypeOK, CallsOK, NEW c \in calls, DeliverCall(c) PROVE TypeOK'
<1>1. c \in Call /\ c.tab \in Tabs /\ calls' \subseteq Call
  BY DEF DeliverCall, TypeOK, Call
<1>2. CASE Booted(c)
  <2>1. CASE c.at = "ok" /\ mem[c.tab] # None
    <3>1. c.sess \in SessionIds /\ auth[c.sess].user \in Users \cup {None}
      BY <1>1, <1>2, <2>1 DEF Booted, CallsOK, CallOK, TypeOK, Call
    <3>2. Shown("ready", auth[c.sess].user, mem[c.tab]) \in Ui
      BY <1>1, <2>1, <3>1, ShownTypes DEF TypeOK
    <3> QED
      BY <1>1, <1>2, <2>1, <3>2 DEF Booted, DeliverCall, TypeOK
  <2>2. CASE ~(c.at = "ok" /\ mem[c.tab] # None)
    BY <1>1, <1>2, <2>2, ShownTypes DEF Booted, DeliverCall, TypeOK
  <2> QED
    BY <2>1, <2>2
<1>3. CASE Edited(c)
  <2>1. ui[c.tab] \in Ui /\ Nobody(ui[c.tab].status) \in Ui
    BY <1>1, ShownTypes DEF TypeOK
  <2>2. ui' \in [Tabs -> Ui] /\ mem' \in [Tabs -> Access \cup {None}]
    BY <1>3, <2>1 DEF Edited, TypeOK
  <2> QED
    BY <1>1, <1>3, <2>2 DEF Edited, DeliverCall, TypeOK
<1>4. CASE SignedIn(c)
  <2>1. CASE c.at = "ok"
    <3>1. c.sess \in SessionIds /\ c.user \in Users
      BY <1>4, <2>1 DEF SignedIn, CallsOK, CallOK, Answered
    <3>2. /\ [sess |-> c.sess, gen |-> 1] \in Token
          /\ [sess |-> c.sess, old |-> FALSE] \in Access
      BY <3>1, Constants DEF Token, Access
    <3>3. /\ ui' \in [Tabs -> Ui] /\ mem' \in [Tabs -> Access \cup {None}]
      BY <1>1, <1>4, <2>1, <3>1, <3>2, ShownTypes DEF SignedIn, Remembered, TypeOK
    <3>4. mixed' \in BOOLEAN /\ out' \in {"in", "clean", "spoiled"}
      BY <1>4, <2>1 DEF SignedIn
    <3> QED
      BY <1>1, <1>4, <2>1, <3>2, <3>3, <3>4 DEF SignedIn, DeliverCall, TypeOK
  <2>2. CASE c.at # "ok"
    BY <1>1, <1>4, <2>2 DEF SignedIn, DeliverCall, TypeOK
  <2> QED
    BY <2>1, <2>2
<1>5. CASE SignedOut(c)
  BY <1>1, <1>5 DEF SignedOut, DeliverCall, TypeOK
<1> QED
  BY <1>2, <1>3, <1>4, <1>5 DEF DeliverCall

LEMMA AgeTypes ==
  ASSUME TypeOK, NEW t \in Tabs, Age(t) PROVE TypeOK'
<1>1. [mem[t] EXCEPT !.old = TRUE] \in Access
  BY DEF Age, TypeOK, Access
<1>2. ui' \in [Tabs -> Ui] /\ mem' \in [Tabs -> Access \cup {None}]
  BY <1>1, ShownTypes DEF Age, TypeOK
<1> QED
  BY <1>2 DEF Age, TypeOK

LEMMA RevokeTypes ==
  ASSUME TypeOK, NEW s \in SessionIds, Revoke(s) PROVE TypeOK'
BY FaultTypes DEF Revoke, TypeOK

LEMMA NextTypes == TypeOK /\ CallsOK /\ Tokens /\ [Next]_vars => TypeOK'
<1> SUFFICES ASSUME TypeOK, CallsOK, Tokens, [Next]_vars PROVE TypeOK'
  OBVIOUS
<1> USE DEF Tokens
<1>1. ASSUME NEW f \in flights, ServeRefresh(f) \/ DeliverRefresh(f) \/ LoseRefresh(f)
      PROVE  TypeOK'
  BY <1>1, ServeRefreshTypes, DeliverRefreshTypes, LoseRefreshTypes
<1>2. ASSUME NEW t \in Tabs, Load(t) \/ Edit(t) \/ SignOut(t) \/ Age(t)
                             \/ \E u \in Users : SignIn(t, u)
      PROVE  TypeOK'
  BY <1>2, LoadTypes, EditTypes, SignTypes, AgeTypes
<1>3. ASSUME NEW c \in calls, ServeCall(c) \/ ServeSignIn(c) \/ ServeSignOut(c)
                              \/ LoseCall(c) \/ DeliverCall(c)
      PROVE  TypeOK'
  BY <1>3, ServeCallTypes, LoseCallTypes, DeliverCallTypes
<1>4. CASE UNCHANGED vars
  BY <1>4 DEF vars, TypeOK
<1> QED
  BY <1>1, <1>2, <1>3, <1>4, RevokeTypes DEF Next
-----------------------------------------------------------------------------
(* Calls.                                                                  *)

\* What an action may do to the calls in progress.
CallsShape ==
  /\ \A c \in calls : CallOK(c)
  /\ \A c, d \in Pending("signin") : c = d
  /\ \A c, d \in Pending("signout") : c = d

LEMMA InitCalls == Init => CallsOK
BY DEF Init, CallsOK, Pending, Answered

LEMMA FewerCalls ==
  ASSUME CallsOK, calls' \subseteq calls
  PROVE  CallsShape' /\ Answered' \subseteq Answered
BY DEF CallsOK, CallsShape, Pending, Answered

LEMMA ReplacedCalls ==
  ASSUME TypeOK, CallsOK, NEW c \in calls, NEW d \in Call, d.kind = c.kind, CallOK(d),
         Replace(c, d)
  PROVE  /\ CallsShape'
         /\ Answered' \subseteq Answered \cup {d}
         /\ d.at # "ok" => Answered' \subseteq Answered
BY DEF CallsOK, CallsShape, Pending, Answered, Replace

LEMMA AddedCalls ==
  ASSUME TypeOK, CallsOK, NEW d \in Call, CallOK(d), d.at # "ok",
         d.kind = "signin" => Pending("signin") = {},
         d.kind = "signout" => Pending("signout") = {},
         calls' \subseteq calls \cup {d}
  PROVE  CallsShape' /\ Answered' \subseteq Answered
BY DEF CallsOK, CallsShape, Pending, Answered

LEMMA ResumedCall ==
  ASSUME NEW c \in Call, CallOK(c), c.at \in {"token", "again"},
         NEW s \in SessionIds \cup {None}
  PROVE  /\ Resumed(c, s) \in Call /\ CallOK(Resumed(c, s))
         /\ Resumed(c, s).at # "ok" /\ Resumed(c, s).kind # "signout"
         /\ Resumed(c, s).kind = "signin" <=> c.kind = "signin"
         /\ Resumed(c, s).kind = "viewer" => Resumed(c, s).sess \in {s, c.sess}
BY Constants DEF Call, Kinds, Resumed, CallOK

LEMMA AnsweredKept ==
  ASSUME TypeOK, CallsOK, CallsShape', Answered' \subseteq Answered,
         \A c \in Answered : /\ auth'[c.sess].user = auth[c.sess].user
                             /\ auth'[c.sess].gen = auth[c.sess].gen
  PROVE  CallsOK'
BY DEF CallsOK, CallsShape

LEMMA SameAuth ==
  ASSUME CallsShape', Answered' \subseteq Answered, TypeOK, CallsOK, auth' = auth
  PROVE  CallsOK'
BY AnsweredKept

\* Spending a token the browser holds disturbs no sign-in still to be heard of.
LEMMA SpentKeepsAnswered ==
  ASSUME TypeOK, CallsOK, Unknown, CallsShape', Answered' \subseteq Answered,
         NEW t \in Known, Usable(t), auth' = [auth EXCEPT ![t.sess].gen = @ + 1]
  PROVE  CallsOK'
<1>1. \A c \in Answered : c.sess \in SessionIds /\ c.sess # t.sess
  BY DEF CallsOK, Unknown, Usable
<1>2. \A c \in Answered : auth'[c.sess] = auth[c.sess]
  BY <1>1 DEF TypeOK
<1> QED
  BY <1>2, AnsweredKept

LEMMA ServeRefreshCalls ==
  ASSUME TypeOK, CallsOK, Unknown, NEW f \in flights, ServeRefresh(f) PROVE CallsOK'
<1>1. CallsShape' /\ Answered' \subseteq Answered
  BY FewerCalls DEF ServeRefresh
<1>2. f.tok \in Known
  BY DEF Known
<1> QED
  BY <1>1, <1>2, SameAuth, SpentKeepsAnswered DEF ServeRefresh

LEMMA DeliverRefreshCalls ==
  ASSUME TypeOK, CallsOK, Brings, NEW f \in flights, DeliverRefresh(f) PROVE CallsOK'
<1> DEFINE s == IF f.at = "ok" THEN f.tok.sess ELSE None
<1>1. s \in SessionIds \cup {None}
  BY DEF Brings, Token
<1>2. \A c \in Awaiting(f.tab) : c \in calls /\ c \in Call /\ CallOK(c) /\ c.at \in {"token", "again"}
  BY DEF Awaiting, Calls, CallsOK, TypeOK
<1>3. calls' = (calls \ Awaiting(f.tab)) \cup {Resumed(c, s) : c \in Awaiting(f.tab)}
  BY DEF DeliverRefresh
<1>4. \A d \in calls' : \/ d \in calls /\ d \notin Awaiting(f.tab)
                        \/ \E c \in Awaiting(f.tab) : d = Resumed(c, s)
  BY <1>3
<1>5. \A d \in calls' : CallOK(d)
  BY <1>1, <1>2, <1>4, ResumedCall DEF CallsOK
<1>6. \A d \in calls' : d.kind = "signout" => d \in calls
  BY <1>1, <1>2, <1>4, ResumedCall
<1>7. \A d \in calls' : d.kind = "signin" =>
        \E c \in Pending("signin") : IF c \in Awaiting(f.tab) THEN d = Resumed(c, s)
                                                             ELSE d = c
  BY <1>1, <1>2, <1>4, ResumedCall DEF Pending
<1>8. CallsShape'
  <2>1. \A c, d \in Pending("signin")' : c = d
    BY <1>7 DEF Pending, CallsOK
  <2>2. \A c, d \in Pending("signout")' : c = d
    BY <1>6 DEF Pending, CallsOK
  <2> QED
    BY <1>5, <2>1, <2>2 DEF CallsShape
<1>9. Answered' \subseteq Answered
  BY <1>1, <1>2, <1>4, ResumedCall DEF Answered
<1> QED
  BY <1>8, <1>9, SameAuth DEF DeliverRefresh

LEMMA LoseRefreshCalls ==
  ASSUME TypeOK, CallsOK, NEW f \in flights, LoseRefresh(f) PROVE CallsOK'
<1>1. \A c \in Awaiting(f.tab) : c \in calls /\ c \in Call /\ CallOK(c) /\ c.at \in {"token", "again"}
  BY DEF Awaiting, Calls, CallsOK, TypeOK
<1>2. \A d \in calls' : \/ d \in calls /\ d \notin Awaiting(f.tab)
                        \/ \E c \in Awaiting(f.tab) : d = [c EXCEPT !.at = "no"]
  BY DEF LoseRefresh
<1>3. \A c \in Awaiting(f.tab) : /\ [c EXCEPT !.at = "no"].kind = c.kind
                                 /\ [c EXCEPT !.at = "no"].at = "no"
                                 /\ CallOK([c EXCEPT !.at = "no"])
                                 /\ c.kind # "signout"
  BY <1>1 DEF Call, CallOK
<1>4. \A d \in calls' : CallOK(d)
  BY <1>2, <1>3 DEF CallsOK
<1>5. \A d \in calls' : d.kind = "signout" => d \in calls
  BY <1>2, <1>3
<1>6. \A d \in calls' : d.kind = "signin" =>
        \E c \in Pending("signin") :
          IF c \in Awaiting(f.tab) THEN d = [c EXCEPT !.at = "no"] ELSE d = c
  BY <1>1, <1>2, <1>3 DEF Pending
<1>7. CallsShape'
  <2>1. \A c, d \in Pending("signin")' : c = d
    BY <1>6 DEF Pending, CallsOK
  <2>2. \A c, d \in Pending("signout")' : c = d
    BY <1>5 DEF Pending, CallsOK
  <2> QED
    BY <1>4, <2>1, <2>2 DEF CallsShape
<1>8. Answered' \subseteq Answered
  BY <1>2, <1>3 DEF Answered
<1> QED
  BY <1>7, <1>8, SameAuth DEF LoseRefresh

LEMMA AddCalls ==
  ASSUME TypeOK, CallsOK, NEW t \in Tabs,
         Load(t) \/ Edit(t) \/ SignOut(t) \/ \E u \in Users : SignIn(t, u)
  PROVE  CallsOK'
<1>1. CASE Load(t)
  <2>1. CallOK(NewCall(t, "boot", "token")) /\ NewCall(t, "boot", "token").at = "token"
        /\ NewCall(t, "boot", "token").kind = "boot"
    BY DEF CallOK, NewCall
  <2> QED
    BY <1>1, <2>1, NewCallTypes, AddedCalls, SameAuth DEF Load
<1>2. CASE Edit(t)
  <2> DEFINE a == [NewCall(t, "edit", "sent") EXCEPT !.sess = mem[t].sess]
             b == NewCall(t, "edit", "token")
  <2>1. /\ CallOK(a) /\ a.at = "sent" /\ a.kind = "edit"
        /\ CallOK(b) /\ b.at = "token" /\ b.kind = "edit"
    BY DEF CallOK, NewCall
  <2>2. CASE mem[t] # None /\ ~mem[t].old
    <3>1. mem[t].sess \in SessionIds /\ calls' = calls \cup {a} /\ auth' = auth
      BY <1>2, <2>2 DEF TypeOK, Access, Edit
    <3>2. a \in Call
      BY <3>1, NewCallTypes
    <3> QED
      BY <2>1, <3>1, <3>2, AddedCalls, SameAuth
  <2>3. CASE ~(mem[t] # None /\ ~mem[t].old)
    <3>1. calls' = calls \cup {b} /\ auth' = auth /\ b \in Call
      BY <1>2, <2>3, NewCallTypes DEF Edit
    <3> QED
      BY <2>1, <3>1, AddedCalls, SameAuth
  <2> QED
    BY <2>2, <2>3
<1>3. CASE SignOut(t)
  <2> DEFINE a == [NewCall(t, "signout", "sent") EXCEPT !.tok = cookie]
  <2>1. CallOK(a) /\ a.at = "sent" /\ a.kind = "signout" /\ a \in Call
    BY NewCallTypes DEF CallOK, NewCall, TypeOK
  <2> QED
    BY <1>3, <2>1, AddedCalls, SameAuth DEF SignOut, Announced
<1>4. ASSUME NEW u \in Users, SignIn(t, u) PROVE CallsOK'
  <2> DEFINE a == [NewCall(t, "signin", "sent") EXCEPT !.user = u]
  <2>1. CallOK(a) /\ a.at = "sent" /\ a.kind = "signin" /\ a \in Call
    BY NewCallTypes DEF CallOK, NewCall
  <2> QED
    BY <1>4, <2>1, AddedCalls, SameAuth DEF SignIn
<1> QED
  BY <1>1, <1>2, <1>3, <1>4

LEMMA UnauthorizedCalls ==
  ASSUME TypeOK, CallsOK, NEW c \in calls, Unauthorized(c), c.kind # "boot"
  PROVE  CallsShape' /\ Answered' \subseteq Answered
<1>1. c \in Call /\ CallOK(c)
  BY DEF TypeOK, CallsOK
<1>2. CASE c.retry \/ c.kind = "signout"
  <2> DEFINE d == [c EXCEPT !.at = "no"]
  <2>1. d \in Call /\ d.kind = c.kind /\ d.at = "no" /\ CallOK(d)
    BY <1>1, MovedCallTypes DEF CallOK, Call
  <2> QED
    BY <1>2, <2>1, ReplacedCalls DEF Unauthorized
<1>3. CASE ~(c.retry \/ c.kind = "signout")
  <2> DEFINE d == [c EXCEPT !.at = "again"]
  <2>1. d \in Call /\ d.kind = c.kind /\ d.at = "again" /\ CallOK(d)
    BY <1>1, <1>3, MovedCallTypes DEF CallOK, Call
  <2> QED
    BY <1>3, <2>1, ReplacedCalls DEF Unauthorized
<1> QED
  BY <1>2, <1>3

\* A session the server opens is nobody's yet.
LEMMA OpenedCalls ==
  ASSUME TypeOK, CallsOK, NEW c \in calls, c.kind = "signin",
         NEW s \in SessionIds, auth[s] = NoSession,
         auth' = [auth EXCEPT ![s] = NewSession(c.user)],
         Replace(c, [c EXCEPT !.at = "ok", !.sess = s])
  PROVE  CallsOK'
<1> DEFINE d == [c EXCEPT !.at = "ok", !.sess = s]
<1>1. c \in Call /\ CallOK(c)
  BY DEF TypeOK, CallsOK
<1>2. /\ d \in Call /\ d.kind = c.kind /\ d.at = "ok" /\ CallOK(d)
      /\ d.sess = s /\ d.user = c.user
  BY <1>1, MovedCallTypes DEF CallOK, Call
<1>3. CallsShape' /\ Answered' \subseteq Answered \cup {d}
  BY <1>2, ReplacedCalls
<1>4. \A x \in Answered : x.sess \in SessionIds /\ x.sess # s
  BY DEF CallsOK, NoSession
<1>5. \A x \in Answered : auth'[x.sess] = auth[x.sess]
  BY <1>4 DEF TypeOK
<1>6. auth'[s].user = c.user /\ auth'[s].gen = 1
  BY DEF TypeOK, NewSession
<1>7. \A x \in Answered' : /\ x.sess \in SessionIds
                           /\ auth'[x.sess].user = x.user
                           /\ auth'[x.sess].gen = 1
  <2> SUFFICES ASSUME NEW x \in Answered'
      PROVE  x.sess \in SessionIds /\ auth'[x.sess].user = x.user /\ auth'[x.sess].gen = 1
    OBVIOUS
  <2>1. CASE x = d
    BY <1>2, <1>6, <2>1
  <2>2. CASE x \in Answered
    BY <1>5, <2>2 DEF CallsOK
  <2> QED
    BY <1>3, <2>1, <2>2
<1> QED
  BY <1>3, <1>7 DEF CallsOK, CallsShape

LEMMA ServeCallCalls ==
  ASSUME TypeOK, CallsOK, Unknown, NEW c \in calls,
         ServeCall(c) \/ ServeSignIn(c) \/ ServeSignOut(c)
  PROVE  CallsOK'
<1> DEFINE d == [c EXCEPT !.at = "ok"]
<1>0. c \in Call /\ CallOK(c)
  BY DEF TypeOK, CallsOK
<1>1. d \in Call /\ d.kind = c.kind /\ d.at = "ok" /\ d.sess = c.sess
  BY <1>0, MovedCallTypes DEF Call
<1>2. CASE ServeCall(c)
  <2>1. CASE c.sess # None /\ auth[c.sess].live
    <3>1. CallOK(d)
      BY <1>0, <1>1, <1>2, <2>1 DEF CallOK, ServeCall
    <3>2. CallsShape' /\ Answered' \subseteq Answered \cup {d}
      BY <1>0, <1>1, <1>2, <2>1, <3>1, ReplacedCalls DEF ServeCall
    <3>3. Answered' \subseteq Answered
      BY <1>0, <1>1, <1>2, <3>2 DEF ServeCall, Answered
    <3> QED
      BY <1>2, <3>2, <3>3, SameAuth DEF ServeCall
  <2>2. CASE ~(c.sess # None /\ auth[c.sess].live)
    BY <1>2, <2>2, UnauthorizedCalls, SameAuth DEF ServeCall
  <2> QED
    BY <2>1, <2>2
<1>3. CASE ServeSignIn(c)
  <2>1. CASE Fault /\ Unauthorized(c) /\ UNCHANGED auth
    BY <1>3, <2>1, UnauthorizedCalls, SameAuth DEF ServeSignIn
  <2>2. CASE ~(Fault /\ Unauthorized(c) /\ UNCHANGED auth)
    BY <1>3, <2>2, OpenedCalls DEF ServeSignIn
  <2> QED
    BY <2>1, <2>2
<1>4. CASE ServeSignOut(c)
  <2>1. CallOK(d)
    BY <1>0, <1>1, <1>4 DEF CallOK, ServeSignOut
  <2>2. CallsShape' /\ Answered' \subseteq Answered \cup {d}
    BY <1>0, <1>1, <1>4, <2>1, ReplacedCalls DEF ServeSignOut
  <2>3. Answered' \subseteq Answered
    BY <1>0, <1>1, <1>4, <2>2 DEF ServeSignOut, Answered
  <2>4. c.tok \in Known
    BY <1>4 DEF Known, Pending, ServeSignOut
  <2> QED
    BY <1>4, <2>2, <2>3, <2>4, SameAuth, SpentKeepsAnswered DEF ServeSignOut
<1> QED
  BY <1>2, <1>3, <1>4

LEMMA EndCalls ==
  ASSUME TypeOK, CallsOK, NEW c \in calls, LoseCall(c) \/ DeliverCall(c)
  PROVE  CallsOK'
<1>1. CASE LoseCall(c)
  <2> DEFINE d == [c EXCEPT !.at = "no"]
  <2>0. c \in Call /\ CallOK(c)
    BY DEF TypeOK, CallsOK
  <2>1. d \in Call /\ d.kind = c.kind /\ d.at = "no" /\ d.sess = c.sess
    BY <2>0, MovedCallTypes DEF Call
  <2>2. CallOK(d)
    BY <2>0, <2>1 DEF CallOK, Call
  <2> QED
    BY <1>1, <2>1, <2>2, ReplacedCalls, SameAuth DEF LoseCall
<1>2. CASE DeliverCall(c)
  BY <1>2, FewerCalls, SameAuth DEF DeliverCall
<1> QED
  BY <1>1, <1>2

LEMMA RevokeCalls ==
  ASSUME TypeOK, CallsOK, NEW s \in SessionIds, Revoke(s) PROVE CallsOK'
<1>1. CallsShape' /\ Answered' \subseteq Answered
  BY FewerCalls DEF Revoke
<1>2. \A x \in SessionIds : auth'[x].user = auth[x].user /\ auth'[x].gen = auth[x].gen
  BY DEF Revoke, TypeOK
<1> QED
  BY <1>1, <1>2, AnsweredKept DEF CallsOK

LEMMA NextCalls == TypeOK /\ CallsOK /\ Tokens /\ [Next]_vars => CallsOK'
<1> SUFFICES ASSUME TypeOK, CallsOK, Tokens, [Next]_vars PROVE CallsOK'
  OBVIOUS
<1> USE DEF Tokens
<1>1. ASSUME NEW f \in flights, ServeRefresh(f) \/ DeliverRefresh(f) \/ LoseRefresh(f)
      PROVE  CallsOK'
  BY <1>1, ServeRefreshCalls, DeliverRefreshCalls, LoseRefreshCalls
<1>2. ASSUME NEW t \in Tabs, Load(t) \/ Edit(t) \/ SignOut(t) \/ Age(t)
                             \/ \E u \in Users : SignIn(t, u)
      PROVE  CallsOK'
  <2>1. Age(t) => CallsOK'
    BY FewerCalls, SameAuth DEF Age
  <2> QED
    BY <1>2, <2>1, AddCalls
<1>3. ASSUME NEW c \in calls, ServeCall(c) \/ ServeSignIn(c) \/ ServeSignOut(c)
                              \/ LoseCall(c) \/ DeliverCall(c)
      PROVE  CallsOK'
  BY <1>3, ServeCallCalls, EndCalls
<1>4. CASE UNCHANGED vars
  BY <1>4, FewerCalls, SameAuth DEF vars
<1> QED
  BY <1>1, <1>2, <1>3, <1>4, RevokeCalls DEF Next
-----------------------------------------------------------------------------
(* Tokens.                                                                 *)

LEMMA InitTokens == Init => Tokens
<1> SUFFICES ASSUME Init PROVE Tokens
  OBVIOUS
<1>1. Known = {cookie} /\ Answered = {}
  BY DEF Init, Known, Pending, Answered
<1>2. Issued
  <2> SUFFICES ASSUME cookie # None PROVE cookie.gen <= auth[cookie.sess].gen
    BY <1>1 DEF Issued
  <2> QED
    BY Constants DEF Init, NewSession, SessionIds
<1>3. ~(JustSpent(cookie) /\ spender[cookie.sess] \in Tabs)
  BY Constants DEF Init, NewSession, JustSpent, SessionIds
<1> QED
  BY <1>1, <1>2, <1>3 DEF Tokens, OneFlight, Brings, Unknown, SpentByOther, Init

LEMMA KnownTypes ==
  ASSUME TypeOK
  PROVE  /\ Known \subseteq Token \cup {None}
         /\ \A t \in Token : t.sess \in SessionIds /\ t.gen \in Nat
         /\ \A s \in SessionIds : auth[s].gen \in Nat
         /\ \A f \in flights : f.tab \in Tabs /\ f.tok \in Token \cup {None}
BY DEF TypeOK, Known, Pending, Flight, Call, Token

\* A flight after a step of StartRefresh or Load, or one served without a token.
NewOrSame(f, flightsNext) ==
  \/ f \in flights
  \/ /\ f.at = "sent" /\ f.tok = cookie /\ f.tab \in Tabs
     /\ \A g \in flights : g.tab = f.tab => g \notin flightsNext
  \/ /\ f.at = "no"
     /\ \E g \in flights : g.tab = f.tab /\ g.tok = f.tok /\ g \notin flightsNext

\* A step in which no token is spent and nobody is told a new one.
LEMMA TokensKept ==
  ASSUME TypeOK, Tokens,
         \A s \in SessionIds : auth'[s].gen = auth[s].gen,
         \A s \in SessionIds : spender'[s] \in {spender[s], "lost"},
         cookie' \in {cookie, None},
         \A f \in flights' : NewOrSame(f, flights'),
         \A f \in flights :
           f.at = "ok" => f \in flights' \/ spender'[f.tok.sess] = "lost",
         OneFlight', Known' \subseteq Known \cup {None}, Answered' \subseteq Answered
  PROVE  Tokens'
<1> USE DEF Tokens
<1>1. /\ Known \subseteq Token \cup {None}
      /\ \A t \in Token : t.sess \in SessionIds
      /\ \A f \in flights : f.tok \in Token \cup {None}
  BY KnownTypes
<1>2. \A f \in flights' : f.at = "ok" => f \in flights
  BY DEF NewOrSame
<1>3. Issued'
  <2> SUFFICES ASSUME NEW t \in Known', t # None PROVE t.gen <= auth'[t.sess].gen
    BY DEF Issued
  <2>1. t \in Known /\ t.sess \in SessionIds
    BY <1>1
  <2> QED
    BY <2>1 DEF Issued
<1>4. Brings'
  <2>1. \A f \in flights' : f.at = "ok" =>
          f.tok \in Token /\ auth'[f.tok.sess].gen = f.tok.gen + 1
    BY <1>1, <1>2 DEF Brings
  <2>2. \A f, g \in flights' :
          (f.at = "ok" /\ g.at = "ok" /\ g.tok.sess = f.tok.sess) => g = f
    BY <1>2 DEF Brings
  <2> QED
    BY <2>1, <2>2 DEF Brings
<1>5. Unknown'
  BY <1>2 DEF Unknown
<1>6. \A t \in Token : JustSpent(t)' => JustSpent(t)
  BY <1>1 DEF JustSpent
<1>7. cookie \in Token \cup {None}
  BY DEF TypeOK
<1>8. JustSpent(cookie)' /\ spender'[cookie'.sess] \in Tabs =>
       \E f \in flights' : /\ f.tab = spender'[cookie'.sess]
                           /\ f.at = "ok" /\ f.tok = cookie'
  <2> SUFFICES ASSUME JustSpent(cookie)', spender'[cookie'.sess] \in Tabs
      PROVE  \E f \in flights' : /\ f.tab = spender'[cookie'.sess]
                                 /\ f.at = "ok" /\ f.tok = cookie'
    OBVIOUS
  <2>1. cookie' = cookie /\ cookie \in Token /\ JustSpent(cookie)
    BY <1>1, <1>7 DEF JustSpent
  <2>2. spender'[cookie.sess] = spender[cookie.sess] /\ spender[cookie.sess] \in Tabs
    BY <1>1, <2>1, Constants
  <2>3. PICK f \in flights : f.tab = spender[cookie.sess] /\ f.at = "ok" /\ f.tok = cookie
    BY <2>1, <2>2 DEF SpentByOther
  <2>4. f \in flights'
    BY <2>2, <2>3, Constants
  <2> QED
    BY <2>1, <2>2, <2>3, <2>4
<1>9. ASSUME NEW f \in flights', f.at = "sent", JustSpent(f.tok)'
      PROVE  spender'[f.tok.sess] # f.tab
  <2> SUFFICES ASSUME spender'[f.tok.sess] = f.tab PROVE FALSE
    OBVIOUS
  <2>1. CASE f \in flights
    <3>1. f.tok \in Token /\ f.tab \in Tabs /\ JustSpent(f.tok)
      BY <1>1, <1>9, <2>1, KnownTypes DEF JustSpent
    <3>2. spender[f.tok.sess] = f.tab
      BY <1>1, <3>1, Constants
    <3> QED
      BY <1>9, <2>1, <3>1, <3>2 DEF SpentByOther
  <2>2. CASE f.tok = cookie /\ f.tab \in Tabs
             /\ \A g \in flights : g.tab = f.tab => g \notin flights'
    <3>1. cookie \in Token /\ JustSpent(cookie)
      BY <1>1, <1>7, <1>9, <2>2 DEF JustSpent
    <3>2. spender[cookie.sess] = f.tab
      BY <1>1, <2>2, <3>1, Constants
    <3>3. PICK g \in flights : g.tab = f.tab /\ g.at = "ok" /\ g.tok = cookie
      BY <2>2, <3>1, <3>2 DEF SpentByOther
    <3>4. spender'[cookie.sess] = "lost"
      BY <2>2, <3>3
    <3> QED
      BY <2>2, <3>4, Constants
  <2> QED
    BY <1>9, <2>1, <2>2 DEF NewOrSame
<1>10. SpentByOther'
  BY <1>8, <1>9 DEF SpentByOther
<1> QED
  BY <1>3, <1>4, <1>5, <1>10

\* The calls bring the browser no token: no sign-in is answered, and the
\* sign-outs carry tokens it has.
NoNews ==
  /\ Answered' \subseteq Answered
  /\ \A c \in Pending("signout")' : c.tok \in Known

LEMMA NoNewsFewer ==
  ASSUME calls' \subseteq calls PROVE NoNews
BY DEF NoNews, Answered, Pending, Known

LEMMA NoNewsReplaced ==
  ASSUME NEW c \in calls, NEW d, d.kind = c.kind, d.tok = c.tok,
         d.kind = "signin" => d.at # "ok", Replace(c, d)
  PROVE  NoNews
BY DEF NoNews, Answered, Pending, Known, Replace

LEMMA NoNewsAdded ==
  ASSUME NEW d, d.kind = "signin" => d.at # "ok", d.kind = "signout" => d.tok \in Known,
         calls' \subseteq calls \cup {d}
  PROVE  NoNews
BY DEF NoNews, Answered, Pending, Known

LEMMA NoNewsUnauthorized ==
  ASSUME TypeOK, NEW c \in calls, Unauthorized(c) PROVE NoNews
<1>1. c \in Call
  BY DEF TypeOK
<1>2. \A at \in {"no", "again"} : /\ [c EXCEPT !.at = at].kind = c.kind
                                  /\ [c EXCEPT !.at = at].tok = c.tok
                                  /\ [c EXCEPT !.at = at].at = at
  BY <1>1 DEF Call
<1>3. CASE c.retry \/ c.kind = "signout"
  BY <1>2, <1>3, NoNewsReplaced DEF Unauthorized
<1>4. CASE ~(c.retry \/ c.kind = "signout")
  BY <1>2, <1>4, NoNewsReplaced DEF Unauthorized
<1> QED
  BY <1>3, <1>4

LEMMA NoNewsAwaiting ==
  ASSUME TypeOK, CallsOK, NEW t \in Tabs, NEW s \in SessionIds \cup {None},
         \A d \in calls' : \/ d \in calls
                           \/ \E c \in Awaiting(t) : d \in {Resumed(c, s), [c EXCEPT !.at = "no"]}
  PROVE  NoNews
<1>1. \A c \in Awaiting(t) : c \in Call /\ CallOK(c) /\ c.at \in {"token", "again"}
  BY DEF Awaiting, Calls, CallsOK, TypeOK
<1>2. \A c \in Awaiting(t) : /\ [c EXCEPT !.at = "no"].at = "no"
                             /\ [c EXCEPT !.at = "no"].kind # "signout"
  BY <1>1 DEF Call, CallOK
<1>3. \A c \in Awaiting(t) : Resumed(c, s).at # "ok" /\ Resumed(c, s).kind # "signout"
  BY <1>1, ResumedCall
<1>4. \A d \in calls' : d \in calls \/ (d.at # "ok" /\ d.kind # "signout")
  <2> TAKE d \in calls'
  <2>1. CASE d \in calls
    BY <2>1
  <2>2. ASSUME NEW c \in Awaiting(t), d \in {Resumed(c, s), [c EXCEPT !.at = "no"]}
        PROVE  d.at # "ok" /\ d.kind # "signout"
    <3>1. CASE d = Resumed(c, s)
      BY <1>3, <3>1
    <3>2. CASE d = [c EXCEPT !.at = "no"]
      BY <1>2, <3>2
    <3> QED
      BY <2>2, <3>1, <3>2
  <2> QED
    BY <2>1, <2>2
<1> QED
  BY <1>4 DEF NoNews, Answered, Pending, Known

\* A step that leaves the sessions and at most sends one more refresh.
LEMMA TokensOfCalls ==
  ASSUME TypeOK, Tokens, NoNews,
         \A s \in SessionIds : auth'[s].gen = auth[s].gen,
         spender' = spender, cookie' \in {cookie, None},
         \/ flights' = flights
         \/ \E t \in Tabs : Flights(t) = {} /\ flights' = flights \cup {NewFlight(t)}
  PROVE  Tokens'
<1>1. \A f \in flights' : NewOrSame(f, flights')
  BY DEF NewOrSame, NewFlight, Flights
<1>2. OneFlight'
  BY DEF OneFlight, NewFlight, Flights, Tokens
<1>3. Known' \subseteq Known \cup {None}
  <2>1. \A f \in flights' : f.tok \in Known
    BY DEF Known, NewFlight
  <2>2. cookie' \in Known \cup {None}
    BY DEF Known
  <2> QED
    BY <2>1, <2>2 DEF Known, NoNews
<1> QED
  BY <1>1, <1>2, <1>3, TokensKept DEF NoNews

LEMMA SameToken ==
  ASSUME NEW t \in Token, NEW u \in Token, t.sess = u.sess, t.gen = u.gen PROVE t = u
BY DEF Token

\* A token that can be used: no answer under way brings its session's next one.
LEMMA UsableIsLast ==
  ASSUME TypeOK, Tokens, NEW t \in Known, Usable(t)
  PROVE  /\ t \in Token /\ t.sess \in SessionIds /\ t.gen \in Nat
         /\ auth[t.sess].gen = t.gen
         /\ \A f \in flights : f.at = "ok" => f.tok.sess # t.sess
<1>1. t \in Token /\ t.sess \in SessionIds /\ t.gen \in Nat /\ auth[t.sess].gen = t.gen
  BY KnownTypes DEF Usable
<1>2. ASSUME NEW f \in flights, f.at = "ok", f.tok.sess = t.sess PROVE FALSE
  <2>1. t.gen <= f.tok.gen
    BY <1>1, <1>2, Constants DEF Tokens, Unknown
  <2>2. f.tok \in Token /\ auth[t.sess].gen = f.tok.gen + 1
    BY <1>2 DEF Tokens, Brings
  <2> QED
    BY <1>1, <2>1, <2>2, KnownTypes
<1> QED
  BY <1>1, <1>2

\* The server takes the token of a refresh.
LEMMA ServedTokens ==
  ASSUME TypeOK, CallsOK, Tokens, NEW f \in flights, f.at = "sent", Usable(f.tok),
         auth' = [auth EXCEPT ![f.tok.sess].gen = @ + 1],
         spender' = [spender EXCEPT ![f.tok.sess] = f.tab],
         flights' = (flights \ {f}) \cup {[f EXCEPT !.at = "ok"]},
         cookie' = cookie, calls' = calls
  PROVE  Tokens'
<1> USE DEF Tokens
<1> DEFINE s == f.tok.sess
           h == [f EXCEPT !.at = "ok"]
<1>1. /\ f.tok \in Token /\ s \in SessionIds /\ f.tok.gen \in Nat
      /\ auth[s].gen = f.tok.gen
      /\ \A e \in flights : e.at = "ok" => e.tok.sess # s
  BY UsableIsLast DEF Known
<1>2. /\ h.tab = f.tab /\ h.at = "ok" /\ h.tok = f.tok
      /\ h \in flights' /\ \A e \in flights' : e = h \/ (e \in flights /\ e # f)
  BY DEF TypeOK, Flight
<1>3. /\ auth'[s].gen = auth[s].gen + 1 /\ spender'[s] = f.tab
      /\ \A r \in SessionIds \ {s} : auth'[r] = auth[r] /\ spender'[r] = spender[r]
  BY <1>1 DEF TypeOK
<1>4. Known' = Known /\ Answered' = Answered
  BY <1>2 DEF Known, Answered, Pending
<1>5. /\ Known \subseteq Token \cup {None}
      /\ \A t \in Token : t.sess \in SessionIds /\ t.gen \in Nat
      /\ \A e \in flights : e.tok \in Known /\ e.tab \in Tabs
      /\ cookie \in Known
  BY KnownTypes DEF Known
<1> HIDE DEF h
<1>6. OneFlight'
  <2> SUFFICES ASSUME NEW e \in flights', NEW g \in flights', e.tab = g.tab PROVE e = g
    BY DEF OneFlight
  <2> QED
    BY <1>2 DEF OneFlight
<1>7. ASSUME NEW t \in Known, t # None
      PROVE  /\ t.gen <= auth'[t.sess].gen
             /\ t.sess = s => t.gen <= f.tok.gen
  <2>1. t \in Token /\ t.gen <= auth[t.sess].gen
    BY <1>5, <1>7 DEF Issued
  <2>2. CASE t.sess = s
    BY <1>1, <1>3, <1>5, <2>1, <2>2
  <2>3. CASE t.sess # s
    BY <1>3, <1>5, <2>1, <2>3
  <2> QED
    BY <2>2, <2>3
<1>8. Issued'
  BY <1>4, <1>7 DEF Issued
<1>9. ASSUME NEW e \in flights', e.at = "ok"
      PROVE  \/ e = h
             \/ e \in flights /\ e.tok \in Token /\ e.tok.sess \in SessionIds \ {s}
  BY <1>1, <1>2, <1>5, <1>9 DEF Brings
<1>10. Brings'
  <2>1. \A e \in flights' : e.at = "ok" =>
          e.tok \in Token /\ auth'[e.tok.sess].gen = e.tok.gen + 1
    <3> SUFFICES ASSUME NEW e \in flights', e.at = "ok"
        PROVE  e.tok \in Token /\ auth'[e.tok.sess].gen = e.tok.gen + 1
      OBVIOUS
    <3>1. CASE e = h
      BY <1>1, <1>2, <1>3, <3>1
    <3>2. CASE e # h
      BY <1>3, <1>9, <3>2 DEF Brings
    <3> QED
      BY <3>1, <3>2
  <2>2. \A e, g \in flights' :
          (e.at = "ok" /\ g.at = "ok" /\ g.tok.sess = e.tok.sess) => g = e
    <3> SUFFICES ASSUME NEW e \in flights', NEW g \in flights', e.at = "ok", g.at = "ok",
                        g.tok.sess = e.tok.sess
        PROVE  g = e
      OBVIOUS
    <3>1. CASE e = h \/ g = h
      BY <1>2, <1>9, <3>1
    <3>2. CASE e # h /\ g # h
      BY <1>9, <3>2 DEF Brings
    <3> QED
      BY <3>1, <3>2
  <2> QED
    BY <2>1, <2>2 DEF Brings
<1>11. Unknown'
  BY <1>2, <1>4, <1>7, <1>9 DEF Unknown
<1>12. JustSpent(cookie)' /\ spender'[cookie'.sess] \in Tabs =>
        \E e \in flights' : /\ e.tab = spender'[cookie'.sess]
                            /\ e.at = "ok" /\ e.tok = cookie'
  <2> SUFFICES ASSUME JustSpent(cookie)', spender'[cookie.sess] \in Tabs
      PROVE  \E e \in flights' : /\ e.tab = spender'[cookie.sess]
                                 /\ e.at = "ok" /\ e.tok = cookie
    OBVIOUS
  <2>1. cookie \in Token /\ auth'[cookie.sess].gen = cookie.gen + 1
    BY <1>5 DEF JustSpent
  <2>2. CASE cookie.sess = s
    <3>1. cookie.gen = f.tok.gen
      BY <1>1, <1>3, <1>5, <2>1, <2>2
    <3>2. cookie = h.tok
      BY <1>1, <1>2, <2>1, <2>2, <3>1, SameToken
    <3> QED
      BY <1>2, <1>3, <2>2, <3>2
  <2>3. CASE cookie.sess # s
    <3>1. JustSpent(cookie) /\ spender[cookie.sess] = spender'[cookie.sess]
      BY <1>3, <1>5, <2>1, <2>3, Constants DEF JustSpent
    <3>2. PICK e \in flights : e.tab = spender[cookie.sess] /\ e.at = "ok" /\ e.tok = cookie
      BY <3>1 DEF SpentByOther
    <3> QED
      BY <3>1, <3>2
  <2> QED
    BY <2>2, <2>3
<1>13. ASSUME NEW e \in flights', e.at = "sent", JustSpent(e.tok)'
       PROVE  spender'[e.tok.sess] # e.tab
  <2>1. e \in flights /\ e # f /\ e.tok \in Token
    BY <1>2, <1>5, <1>13 DEF JustSpent
  <2>2. CASE e.tok.sess = s
    BY <1>3, <2>1, <2>2 DEF OneFlight
  <2>3. CASE e.tok.sess # s
    <3>1. JustSpent(e.tok) /\ spender'[e.tok.sess] = spender[e.tok.sess]
      BY <1>3, <1>5, <1>13, <2>1, <2>3 DEF JustSpent
    <3> QED
      BY <1>13, <2>1, <3>1 DEF SpentByOther
  <2> QED
    BY <2>2, <2>3
<1> QED
  BY <1>6, <1>8, <1>10, <1>11, <1>12, <1>13 DEF SpentByOther

\* The browser is given a session's last token.
LEMMA NewCookie ==
  ASSUME TypeOK, Tokens, NoNews, NEW k \in Token, cookie' = k, auth' = auth,
         spender' = spender, flights' \subseteq flights, k.gen = auth[k.sess].gen,
         \A f \in flights' : f.at = "ok" => f.tok.sess # k.sess,
         \A c \in Answered' : c.sess # k.sess
  PROVE  Tokens'
<1> USE DEF Tokens
<1>1. Known' \subseteq Known \cup {k}
  BY DEF NoNews, Known
<1>2. k.gen \in Nat /\ auth[k.sess].gen # k.gen + 1
  BY KnownTypes
<1>3. OneFlight' /\ Brings'
  BY DEF OneFlight, Brings
<1>4. Issued'
  BY <1>1, <1>2 DEF Issued
<1>5. Unknown'
  BY <1>1 DEF Unknown, NoNews
<1>6. SpentByOther'
  BY <1>2 DEF SpentByOther, JustSpent
<1> QED
  BY <1>3, <1>4, <1>5, <1>6

\* The server spends the token of a sign-out.
LEMMA SignedOutTokens ==
  ASSUME TypeOK, Tokens, NoNews, NEW k \in Known, Usable(k),
         auth' = [auth EXCEPT ![k.sess].gen = @ + 1],
         spender' = [spender EXCEPT ![k.sess] = "out"],
         cookie' = cookie, flights' = flights
  PROVE  Tokens'
<1> USE DEF Tokens
<1> DEFINE s == k.sess
<1>1. /\ s \in SessionIds
      /\ \A f \in flights : f.at = "ok" => f.tok.sess # s
  BY UsableIsLast
<1>2. /\ auth'[s].gen = auth[s].gen + 1 /\ spender'[s] = "out"
      /\ \A r \in SessionIds \ {s} : auth'[r] = auth[r] /\ spender'[r] = spender[r]
  BY <1>1 DEF TypeOK
<1>3. Known' \subseteq Known
  BY DEF NoNews, Known
<1>4. /\ Known \subseteq Token \cup {None}
      /\ \A t \in Token : t.sess \in SessionIds /\ t.gen \in Nat
      /\ \A r \in SessionIds : auth[r].gen \in Nat
      /\ \A f \in flights : f.tok \in Known /\ f.tab \in Tabs
      /\ cookie \in Known
  BY KnownTypes DEF Known
<1>5. OneFlight' /\ Unknown'
  BY <1>3 DEF OneFlight, Unknown, NoNews
<1>6. Issued'
  <2> SUFFICES ASSUME NEW t \in Known, t # None PROVE t.gen <= auth'[t.sess].gen
    BY <1>3 DEF Issued
  <2>1. t \in Token /\ t.gen <= auth[t.sess].gen
    BY <1>4 DEF Issued
  <2> QED
    BY <1>2, <1>4, <2>1
<1>7. Brings'
  <2>1. \A f \in flights : f.at = "ok" =>
          f.tok \in Token /\ auth'[f.tok.sess].gen = f.tok.gen + 1
    BY <1>1, <1>2, <1>4 DEF Brings
  <2> QED
    BY <2>1 DEF Brings
<1>8. \A t \in Known : JustSpent(t)' =>
        \/ t.sess = s
        \/ JustSpent(t) /\ t.sess \in SessionIds \ {s}
  BY <1>2, <1>4 DEF JustSpent
<1>9. JustSpent(cookie)' /\ spender'[cookie'.sess] \in Tabs =>
        \E f \in flights' : /\ f.tab = spender'[cookie'.sess]
                            /\ f.at = "ok" /\ f.tok = cookie'
  <2> SUFFICES ASSUME JustSpent(cookie)', spender'[cookie.sess] \in Tabs
      PROVE  \E f \in flights : /\ f.tab = spender'[cookie.sess]
                                /\ f.at = "ok" /\ f.tok = cookie
    OBVIOUS
  <2>1. cookie.sess # s
    BY <1>2, Constants
  <2>2. JustSpent(cookie) /\ spender'[cookie.sess] = spender[cookie.sess]
    <3>1. JustSpent(cookie) /\ cookie.sess \in SessionIds \ {s}
      BY <1>4, <1>8, <2>1 DEF JustSpent
    <3> QED
      BY <1>2, <3>1
  <2> QED
    BY <2>2 DEF SpentByOther
<1>10. ASSUME NEW f \in flights', f.at = "sent", JustSpent(f.tok)'
       PROVE  spender'[f.tok.sess] # f.tab
  <2>1. f \in flights /\ f.tab \in Tabs /\ f.tok \in Known
    BY <1>4
  <2>2. CASE f.tok.sess = s
    BY <1>2, <2>1, <2>2, Constants
  <2>3. CASE f.tok.sess # s
    <3>1. JustSpent(f.tok) /\ f.tok.sess \in SessionIds \ {s}
      BY <1>8, <1>10, <2>1, <2>3
    <3> QED
      BY <1>2, <1>10, <2>1, <3>1 DEF SpentByOther
  <2> QED
    BY <2>2, <2>3
<1> QED
  BY <1>5, <1>6, <1>7, <1>9, <1>10 DEF SpentByOther

\* The server opens a session nobody has heard of.
LEMMA OpenedTokens ==
  ASSUME TypeOK, Tokens, NEW s \in SessionIds, auth[s] = NoSession, NEW u,
         auth' = [auth EXCEPT ![s] = NewSession(u)],
         \A c \in Answered' : c \in Answered \/ c.sess = s,
         \A c \in Pending("signout")' : c.tok \in Known,
         cookie' = cookie, flights' = flights, spender' = spender
  PROVE  Tokens'
<1> USE DEF Tokens
<1>1. Known' \subseteq Known
  BY DEF Known
<1>2. \A t \in Known : t # None => t \in Token /\ t.sess \in SessionIds \ {s}
  <2> SUFFICES ASSUME NEW t \in Known, t # None, t.sess = s PROVE FALSE
    BY KnownTypes
  <2>1. t \in Token /\ t.gen <= 0
    BY KnownTypes DEF Issued, NoSession
  <2> QED
    BY <2>1 DEF Token
<1>3. \A t \in Known : t # None => auth'[t.sess] = auth[t.sess]
  BY <1>2 DEF TypeOK
<1>4. cookie \in Known /\ \A f \in flights : f.tok \in Known
  BY DEF Known
<1>5. OneFlight'
  BY DEF OneFlight
<1>6. Issued'
  BY <1>1, <1>3 DEF Issued
<1>7. Brings'
  <2>1. \A f \in flights : f.at = "ok" =>
          f.tok \in Token /\ auth'[f.tok.sess].gen = f.tok.gen + 1
    BY <1>3, <1>4, Constants DEF Brings
  <2> QED
    BY <2>1 DEF Brings
<1>8. Unknown'
  BY <1>1, <1>2 DEF Unknown
<1>9. \A t \in Known : JustSpent(t)' => JustSpent(t)
  BY <1>3 DEF JustSpent
<1>10. SpentByOther'
  BY <1>4, <1>9 DEF SpentByOther
<1> QED
  BY <1>5, <1>6, <1>7, <1>8, <1>10

LEMMA ServeRefreshTokens ==
  ASSUME TypeOK, CallsOK, Tokens, NEW f \in flights, ServeRefresh(f) PROVE Tokens'
<1> DEFINE h == [f EXCEPT !.at = "no"]
<1>1. CASE flights' = (flights \ {f}) \cup {h} /\ UNCHANGED <<auth, spender>>
  <2>1. h.tab = f.tab /\ h.at = "no" /\ h.tok = f.tok /\ f.at = "sent"
    BY DEF TypeOK, Flight, ServeRefresh
  <2>2. \A e \in flights' : e = h \/ (e \in flights /\ e # f)
    BY <1>1
  <2>3. f \notin flights' /\ \A e \in flights : e # f => e \in flights'
    BY <1>1, <2>1
  <2> HIDE DEF h
  <2>4. \A e \in flights' : NewOrSame(e, flights')
    BY <2>1, <2>2, <2>3 DEF NewOrSame
  <2>5. OneFlight'
    <3> SUFFICES ASSUME NEW e \in flights', NEW g \in flights', e.tab = g.tab PROVE e = g
      BY DEF OneFlight
    <3> QED
      BY <2>1, <2>2 DEF OneFlight, Tokens
  <2>6. Known' \subseteq Known /\ Answered' \subseteq Answered
    <3>1. \A e \in flights' : e.tok \in Known
      BY <2>1, <2>2 DEF Known
    <3> QED
      BY <3>1 DEF Known, Pending, Answered, ServeRefresh
  <2> QED
    BY <1>1, <2>1, <2>3, <2>4, <2>5, <2>6, TokensKept DEF ServeRefresh
<1>2. CASE ~(flights' = (flights \ {f}) \cup {h} /\ UNCHANGED <<auth, spender>>)
  BY <1>2, ServedTokens DEF ServeRefresh
<1> QED
  BY <1>1, <1>2

LEMMA DeliverRefreshTokens ==
  ASSUME TypeOK, CallsOK, Tokens, NEW f \in flights, DeliverRefresh(f) PROVE Tokens'
<1> USE DEF Tokens
<1> DEFINE s == IF f.at = "ok" THEN f.tok.sess ELSE None
<1>1. s \in SessionIds \cup {None} /\ f.tab \in Tabs
  BY KnownTypes DEF Brings, Token
<1>2. NoNews
  <2>1. \A d \in calls' : \/ d \in calls
                         \/ \E c \in Awaiting(f.tab) : d = Resumed(c, s)
    BY DEF DeliverRefresh
  <2> QED
    BY <1>1, <2>1, NoNewsAwaiting
<1>3. flights' = flights \ {f} /\ auth' = auth /\ spender' = spender
  BY DEF DeliverRefresh
<1>4. CASE f.at = "ok"
  <2> DEFINE k == [f.tok EXCEPT !.gen = @ + 1]
  <2>1. /\ f.tok \in Token /\ f.tok \in Known /\ f.tok # None
        /\ auth[f.tok.sess].gen = f.tok.gen + 1 /\ f.tok.gen \in Nat
        /\ f.tok.gen + 1 \in 1..MaxGen
    <3>1. f.tok \in Token /\ f.tok \in Known /\ auth[f.tok.sess].gen = f.tok.gen + 1
      BY <1>4 DEF Brings, Known
    <3> QED
      BY <3>1, KnownTypes, Constants DEF TypeOK
  <2>2. k \in Token /\ k.sess = f.tok.sess /\ k.gen = auth[k.sess].gen
    BY <2>1 DEF Token
  <2>3. cookie' = k
    BY <1>4, <2>1, Constants DEF DeliverRefresh, Token
  <2>4. \A e \in flights' : e.at = "ok" => e.tok.sess # k.sess
    BY <1>3, <1>4, <2>2 DEF Brings
  <2>5. \A c \in Answered' : c.sess # k.sess
    BY <1>2, <2>1, <2>2 DEF NoNews, Unknown
  <2> HIDE DEF k
  <2> QED
    BY <1>2, <1>3, <2>2, <2>3, <2>4, <2>5, NewCookie
<1>5. CASE f.at # "ok"
  <2>1. cookie' = cookie
    BY <1>5 DEF DeliverRefresh
  <2>2. \A e \in flights' : NewOrSame(e, flights')
    BY <1>3 DEF NewOrSame
  <2>3. OneFlight'
    BY <1>3 DEF OneFlight
  <2>4. Known' \subseteq Known
    BY <1>2, <1>3, <2>1 DEF Known, NoNews
  <2> QED
    BY <1>2, <1>3, <1>5, <2>1, <2>2, <2>3, <2>4, TokensKept DEF NoNews
<1> QED
  BY <1>4, <1>5

LEMMA LoseRefreshTokens ==
  ASSUME TypeOK, CallsOK, Tokens, NEW f \in flights, LoseRefresh(f) PROVE Tokens'
<1> USE DEF Tokens
<1>1. NoNews
  <2>1. \A d \in calls' : \/ d \in calls
                         \/ \E c \in Awaiting(f.tab) : d = [c EXCEPT !.at = "no"]
    BY DEF LoseRefresh
  <2> QED
    BY <2>1, NoNewsAwaiting, KnownTypes
<1>2. flights' = flights \ {f} /\ auth' = auth /\ cookie' = cookie
  BY DEF LoseRefresh
<1>3. /\ \A s \in SessionIds : spender'[s] \in {spender[s], "lost"}
      /\ f.at = "ok" => spender'[f.tok.sess] = "lost"
  BY DEF LoseRefresh, TypeOK, Brings, Token
<1>4. \A e \in flights' : NewOrSame(e, flights')
  BY <1>2 DEF NewOrSame
<1>5. OneFlight'
  BY <1>2 DEF OneFlight
<1>6. Known' \subseteq Known
  BY <1>1, <1>2 DEF Known, NoNews
<1> QED
  BY <1>1, <1>2, <1>3, <1>4, <1>5, <1>6, TokensKept DEF NoNews

LEMMA LoadTokens ==
  ASSUME TypeOK, CallsOK, Tokens, NEW t \in Tabs, Load(t) PROVE Tokens'
<1> USE DEF Tokens
<1>1. NoNews
  <2> DEFINE d == NewCall(t, "boot", "token")
  <2>1. d.kind = "boot" /\ calls' \subseteq calls \cup {d}
    BY DEF NewCall, Load
  <2> QED
    BY <2>1, NoNewsAdded
<1>2. /\ flights' = (flights \ Flights(t)) \cup {NewFlight(t)}
      /\ auth' = auth /\ cookie' = cookie
  BY DEF Load, NewFlight
<1>3. /\ NewFlight(t).tab = t /\ NewFlight(t).at = "sent" /\ NewFlight(t).tok = cookie
  BY DEF NewFlight
<1>4. /\ \A s \in SessionIds : spender'[s] \in {spender[s], "lost"}
      /\ \A f \in flights : (f.at = "ok" /\ f.tab = t) => spender'[f.tok.sess] = "lost"
  BY DEF Load, Flights, Brings, Token
<1>5. CASE NewFlight(t) \notin flights
  <2>1. \A e \in flights' : NewOrSame(e, flights')
    BY <1>2, <1>3, <1>5 DEF NewOrSame, Flights
  <2>2. \A f \in flights : f.at = "ok" => f \in flights' \/ spender'[f.tok.sess] = "lost"
    BY <1>2, <1>4 DEF Flights
  <2>3. OneFlight'
    BY <1>2, <1>3 DEF OneFlight, Flights
  <2>4. Known' \subseteq Known
    <3>1. \A e \in flights' : e.tok \in Known
      BY <1>2, <1>3 DEF Known
    <3> QED
      BY <1>1, <1>2, <3>1 DEF Known, NoNews
  <2> QED
    BY <1>1, <1>2, <1>4, <2>1, <2>2, <2>3, <2>4, TokensKept DEF NoNews
<1>6. CASE NewFlight(t) \in flights
  <2>1. flights' = flights
    BY <1>2, <1>3, <1>6 DEF OneFlight, Flights
  <2>2. \A e \in flights' : NewOrSame(e, flights')
    BY <2>1 DEF NewOrSame
  <2>3. OneFlight' /\ Known' \subseteq Known
    BY <1>1, <1>2, <2>1 DEF OneFlight, Known, NoNews
  <2> QED
    BY <1>1, <1>2, <1>4, <2>1, <2>2, <2>3, TokensKept DEF NoNews
<1> QED
  BY <1>5, <1>6

LEMMA PageTokens ==
  ASSUME TypeOK, CallsOK, Tokens, NEW t \in Tabs,
         Edit(t) \/ SignOut(t) \/ Age(t) \/ \E u \in Users : SignIn(t, u)
  PROVE  Tokens'
<1>1. CASE Edit(t)
  <2> DEFINE a == [NewCall(t, "edit", "sent") EXCEPT !.sess = mem[t].sess]
             b == NewCall(t, "edit", "token")
  <2>1. a.kind = "edit" /\ b.kind = "edit"
    BY DEF NewCall
  <2>2. auth' = auth /\ spender' = spender /\ cookie' = cookie
    BY <1>1 DEF Edit
  <2>3. CASE mem[t] # None /\ ~mem[t].old
    <3>1. NoNews
      BY <1>1, <2>1, <2>3, NoNewsAdded DEF Edit
    <3> QED
      BY <1>1, <2>2, <2>3, <3>1, TokensOfCalls DEF Edit
  <2>4. CASE ~(mem[t] # None /\ ~mem[t].old)
    <3>1. NoNews
      BY <1>1, <2>1, <2>4, NoNewsAdded DEF Edit
    <3>2. \/ flights' = flights
          \/ Flights(t) = {} /\ flights' = flights \cup {NewFlight(t)}
      BY <1>1, <2>4, FlightStarts DEF Edit
    <3> QED
      BY <2>2, <3>1, <3>2, TokensOfCalls
  <2> QED
    BY <2>3, <2>4
<1>2. CASE SignOut(t)
  <2> DEFINE a == [NewCall(t, "signout", "sent") EXCEPT !.tok = cookie]
  <2>1. a.kind = "signout" /\ a.tok = cookie /\ cookie \in Known
    BY DEF NewCall, Known
  <2>2. NoNews
    BY <1>2, <2>1, NoNewsAdded DEF SignOut, Announced
  <2> QED
    BY <1>2, <2>2, TokensOfCalls DEF SignOut
<1>3. CASE Age(t)
  BY <1>3, NoNewsFewer, TokensOfCalls DEF Age
<1>4. ASSUME NEW u \in Users, SignIn(t, u) PROVE Tokens'
  <2> DEFINE a == [NewCall(t, "signin", "sent") EXCEPT !.user = u]
  <2>1. a.kind = "signin" /\ a.at = "sent"
    BY DEF NewCall
  <2>2. NoNews
    BY <1>4, <2>1, NoNewsAdded DEF SignIn
  <2> QED
    BY <1>4, <2>2, TokensOfCalls DEF SignIn
<1> QED
  BY <1>1, <1>2, <1>3, <1>4

LEMMA UnauthorizedTokens ==
  ASSUME TypeOK, Tokens, NEW c \in calls, Unauthorized(c), auth' = auth,
         spender' = spender, cookie' = cookie
  PROVE  Tokens'
<1>1. c.tab \in Tabs
  BY DEF TypeOK, Call
<1>2. \/ flights' = flights
      \/ Flights(c.tab) = {} /\ flights' = flights \cup {NewFlight(c.tab)}
  BY <1>1, FlightStarts DEF Unauthorized
<1> QED
  BY <1>1, <1>2, NoNewsUnauthorized, TokensOfCalls

LEMMA ServeCallTokens ==
  ASSUME TypeOK, CallsOK, Tokens, NEW c \in calls,
         ServeCall(c) \/ ServeSignIn(c) \/ ServeSignOut(c)
  PROVE  Tokens'
<1> DEFINE d == [c EXCEPT !.at = "ok"]
<1>1. d.kind = c.kind /\ d.tok = c.tok
  BY DEF TypeOK, Call
<1>2. CASE ServeCall(c)
  <2>1. CASE c.sess # None /\ auth[c.sess].live
    <3>1. NoNews
      BY <1>1, <1>2, <2>1, NoNewsReplaced DEF ServeCall
    <3> QED
      BY <1>2, <2>1, <3>1, TokensOfCalls DEF ServeCall
  <2>2. CASE ~(c.sess # None /\ auth[c.sess].live)
    BY <1>2, <2>2, UnauthorizedTokens DEF ServeCall
  <2> QED
    BY <2>1, <2>2
<1>3. CASE ServeSignIn(c)
  <2>1. CASE Fault /\ Unauthorized(c) /\ UNCHANGED auth
    BY <1>3, <2>1, UnauthorizedTokens DEF ServeSignIn
  <2>2. ASSUME NEW s \in SessionIds, auth[s] = NoSession,
               auth' = [auth EXCEPT ![s] = NewSession(c.user)],
               Replace(c, [c EXCEPT !.at = "ok", !.sess = s]),
               UNCHANGED <<flights, left, out>>
        PROVE  Tokens'
    <3> DEFINE e == [c EXCEPT !.at = "ok", !.sess = s]
    <3>1. e.kind = "signin" /\ e.sess = s
      BY <1>3 DEF TypeOK, Call, ServeSignIn
    <3>2. \A x \in calls' : x \in calls \/ x = e
      BY <2>2 DEF Replace
    <3>3. /\ \A x \in Answered' : x \in Answered \/ x.sess = s
          /\ \A x \in Pending("signout")' : x.tok \in Known
      BY <3>1, <3>2 DEF Answered, Pending, Known
    <3> QED
      BY <1>3, <2>2, <3>3, OpenedTokens DEF ServeSignIn
  <2> QED
    BY <1>3, <2>1, <2>2 DEF ServeSignIn
<1>4. CASE ServeSignOut(c)
  <2>1. NoNews
    BY <1>1, <1>4, NoNewsReplaced DEF ServeSignOut
  <2>2. c.tok \in Known
    BY <1>4 DEF Known, Pending, ServeSignOut
  <2>3. CASE Usable(c.tok) /\ c.tok.gen < MaxGen
    BY <1>4, <2>1, <2>2, <2>3, SignedOutTokens DEF ServeSignOut
  <2>4. CASE ~(Usable(c.tok) /\ c.tok.gen < MaxGen)
    BY <1>4, <2>1, <2>4, TokensOfCalls DEF ServeSignOut
  <2> QED
    BY <2>3, <2>4
<1> QED
  BY <1>2, <1>3, <1>4

LEMMA EndCallTokens ==
  ASSUME TypeOK, CallsOK, Tokens, NEW c \in calls, LoseCall(c) \/ DeliverCall(c)
  PROVE  Tokens'
<1>1. CASE LoseCall(c)
  <2> DEFINE d == [c EXCEPT !.at = "no"]
  <2>1. d.kind = c.kind /\ d.tok = c.tok /\ d.at = "no"
    BY DEF TypeOK, Call
  <2>2. NoNews
    BY <1>1, <2>1, NoNewsReplaced DEF LoseCall
  <2> QED
    BY <1>1, <2>2, TokensOfCalls DEF LoseCall
<1>2. CASE DeliverCall(c)
  <2>1. NoNews
    BY <1>2, NoNewsFewer DEF DeliverCall
  <2>2. CASE cookie' \in {cookie, None}
    BY <1>2, <2>1, <2>2, TokensOfCalls DEF DeliverCall
  <2>3. CASE cookie' \notin {cookie, None}
    <3> DEFINE k == [sess |-> c.sess, gen |-> 1]
    <3>1. SignedIn(c) /\ c.at = "ok" /\ cookie' = k
      BY <1>2, <2>3 DEF DeliverCall, Booted, Edited, SignedIn, SignedOut
    <3>2. c \in Answered /\ c.sess \in SessionIds /\ auth[c.sess].gen = 1
      BY <3>1 DEF SignedIn, Answered, CallsOK
    <3>3. k \in Token /\ k.sess = c.sess /\ k.gen = auth[k.sess].gen
      BY <3>2, Constants DEF Token
    <3>4. \A f \in flights : f.at = "ok" => f.tok.sess # k.sess
      <4>1. \A f \in flights : f.at = "ok" => f.tok \in Known /\ f.tok # None
        BY Constants DEF Tokens, Brings, Known
      <4> QED
        BY <3>2, <3>3, <4>1 DEF Tokens, Unknown
    <3>5. Answered' = {}
      BY <1>2, <3>1 DEF Answered, DeliverCall, CallsOK, Pending, SignedIn
    <3> HIDE DEF k
    <3> QED
      BY <1>2, <2>1, <3>1, <3>3, <3>4, <3>5, NewCookie DEF DeliverCall
  <2> QED
    BY <2>2, <2>3
<1> QED
  BY <1>1, <1>2

LEMMA RevokeTokens ==
  ASSUME TypeOK, Tokens, NEW s \in SessionIds, Revoke(s) PROVE Tokens'
<1>1. \A x \in SessionIds : auth'[x].gen = auth[x].gen
  BY DEF Revoke, TypeOK
<1> QED
  BY <1>1, NoNewsFewer, TokensOfCalls DEF Revoke

LEMMA NextTokens == TypeOK /\ CallsOK /\ Tokens /\ [Next]_vars => Tokens'
<1> SUFFICES ASSUME TypeOK, CallsOK, Tokens, [Next]_vars PROVE Tokens'
  OBVIOUS
<1>1. ASSUME NEW f \in flights, ServeRefresh(f) \/ DeliverRefresh(f) \/ LoseRefresh(f)
      PROVE  Tokens'
  BY <1>1, ServeRefreshTokens, DeliverRefreshTokens, LoseRefreshTokens
<1>2. ASSUME NEW t \in Tabs, Load(t) \/ Edit(t) \/ SignOut(t) \/ Age(t)
                             \/ \E u \in Users : SignIn(t, u)
      PROVE  Tokens'
  BY <1>2, LoadTokens, PageTokens
<1>3. ASSUME NEW c \in calls, ServeCall(c) \/ ServeSignIn(c) \/ ServeSignOut(c)
                              \/ LoseCall(c) \/ DeliverCall(c)
      PROVE  Tokens'
  BY <1>3, ServeCallTokens, EndCallTokens
<1>4. CASE UNCHANGED vars
  BY <1>4, NoNewsFewer, TokensOfCalls DEF vars
<1> QED
  BY <1>1, <1>2, <1>3, <1>4, RevokeTokens DEF Next
-----------------------------------------------------------------------------
(* The one session of the browser.                                         *)

LEMMA InitOneSession == Init => OneSession
<1> SUFFICES ASSUME Init PROVE OneSession
  OBVIOUS
<1>1. 1 \in SessionIds
  BY Constants DEF SessionIds
<1>2. OnlySession(1)
  BY DEF Init, OnlySession, Nobody
<1> QED
  BY <1>1, <1>2 DEF OneSession

\* The parts a step may disturb.
OnlyTokens(s) ==
  /\ cookie # None => cookie.sess = s
  /\ \A f \in flights : f.tok # None => f.tok.sess = s

OnlyShown(s) ==
  /\ \A t \in Tabs : mem[t] # None => mem[t].sess = s
  /\ \A t \in Tabs : ui[t].who # None => ui[t].who = auth[s].user

OnlyCalls(s) == \A c \in calls : (c.kind = "viewer" /\ c.sess # None) => c.sess = s

LEMMA OnlyParts ==
  /\ \A s : OnlySession(s) <=> OnlyTokens(s) /\ OnlyShown(s) /\ OnlyCalls(s)
  /\ \A s : OnlySession(s)' <=> OnlyTokens(s)' /\ OnlyShown(s)' /\ OnlyCalls(s)'
BY DEF OnlySession, OnlyTokens, OnlyShown, OnlyCalls

LEMMA OnlyTokensStart ==
  ASSUME NEW s \in SessionIds, OnlyTokens(s), cookie' = cookie,
         \/ flights' = flights
         \/ \E t \in Tabs : flights' = flights \cup {NewFlight(t)}
  PROVE  OnlyTokens(s)'
BY DEF OnlyTokens, NewFlight

LEMMA ServeRefreshOnly ==
  ASSUME TypeOK, CallsOK, Tokens, NEW s \in SessionIds, OnlySession(s),
         NEW f \in flights, ServeRefresh(f)
  PROVE  OnlySession(s)'
<1>1. OnlyTokens(s)'
  <2>1. \A at \in {"ok", "no"} : [f EXCEPT !.at = at].tok = f.tok
    BY DEF TypeOK, Flight
  <2>2. \A e \in flights' : \E g \in flights : e.tok = g.tok
    BY <2>1 DEF ServeRefresh
  <2> QED
    BY <2>2, OnlyParts DEF OnlyTokens, ServeRefresh
<1>2. auth'[s].user = auth[s].user
  BY DEF ServeRefresh, TypeOK
<1>3. OnlyShown(s)' /\ OnlyCalls(s)'
  BY <1>2, OnlyParts DEF OnlyShown, OnlyCalls, ServeRefresh
<1> QED
  BY <1>1, <1>3, OnlyParts

LEMMA DeliverRefreshOnly ==
  ASSUME TypeOK, CallsOK, Tokens, NEW s \in SessionIds, OnlySession(s),
         NEW f \in flights, DeliverRefresh(f)
  PROVE  OnlySession(s)'
<1> USE DEF Tokens
<1> DEFINE r == IF f.at = "ok" THEN f.tok.sess ELSE None
<1>1. r \in {s, None} /\ (f.at = "ok" => f.tok \in Token)
  BY OnlyParts, Constants DEF Brings, OnlyTokens
<1>2. OnlyTokens(s)'
  <2>1. cookie' # None => cookie'.sess = s
    BY <1>1, OnlyParts, Constants DEF DeliverRefresh, OnlyTokens, Token
  <2> QED
    BY <2>1, OnlyParts DEF DeliverRefresh, OnlyTokens
<1>3. OnlyShown(s)'
  <2>1. \A t \in Tabs : mem'[t] # None => mem'[t].sess = s
    BY <1>1, OnlyParts DEF DeliverRefresh, Held, OnlyShown, TypeOK
  <2> QED
    BY <2>1, OnlyParts DEF DeliverRefresh, OnlyShown
<1>4. OnlyCalls(s)'
  <2>1. \A c \in Awaiting(f.tab) : c \in calls /\ c \in Call /\ CallOK(c) /\ c.at \in {"token", "again"}
    BY DEF Awaiting, Calls, CallsOK, TypeOK
  <2>2. r \in SessionIds \cup {None}
    BY <1>1
  <2> HIDE DEF r
  <2>3. ASSUME NEW c \in Awaiting(f.tab), Resumed(c, r).kind = "viewer",
               Resumed(c, r).sess # None
        PROVE  Resumed(c, r).sess = s
    BY <1>1, <2>1, <2>3, OnlyParts DEF Resumed, Call, OnlyCalls, CallOK
  <2>4. \A d \in calls' : d \in calls \/ \E c \in Awaiting(f.tab) : d = Resumed(c, r)
    BY DEF DeliverRefresh, r
  <2> QED
    BY <2>3, <2>4, OnlyParts DEF OnlyCalls
<1> QED
  BY <1>2, <1>3, <1>4, OnlyParts

LEMMA LoseRefreshOnly ==
  ASSUME TypeOK, CallsOK, Tokens, NEW s \in SessionIds, OnlySession(s),
         NEW f \in flights, LoseRefresh(f)
  PROVE  OnlySession(s)'
<1>1. OnlyTokens(s)'
  BY OnlyParts DEF LoseRefresh, OnlyTokens
<1>2. OnlyShown(s)'
  <2>1. \A t \in Tabs : ui'[t].who = ui[t].who
    BY DEF LoseRefresh, TypeOK, Ui
  <2> QED
    BY <2>1, OnlyParts DEF LoseRefresh, OnlyShown
<1>3. OnlyCalls(s)'
  <2>1. \A c \in Awaiting(f.tab) : c \in calls /\ c \in Call
    BY DEF Awaiting, Calls, TypeOK
  <2>2. \A c \in Awaiting(f.tab) : /\ [c EXCEPT !.at = "no"].kind = c.kind
                                  /\ [c EXCEPT !.at = "no"].sess = c.sess
    BY <2>1 DEF Call
  <2>3. \A d \in calls' : \E c \in calls : d.kind = c.kind /\ d.sess = c.sess
    BY <2>1, <2>2 DEF LoseRefresh
  <2> QED
    BY <2>3, OnlyParts DEF OnlyCalls
<1> QED
  BY <1>1, <1>2, <1>3, OnlyParts

LEMMA LoadOnly ==
  ASSUME TypeOK, NEW s \in SessionIds, OnlySession(s), NEW t \in Tabs, Load(t)
  PROVE  OnlySession(s)'
<1>1. OnlyTokens(s)'
  BY OnlyParts DEF Load, OnlyTokens
<1>2. OnlyShown(s)'
  BY OnlyParts DEF Load, OnlyShown, TypeOK, Nobody
<1>3. OnlyCalls(s)'
  BY OnlyParts DEF Load, OnlyCalls, NewCall
<1> QED
  BY <1>1, <1>2, <1>3, OnlyParts

LEMMA PageOnly ==
  ASSUME TypeOK, NEW s \in SessionIds, OnlySession(s), NEW t \in Tabs,
         Edit(t) \/ SignOut(t) \/ Age(t) \/ \E u \in Users : SignIn(t, u)
  PROVE  OnlySession(s)'
<1>1. CASE Edit(t)
  <2>1. OnlyTokens(s)'
    BY <1>1, FlightStarts, OnlyTokensStart, OnlyParts DEF Edit
  <2>2. OnlyShown(s)'
    BY <1>1, OnlyParts DEF Edit, OnlyShown
  <2>3. OnlyCalls(s)'
    BY <1>1, OnlyParts DEF Edit, OnlyCalls, NewCall
  <2> QED
    BY <2>1, <2>2, <2>3, OnlyParts
<1>2. CASE SignOut(t)
  <2>1. OnlyTokens(s)'
    BY <1>2, OnlyParts DEF SignOut, OnlyTokens
  <2>2. OnlyShown(s)'
    BY <1>2, OnlyParts DEF SignOut, OnlyShown, TypeOK, Nobody
  <2>3. OnlyCalls(s)'
    BY <1>2, OnlyParts DEF SignOut, Announced, OnlyCalls, NewCall
  <2> QED
    BY <2>1, <2>2, <2>3, OnlyParts
<1>3. CASE Age(t)
  <2>1. OnlyTokens(s)' /\ OnlyCalls(s)'
    BY <1>3, OnlyParts DEF Age, OnlyTokens, OnlyCalls
  <2>2. \A x \in Tabs : mem'[x] # None => mem[x] # None /\ mem'[x].sess = mem[x].sess
    BY <1>3 DEF Age, TypeOK, Access
  <2>3. \A x \in Tabs : ui'[x].who = ui[x].who
    BY <1>3 DEF Age, TypeOK, Ui
  <2>4. OnlyShown(s)'
    BY <1>3, <2>2, <2>3, OnlyParts DEF OnlyShown, Age
  <2> QED
    BY <2>1, <2>4, OnlyParts
<1>4. ASSUME NEW u \in Users, SignIn(t, u) PROVE OnlySession(s)'
  <2>1. OnlyTokens(s)' /\ OnlyShown(s)'
    BY <1>4, OnlyParts DEF SignIn, OnlyTokens, OnlyShown
  <2>2. OnlyCalls(s)'
    BY <1>4, OnlyParts DEF SignIn, OnlyCalls, NewCall
  <2> QED
    BY <2>1, <2>2, OnlyParts
<1> QED
  BY <1>1, <1>2, <1>3, <1>4

\* A call that changes its place only.
LEMMA OnlyCallsReplaced ==
  ASSUME NEW s \in SessionIds, OnlyCalls(s), NEW c \in calls, NEW d,
         d.kind = c.kind, d.sess = c.sess \/ d.kind # "viewer", Replace(c, d)
  PROVE  OnlyCalls(s)'
BY DEF OnlyCalls, Replace

LEMMA UnauthorizedOnly ==
  ASSUME TypeOK, NEW s \in SessionIds, OnlySession(s), NEW c \in calls, Unauthorized(c),
         cookie' = cookie
  PROVE  OnlyTokens(s)' /\ OnlyCalls(s)'
<1>1. c \in Call /\ c.tab \in Tabs
  BY DEF TypeOK, Call
<1>2. \A at \in {"no", "again"} : /\ [c EXCEPT !.at = at].kind = c.kind
                                  /\ [c EXCEPT !.at = at].sess = c.sess
  BY <1>1 DEF Call
<1>3. OnlyTokens(s)'
  BY <1>1, FlightStarts, OnlyTokensStart, OnlyParts DEF Unauthorized
<1>4. OnlyCalls(s)'
  BY <1>2, OnlyCallsReplaced, OnlyParts DEF Unauthorized
<1> QED
  BY <1>3, <1>4

LEMMA ServeCallOnly ==
  ASSUME TypeOK, NEW s \in SessionIds, OnlySession(s), NEW c \in calls,
         ServeCall(c) \/ ServeSignIn(c) \/ ServeSignOut(c)
  PROVE  OnlySession(s)'
<1> DEFINE d == [c EXCEPT !.at = "ok"]
<1>1. d.kind = c.kind /\ d.sess = c.sess
  BY DEF TypeOK, Call
<1>2. CASE ServeCall(c)
  <2>1. OnlyShown(s)'
    BY <1>2, OnlyParts DEF ServeCall, OnlyShown
  <2>2. CASE c.sess # None /\ auth[c.sess].live
    <3>1. OnlyCalls(s)'
      BY <1>1, <1>2, <2>2, OnlyCallsReplaced, OnlyParts DEF ServeCall
    <3>2. OnlyTokens(s)'
      BY <1>2, <2>2, OnlyParts DEF ServeCall, OnlyTokens
    <3> QED
      BY <2>1, <3>1, <3>2, OnlyParts
  <2>3. CASE ~(c.sess # None /\ auth[c.sess].live)
    BY <1>2, <2>1, <2>3, UnauthorizedOnly, OnlyParts DEF ServeCall
  <2> QED
    BY <2>2, <2>3
<1>3. CASE ServeSignIn(c)
  <2>1. CASE Fault /\ Unauthorized(c) /\ UNCHANGED auth
    <3>1. OnlyShown(s)'
      BY <1>3, <2>1, OnlyParts DEF ServeSignIn, OnlyShown
    <3> QED
      BY <1>3, <2>1, <3>1, UnauthorizedOnly, OnlyParts DEF ServeSignIn
  <2>2. ASSUME NEW r \in SessionIds, auth[r] = NoSession,
               auth' = [auth EXCEPT ![r] = NewSession(c.user)],
               Replace(c, [c EXCEPT !.at = "ok", !.sess = r]),
               UNCHANGED <<flights, left, out>>
        PROVE  OnlySession(s)'
    <3>1. [c EXCEPT !.at = "ok", !.sess = r].kind = "signin"
      BY <1>3 DEF TypeOK, Call, ServeSignIn
    <3>2. OnlyCalls(s)'
      BY <1>3, <2>2, <3>1, OnlyCallsReplaced, OnlyParts DEF ServeSignIn
    <3>3. OnlyTokens(s)'
      BY <1>3, <2>2, OnlyParts DEF ServeSignIn, OnlyTokens
    <3>4. OnlyShown(s)'
      <4>1. CASE r = s
        <5>1. \A t \in Tabs : ui[t].who = None
          BY <2>2, <4>1, OnlyParts DEF OnlyShown, NoSession
        <5> QED
          BY <1>3, <5>1, OnlyParts DEF OnlyShown, ServeSignIn
      <4>2. CASE r # s
        <5>1. auth'[s] = auth[s]
          BY <2>2, <4>2 DEF TypeOK
        <5> QED
          BY <1>3, <5>1, OnlyParts DEF OnlyShown, ServeSignIn
      <4> QED
        BY <4>1, <4>2
    <3> QED
      BY <3>2, <3>3, <3>4, OnlyParts
  <2> QED
    BY <1>3, <2>1, <2>2 DEF ServeSignIn
<1>4. CASE ServeSignOut(c)
  <2>1. auth'[s].user = auth[s].user
    BY <1>4 DEF ServeSignOut, TypeOK
  <2>2. OnlyShown(s)'
    BY <1>4, <2>1, OnlyParts DEF ServeSignOut, OnlyShown
  <2>3. OnlyTokens(s)'
    BY <1>4, OnlyParts DEF ServeSignOut, OnlyTokens
  <2>4. OnlyCalls(s)'
    BY <1>1, <1>4, OnlyCallsReplaced, OnlyParts DEF ServeSignOut
  <2> QED
    BY <2>2, <2>3, <2>4, OnlyParts
<1> QED
  BY <1>2, <1>3, <1>4

LEMMA LoseCallOnly ==
  ASSUME TypeOK, NEW s \in SessionIds, OnlySession(s), NEW c \in calls, LoseCall(c)
  PROVE  OnlySession(s)'
<1>1. [c EXCEPT !.at = "no"].kind = c.kind /\ [c EXCEPT !.at = "no"].sess = c.sess
  BY DEF TypeOK, Call
<1>2. OnlyTokens(s)' /\ OnlyShown(s)'
  BY OnlyParts DEF LoseCall, OnlyTokens, OnlyShown
<1>3. OnlyCalls(s)'
  BY <1>1, OnlyCallsReplaced, OnlyParts DEF LoseCall
<1> QED
  BY <1>2, <1>3, OnlyParts

\* Everything but a sign-in that succeeded.
LEMMA DeliverCallOnly ==
  ASSUME TypeOK, CallsOK, NEW s \in SessionIds, OnlySession(s), NEW c \in calls,
         DeliverCall(c), ~(c.kind = "signin" /\ c.at = "ok")
  PROVE  OnlySession(s)'
<1>1. c \in Call /\ c.tab \in Tabs /\ CallOK(c)
  BY DEF TypeOK, Call, CallsOK
<1>2. OnlyCalls(s)'
  BY OnlyParts DEF DeliverCall, OnlyCalls
<1>3. OnlyTokens(s)'
  BY OnlyParts DEF DeliverCall, Booted, Edited, SignedIn, SignedOut, OnlyTokens
<1>4. OnlyShown(s)'
  <2>1. CASE Booted(c) /\ c.at = "ok" /\ mem[c.tab] # None
    <3>1. c.sess = s
      BY <1>1, <2>1, OnlyParts DEF Booted, CallOK, OnlyCalls
    <3>2. \A t \in Tabs : ui'[t].who = IF t = c.tab THEN auth[s].user ELSE ui[t].who
      BY <1>1, <2>1, <3>1 DEF Booted, Shown, TypeOK
    <3> QED
      BY <2>1, <3>2, OnlyParts DEF Booted, OnlyShown, DeliverCall
  <2>2. CASE ~(Booted(c) /\ c.at = "ok" /\ mem[c.tab] # None)
    <3>1. \A t \in Tabs : ui'[t].who \in {None, ui[t].who}
      BY <1>1, <2>2
         DEF DeliverCall, Booted, Edited, SignedIn, SignedOut, Nobody, TypeOK
    <3>2. \A t \in Tabs : mem'[t] \in {None, mem[t]}
      BY <1>1, <2>2 DEF DeliverCall, Booted, Edited, SignedIn, SignedOut, TypeOK
    <3> QED
      BY <3>1, <3>2, OnlyParts DEF OnlyShown, DeliverCall
  <2> QED
    BY <2>1, <2>2
<1> QED
  BY <1>2, <1>3, <1>4, OnlyParts

\* A sign-in beside nobody makes its session the only one.
LEMMA SignedInOnly ==
  ASSUME TypeOK, CallsOK, NEW c \in calls, DeliverCall(c), c.kind = "signin", c.at = "ok"
  PROVE  OneSession'
<1>1. SignedIn(c) /\ c.tab \in Tabs
  BY DEF DeliverCall, Booted, Edited, SignedOut, TypeOK, Call
<1>2. /\ c.sess \in SessionIds /\ auth'[c.sess].user = c.user
  BY DEF CallsOK, Answered, DeliverCall
<1>3. SUFFICES ASSUME ~mixed' PROVE OnlySession(c.sess)'
  BY <1>2 DEF OneSession
<1>4. /\ flights' = {} /\ calls' = {}
      /\ \A t \in Tabs \ {c.tab} : ui[t].who = None /\ mem[t] = None
  BY <1>1, <1>3 DEF SignedIn, DeliverCall
<1>5. \A t \in Tabs : /\ mem'[t] # None => mem'[t].sess = c.sess
                      /\ ui'[t].who # None => ui'[t].who = c.user
  BY <1>1, <1>4 DEF SignedIn, Remembered, Shown, TypeOK
<1>6. cookie'.sess = c.sess
  BY <1>1 DEF SignedIn
<1> QED
  BY <1>2, <1>4, <1>5, <1>6 DEF OnlySession

LEMMA NextOneSession ==
  TypeOK /\ CallsOK /\ Tokens /\ OneSession /\ [Next]_vars => OneSession'
<1> SUFFICES ASSUME TypeOK, CallsOK, Tokens, OneSession, [Next]_vars PROVE OneSession'
  OBVIOUS
<1>1. ASSUME NEW c \in calls, DeliverCall(c), c.kind = "signin", c.at = "ok"
      PROVE  OneSession'
  BY <1>1, SignedInOnly
<1>2. ASSUME \A c \in calls : ~(DeliverCall(c) /\ c.kind = "signin" /\ c.at = "ok")
      PROVE  OneSession'
  <2>1. mixed' = mixed
    BY <1>2 DEF Next, vars, ServeRefresh, DeliverRefresh, LoseRefresh, Load, Edit, SignOut,
       Age, SignIn, ServeCall, ServeSignIn, ServeSignOut, LoseCall, DeliverCall, Booted,
       Edited, SignedIn, SignedOut, Revoke
  <2>2. SUFFICES ASSUME ~mixed, NEW s \in SessionIds, OnlySession(s) PROVE OnlySession(s)'
    BY <2>1 DEF OneSession
  <2>3. ASSUME NEW f \in flights, ServeRefresh(f) \/ DeliverRefresh(f) \/ LoseRefresh(f)
        PROVE  OnlySession(s)'
    BY <2>2, <2>3, ServeRefreshOnly, DeliverRefreshOnly, LoseRefreshOnly
  <2>4. ASSUME NEW t \in Tabs, Load(t) \/ Edit(t) \/ SignOut(t) \/ Age(t)
                               \/ \E u \in Users : SignIn(t, u)
        PROVE  OnlySession(s)'
    BY <2>2, <2>4, LoadOnly, PageOnly
  <2>5. ASSUME NEW c \in calls, ServeCall(c) \/ ServeSignIn(c) \/ ServeSignOut(c)
                                \/ LoseCall(c) \/ DeliverCall(c)
        PROVE  OnlySession(s)'
    BY <1>2, <2>2, <2>5, ServeCallOnly, LoseCallOnly, DeliverCallOnly
  <2>6. ASSUME NEW r \in SessionIds, Revoke(r) PROVE OnlySession(s)'
    <3>1. auth'[s].user = auth[s].user
      BY <2>6 DEF Revoke, TypeOK
    <3> QED
      BY <2>2, <2>6, <3>1 DEF Revoke, OnlySession
  <2>7. CASE UNCHANGED vars
    BY <2>2, <2>7 DEF vars, OnlySession
  <2> QED
    BY <2>3, <2>4, <2>5, <2>6, <2>7 DEF Next
<1> QED
  BY <1>1, <1>2
-----------------------------------------------------------------------------
(* Sign-outs.                                                              *)

Signouts == Pending("signout")

LEMMA CleanKept ==
  ASSUME CleanOut, out' = "clean" => out = "clean", Signouts' = Signouts,
         cookie' = cookie \/ (out = "clean" => cookie' = None /\ Signouts = {}),
         \/ \A f \in flights' : \E g \in flights : f.tok = g.tok
         \/ /\ \E t \in Tabs : flights' = flights \cup {NewFlight(t)}
            /\ out' = "clean" => Signouts = {}
  PROVE  CleanOut'
BY DEF CleanOut, Signouts, NewFlight

LEMMA SignoutsReplaced ==
  ASSUME NEW c \in calls, NEW d, Replace(c, d), c.kind # "signout", d.kind # "signout"
  PROVE  Signouts' = Signouts
BY DEF Signouts, Pending, Replace

LEMMA SignoutsAdded ==
  ASSUME NEW d, d.kind # "signout", calls' = calls \cup {d} PROVE Signouts' = Signouts
BY DEF Signouts, Pending

LEMMA SpoiledClean ==
  ASSUME out' = Spoiled, out' = "clean" PROVE out = "clean" /\ Signouts = {}
BY DEF Spoiled, Signouts

LEMMA AwaitingSignouts ==
  ASSUME TypeOK, CallsOK, NEW t \in Tabs
  PROVE  \A c \in Awaiting(t) : /\ c \in calls /\ c \in Call /\ CallOK(c)
                               /\ c.at \in {"token", "again"} /\ c.kind # "signout"
<1> SUFFICES ASSUME NEW c \in Awaiting(t)
    PROVE  c \in calls /\ c \in Call /\ CallOK(c) /\ c.at \in {"token", "again"} /\ c.kind # "signout"
  OBVIOUS
<1>1. c \in calls /\ c \in Call /\ CallOK(c) /\ c.at \in {"token", "again"}
  BY DEF Awaiting, Calls, CallsOK, TypeOK
<1> QED
  BY <1>1 DEF CallOK

LEMMA FlightsClean ==
  ASSUME TypeOK, CallsOK, Tokens, CleanOut, NEW f \in flights,
         ServeRefresh(f) \/ DeliverRefresh(f) \/ LoseRefresh(f)
  PROVE  CleanOut'
<1>1. f.tab \in Tabs /\ f \in Flight
  BY DEF TypeOK, Flight
<1>2. CASE ServeRefresh(f)
  <2>1. \A at \in {"ok", "no"} : [f EXCEPT !.at = at].tok = f.tok
    BY <1>1 DEF Flight
  <2>2. \A e \in flights' : \E g \in flights : e.tok = g.tok
    BY <1>2, <2>1 DEF ServeRefresh
  <2>3. Signouts' = Signouts
    BY <1>2 DEF ServeRefresh, Signouts, Pending
  <2> QED
    BY <1>2, <2>2, <2>3, CleanKept DEF ServeRefresh
<1>3. CASE DeliverRefresh(f)
  <2> DEFINE r == IF f.at = "ok" THEN f.tok.sess ELSE None
  <2>1. r \in SessionIds \cup {None}
    BY DEF Tokens, Brings, Token
  <2>2. \A c \in Awaiting(f.tab) : Resumed(c, r).kind # "signout"
    BY <1>1, <2>1, AwaitingSignouts, ResumedCall
  <2>3. calls' = (calls \ Awaiting(f.tab)) \cup {Resumed(c, r) : c \in Awaiting(f.tab)}
    BY <1>3 DEF DeliverRefresh
  <2> HIDE DEF r
  <2>4. Signouts' = Signouts
    BY <1>1, <2>2, <2>3, AwaitingSignouts DEF Signouts, Pending
  <2>5. out = "clean" => cookie' = cookie
    <3>1. out = "clean" => f.tok = None
      BY DEF CleanOut
    <3>2. f.at = "ok" => f.tok \in Token
      BY DEF Tokens, Brings
    <3> QED
      BY <1>3, <3>1, <3>2, Constants DEF DeliverRefresh
  <2> QED
    BY <1>3, <2>4, <2>5 DEF DeliverRefresh, CleanOut, Signouts
<1>4. CASE LoseRefresh(f)
  <2>1. \A c \in Awaiting(f.tab) : [c EXCEPT !.at = "no"].kind # "signout"
    BY <1>1, AwaitingSignouts DEF Call
  <2>2. Signouts' = Signouts
    BY <1>1, <1>4, <2>1, AwaitingSignouts DEF Signouts, Pending, LoseRefresh
  <2> QED
    BY <1>4, <2>2, CleanKept DEF LoseRefresh
<1> QED
  BY <1>2, <1>3, <1>4

LEMMA PagesClean ==
  ASSUME TypeOK, CallsOK, CleanOut, NEW t \in Tabs,
         Load(t) \/ Edit(t) \/ SignOut(t) \/ Age(t) \/ \E u \in Users : SignIn(t, u)
  PROVE  CleanOut'
<1>1. CASE Load(t)
  <2> SUFFICES ASSUME out' = "clean" PROVE CleanOut'
    BY DEF CleanOut
  <2>1. out' = Spoiled
    BY <1>1 DEF Load
  <2>2. out = "clean" /\ Signouts = {}
    BY <2>1, SpoiledClean
  <2>3. cookie' = None /\ \A f \in flights' : f.tok = None
    BY <1>1, <2>2 DEF Load, CleanOut, Signouts
  <2>4. Signouts' = {}
    BY <1>1, <2>2 DEF Load, Signouts, Pending, NewCall
  <2> QED
    BY <2>3, <2>4 DEF CleanOut, Signouts
<1>2. CASE Edit(t)
  <2> DEFINE a == [NewCall(t, "edit", "sent") EXCEPT !.sess = mem[t].sess]
             b == NewCall(t, "edit", "token")
  <2>1. a.kind = "edit" /\ b.kind = "edit"
    BY DEF NewCall
  <2>2. Signouts' = Signouts
    BY <1>2, <2>1, SignoutsAdded DEF Edit
  <2>3. CASE mem[t] # None /\ ~mem[t].old
    BY <1>2, <2>2, <2>3, CleanKept DEF Edit
  <2>4. CASE ~(mem[t] # None /\ ~mem[t].old)
    <3>1. cookie' = cookie /\ StartRefresh(t)
      BY <1>2, <2>4 DEF Edit
    <3>2. CASE flights' = flights /\ out' = out
      BY <2>2, <3>1, <3>2, CleanKept
    <3>3. CASE flights' = flights \cup {NewFlight(t)} /\ out' = Spoiled
      BY <2>2, <3>1, <3>3, SpoiledClean, CleanKept
    <3> QED
      BY <3>1, <3>2, <3>3, FlightStarts
  <2> QED
    BY <2>3, <2>4
<1>3. CASE SignOut(t)
  <2> DEFINE d == [NewCall(t, "signout", "sent") EXCEPT !.tok = cookie]
  <2>1. d.kind = "signout" /\ d.at = "sent"
    BY DEF NewCall
  <2>2. Signouts' = {d}
    BY <1>3, <2>1 DEF SignOut, Announced, Signouts, Pending
  <2>3. out' = "clean" => flights' = {}
    BY <1>3 DEF SignOut
  <2> HIDE DEF d
  <2> QED
    BY <2>1, <2>2, <2>3 DEF CleanOut, Signouts
<1>4. CASE Age(t)
  <2>1. Signouts' = Signouts
    BY <1>4 DEF Age, Signouts, Pending
  <2> QED
    BY <1>4, <2>1, CleanKept DEF Age
<1>5. ASSUME NEW u \in Users, SignIn(t, u) PROVE CleanOut'
  <2> DEFINE d == [NewCall(t, "signin", "sent") EXCEPT !.user = u]
  <2>1. d.kind = "signin"
    BY DEF NewCall
  <2>2. Signouts' = Signouts
    BY <1>5, <2>1, SignoutsAdded DEF SignIn
  <2> QED
    BY <1>5, <2>2, CleanKept DEF SignIn
<1> QED
  BY <1>1, <1>2, <1>3, <1>4, <1>5

LEMMA UnauthorizedClean ==
  ASSUME TypeOK, CleanOut, NEW c \in calls, c.kind # "signout", Unauthorized(c),
         cookie' = cookie
  PROVE  CleanOut'
<1>1. c \in Call /\ c.tab \in Tabs
  BY DEF TypeOK, Call
<1>2. \A at \in {"no", "again"} : [c EXCEPT !.at = at].kind = c.kind
  BY <1>1 DEF Call
<1>3. Signouts' = Signouts
  BY <1>2, SignoutsReplaced DEF Unauthorized
<1>4. CASE flights' = flights /\ out' = out
  BY <1>3, <1>4, CleanKept
<1>5. CASE flights' = flights \cup {NewFlight(c.tab)} /\ out' = Spoiled
  BY <1>1, <1>3, <1>5, SpoiledClean, CleanKept
<1> QED
  BY <1>1, <1>4, <1>5, FlightStarts DEF Unauthorized

LEMMA ServeCallsClean ==
  ASSUME TypeOK, CallsOK, CleanOut, NEW c \in calls,
         ServeCall(c) \/ ServeSignIn(c) \/ ServeSignOut(c)
  PROVE  CleanOut'
<1> DEFINE d == [c EXCEPT !.at = "ok"]
<1>1. d.kind = c.kind /\ d.at = "ok"
  BY DEF TypeOK, Call
<1>2. CASE ServeCall(c)
  <2>1. CASE c.sess # None /\ auth[c.sess].live
    <3>1. Signouts' = Signouts
      BY <1>1, <1>2, <2>1, SignoutsReplaced DEF ServeCall
    <3> QED
      BY <1>2, <2>1, <3>1, CleanKept DEF ServeCall
  <2>2. CASE ~(c.sess # None /\ auth[c.sess].live)
    BY <1>2, <2>2, UnauthorizedClean DEF ServeCall
  <2> QED
    BY <2>1, <2>2
<1>3. CASE ServeSignIn(c)
  <2>1. CASE Fault /\ Unauthorized(c) /\ UNCHANGED auth
    BY <1>3, <2>1, UnauthorizedClean DEF ServeSignIn
  <2>2. ASSUME NEW s \in SessionIds, Replace(c, [c EXCEPT !.at = "ok", !.sess = s]),
               UNCHANGED <<flights, left, out>>
        PROVE  CleanOut'
    <3>1. [c EXCEPT !.at = "ok", !.sess = s].kind = "signin"
      BY <1>3 DEF TypeOK, Call, ServeSignIn
    <3>2. Signouts' = Signouts
      BY <1>3, <2>2, <3>1, SignoutsReplaced DEF ServeSignIn
    <3> QED
      BY <1>3, <2>2, <3>2, CleanKept DEF ServeSignIn
  <2> QED
    BY <1>3, <2>1, <2>2 DEF ServeSignIn
<1>4. CASE ServeSignOut(c)
  <2>1. Signouts # {} /\ d \in Signouts'
    BY <1>1, <1>4 DEF ServeSignOut, Replace, Signouts, Pending
  <2>2. \A x \in Signouts' : x = d \/ x \in Signouts
    BY <1>4 DEF ServeSignOut, Replace, Signouts, Pending
  <2>3. flights' = flights /\ out' = out
    BY <1>4 DEF ServeSignOut
  <2> HIDE DEF d
  <2> QED
    BY <1>1, <2>1, <2>2, <2>3 DEF CleanOut, Signouts
<1> QED
  BY <1>2, <1>3, <1>4

LEMMA EndCallsClean ==
  ASSUME TypeOK, CallsOK, CleanOut, NEW c \in calls, LoseCall(c) \/ DeliverCall(c)
  PROVE  CleanOut'
<1>1. CASE LoseCall(c)
  <2> SUFFICES ASSUME out' = "clean" PROVE CleanOut'
    BY DEF CleanOut
  <2>1. c.kind # "signout" /\ out' = out
    BY <1>1 DEF LoseCall
  <2>2. [c EXCEPT !.at = "no"].kind = c.kind
    BY DEF TypeOK, Call
  <2>3. Signouts' = Signouts
    BY <1>1, <2>1, <2>2, SignoutsReplaced DEF LoseCall
  <2> QED
    BY <1>1, <2>1, <2>3, CleanKept DEF LoseCall
<1>2. CASE DeliverCall(c)
  <2> SUFFICES ASSUME out' = "clean" PROVE CleanOut'
    BY DEF CleanOut
  <2>1. flights' = flights /\ calls' = calls \ {c}
    BY <1>2 DEF DeliverCall
  <2>2. out = "clean" /\ cookie' \in {cookie, None} /\ (c.kind = "signout" => SignedOut(c))
    BY <1>2 DEF DeliverCall, Booted, Edited, SignedIn, SignedOut
  <2>3. CASE c.kind = "signout"
    <3>1. Signouts # {} /\ c.at # "no" /\ flights' = {} /\ Signouts' = {}
      BY <2>1, <2>2, <2>3 DEF Signouts, Pending, CleanOut, CallsOK
    <3>2. c.at = "ok"
      BY <1>2, <3>1 DEF DeliverCall
    <3> QED
      BY <2>2, <2>3, <3>1, <3>2 DEF SignedOut, CleanOut, Signouts
  <2>4. CASE c.kind # "signout"
    <3>1. Signouts' = Signouts
      BY <2>1, <2>4 DEF Signouts, Pending
    <3> QED
      BY <2>1, <2>2, <3>1 DEF CleanOut, Signouts
  <2> QED
    BY <2>3, <2>4
<1> QED
  BY <1>1, <1>2

LEMMA NextClean == TypeOK /\ CallsOK /\ Tokens /\ CleanOut /\ [Next]_vars => CleanOut'
<1> SUFFICES ASSUME TypeOK, CallsOK, Tokens, CleanOut, [Next]_vars PROVE CleanOut'
  OBVIOUS
<1>1. ASSUME NEW f \in flights, ServeRefresh(f) \/ DeliverRefresh(f) \/ LoseRefresh(f)
      PROVE  CleanOut'
  BY <1>1, FlightsClean
<1>2. ASSUME NEW t \in Tabs, Load(t) \/ Edit(t) \/ SignOut(t) \/ Age(t)
                             \/ \E u \in Users : SignIn(t, u)
      PROVE  CleanOut'
  BY <1>2, PagesClean
<1>3. ASSUME NEW c \in calls, ServeCall(c) \/ ServeSignIn(c) \/ ServeSignOut(c)
                              \/ LoseCall(c) \/ DeliverCall(c)
      PROVE  CleanOut'
  BY <1>3, ServeCallsClean, EndCallsClean
<1>4. ASSUME NEW s \in SessionIds, Revoke(s) PROVE CleanOut'
  BY <1>4 DEF Revoke, CleanOut, Pending
<1>5. CASE UNCHANGED vars
  BY <1>5 DEF vars, CleanOut, Pending
<1> QED
  BY <1>1, <1>2, <1>3, <1>4, <1>5 DEF Next
-----------------------------------------------------------------------------
LEMMA Invariant == Spec => []IInv
<1>1. Init => IInv
  <2> SUFFICES ASSUME Init PROVE IInv
    OBVIOUS
  <2>1. CleanOut
    BY DEF Init, CleanOut
  <2> QED
    BY <2>1, InitTypes, InitCalls, InitTokens, InitOneSession DEF IInv
<1>2. IInv /\ [Next]_vars => IInv'
  BY NextTypes, NextCalls, NextTokens, NextOneSession, NextClean DEF IInv
<1> QED
  BY <1>1, <1>2, PTL DEF Spec

(* Every record the tabs and the server exchange is one the code can make: *)
(* in particular the answer of a refresh carries a session, so neither the *)
(* memory nor the cookie is ever half filled in (refreshRealSession).      *)
THEOREM TypesHold == Spec => []TypeOK
<1>1. IInv => TypeOK
  BY DEF IInv
<1> QED
  BY <1>1, Invariant, PTL

(* For any number of tabs, users, refreshes and lost answers: a tab's calls *)
(* carry a token of the user it shows, unless somebody signed in beside a  *)
(* tab or a call of another (AuthContext over memorySession).              *)
THEOREM TabsActAsShown == Spec => []ActsAsShown
<1>1. IInv => ActsAsShown
  <2> SUFFICES ASSUME IInv, NEW t \in Tabs, ui[t].who # None, mem[t] # None, ~mixed
      PROVE  auth[mem[t].sess].user = ui[t].who
    BY DEF ActsAsShown
  <2>1. PICK s \in SessionIds : OnlySession(s)
    BY DEF IInv, OneSession
  <2> QED
    BY <2>1 DEF OnlySession
<1> QED
  BY <1>1, Invariant, PTL

(* For any number of tabs: a sign-out that reached the server with nothing *)
(* beside it leaves no token a page could restore the user with (signOut). *)
THEOREM SignOutIsFinal == Spec => []SignedOutStaysOut
<1>1. IInv => SignedOutStaysOut
  BY DEF IInv, CleanOut, SignedOutStaysOut, Usable
<1> QED
  BY <1>1, Invariant, PTL

(* For any number of tabs and any bound on a tab's refreshes: sharing      *)
(* realRefreshInFlight is enough for a tab never to be refused because of  *)
(* its own refresh, however the other tabs' refreshes overlap with it.     *)
THEOREM RefreshesDoNotCollide == Spec => NeverRefusesItself
<1>1. IInv /\ [Next]_vars =>
        [\A f \in flights :
           (/\ f.at = "sent" /\ [f EXCEPT !.at = "no"] \in flights'
            /\ f.tok # None
            /\ auth[f.tok.sess].live /\ auth[f.tok.sess].gen = f.tok.gen + 1)
           => spender[f.tok.sess] # f.tab]_vars
  BY DEF IInv, Tokens, SpentByOther, JustSpent
<1> QED
  BY <1>1, Invariant, PTL DEF Spec, NeverRefusesItself
=============================================================================
