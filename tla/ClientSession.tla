----------------------------- MODULE ClientSession -----------------------------
(***************************************************************************)
(* The session in the browser: the tabs of one browser, each with its      *)
(* access token in memory (src/lib/api.js) and the user it shows           *)
(* (src/context/AuthContext.jsx), over the one refresh cookie they share.  *)
(* Calls are fetches: sent, served, delivered, in any order; a page that   *)
(* is loaded again starts from nothing but the cookie.                     *)
(*                                                                         *)
(* The server's side is each endpoint's effect on the tokens, as Sessions  *)
(* has it call by call: a refresh replaces the token it is sent and        *)
(* refuses any other, a sign-out spends it and clears the cookie. Access   *)
(* tokens are named by their session; an old one is due for a refresh.     *)
(***************************************************************************)
EXTENDS Naturals, FiniteSets

CONSTANTS
  Tabs,         \* tabs of the browser
  Users,        \* accounts of the people who share it
  MaxSessions,  \* bound on the sessions
  MaxGen,       \* bound on the refreshes of one session
  MaxLoads,     \* bound on the page loads of a tab
  MaxAges,      \* bound on the times access tokens grow old
  MaxEdits,     \* bound on the calls of pages
  MaxFlights,   \* bound on a tab's refreshes at once; the code allows one
  MaxFaults,    \* bound on what goes wrong: a fetch that throws, a refusal, a
                \* session another device ends
  None          \* no value

SessionIds == 1..MaxSessions
Token == [sess : SessionIds, gen : 1..MaxGen]
Access == [sess : SessionIds, old : BOOLEAN]

ASSUME Constants ==
  /\ {MaxSessions, MaxGen, MaxLoads, MaxFlights} \subseteq Nat \ {0}
  /\ {MaxAges, MaxEdits, MaxFaults} \subseteq Nat
  /\ None \notin Users \cup SessionIds \cup Token \cup Access
  /\ "out" \notin Tabs /\ "lost" \notin Tabs

VARIABLES
  auth,      \* the sessions: whose, alive, and the generation of their token
  cookie,    \* the refresh cookie
  mem,       \* per tab, memorySession
  ui,        \* per tab, authState
  flights,   \* refreshes under way
  calls,     \* calls of request() under way
  left,      \* what the bounds leave
  spender,   \* history: per session, who spent its last token
  mixed,     \* history: somebody signed in while the browser had a user or calls
  out        \* history: how the last sign-out of the browser went

vars == <<auth, cookie, mem, ui, flights, calls, left, spender, mixed, out>>
-----------------------------------------------------------------------------
NoSession == [user |-> None, live |-> FALSE, gen |-> 0]
NewSession(u) == [user |-> u, live |-> TRUE, gen |-> 1]

\* who is the user on display, with the session it was set with.
Ui == [status : {"closed", "loading", "ready", "thrown"},
       who : Users \cup {None}, sess : SessionIds \cup {None}, old : BOOLEAN]
Shown(status, u, a) == [status |-> status, who |-> u, sess |-> a.sess, old |-> a.old]
Nobody(status) == [status |-> status, who |-> None, sess |-> None, old |-> FALSE]

Flight == [tab : Tabs, n : 1..MaxFlights, tok : Token \cup {None},
           at : {"sent", "ok", "no"}]

\* boot waits for its first token and becomes viewer; sess is the session of
\* the access token sent.
Kinds == {"boot", "viewer", "edit", "signin", "signout"}
Call == [tab : Tabs, kind : Kinds, at : {"token", "sent", "ok", "again", "no"},
         sess : SessionIds \cup {None}, retry : BOOLEAN,
         user : Users \cup {None}, tok : Token \cup {None}]

TypeOK ==
  /\ auth \in [SessionIds -> [user : Users \cup {None}, live : BOOLEAN, gen : 0..MaxGen]]
  /\ cookie \in Token \cup {None}
  /\ mem \in [Tabs -> Access \cup {None}]
  /\ ui \in [Tabs -> Ui]
  /\ flights \subseteq Flight
  /\ calls \subseteq Call
  /\ left \in [loads : [Tabs -> Nat], ages : Nat, edits : Nat, faults : Nat]
  /\ spender \in [SessionIds -> Tabs \cup {"out", "lost", None}]
  /\ mixed \in BOOLEAN
  /\ out \in {"in", "clean", "spoiled"}

\* A browser with a session kept from before, or with none.
Init ==
  /\ \E u \in Users \cup {None} :
       /\ auth = [s \in SessionIds |->
                    IF s = 1 /\ u # None THEN NewSession(u) ELSE NoSession]
       /\ cookie = IF u = None THEN None ELSE [sess |-> 1, gen |-> 1]
  /\ mem = [t \in Tabs |-> None]
  /\ ui = [t \in Tabs |-> Nobody("closed")]
  /\ flights = {} /\ calls = {}
  /\ left = [loads |-> [t \in Tabs |-> MaxLoads], ages |-> MaxAges, edits |-> MaxEdits,
            faults |-> MaxFaults]
  /\ spender = [s \in SessionIds |-> None]
  /\ mixed = FALSE
  /\ out = "in"

Usable(t) == t # None /\ auth[t.sess].live /\ auth[t.sess].gen = t.gen

Flights(t) == {f \in flights : f.tab = t}
Calls(t) == {c \in calls : c.tab = t}
Pending(kind) == {c \in calls : c.kind = kind}

NewCall(t, kind, at) == [tab |-> t, kind |-> kind, at |-> at, sess |-> None,
                         retry |-> FALSE, user |-> None, tok |-> None]

Replace(c, d) == calls' = (calls \ {c}) \cup {d}

Fault == left.faults > 0 /\ left' = [left EXCEPT !.faults = @ - 1]

\* A refresh that overlaps a sign-out may outlive it.
Spoiled == IF out = "clean" /\ Pending("signout") # {} THEN "spoiled" ELSE out
-----------------------------------------------------------------------------
(* refreshRealSession.                                                     *)

\* Bug variant of MayFly: every caller makes its own refresh.
MayFlyAlways(t, n) == n \notin {f.n : f \in Flights(t)}

\* realRefreshInFlight: the callers share one.
MayFly(t, n) == n = 1 /\ Flights(t) = {}

StartRefresh(t) ==
  \/ \E n \in 1..MaxFlights :
       /\ MayFly(t, n)
       /\ flights' = flights \cup {[tab |-> t, n |-> n, tok |-> cookie, at |-> "sent"]}
       /\ out' = Spoiled
  \/ /\ \A n \in 1..MaxFlights : ~MayFly(t, n)
     /\ UNCHANGED <<flights, out>>

ServeRefresh(f) ==
  /\ f \in flights /\ f.at = "sent"
  /\ \/ /\ Usable(f.tok) /\ f.tok.gen < MaxGen
        /\ auth' = [auth EXCEPT ![f.tok.sess].gen = @ + 1]
        /\ spender' = [spender EXCEPT ![f.tok.sess] = f.tab]
        /\ flights' = (flights \ {f}) \cup {[f EXCEPT !.at = "ok"]}
        /\ UNCHANGED left
     \/ /\ (~Usable(f.tok) /\ UNCHANGED left) \/ Fault
        /\ flights' = (flights \ {f}) \cup {[f EXCEPT !.at = "no"]}
        /\ UNCHANGED <<auth, spender>>
  /\ UNCHANGED <<cookie, mem, ui, calls, mixed, out>>

Awaiting(t) == {c \in Calls(t) : c.at \in {"token", "again"}}

\* What request() does with the token it waited for: it sends the call; after
\* a 401 it sends it again if the token is another one, and gives up if not.
\* The boot gives up without a token.
Resumed(c, s) ==
  IF c.at = "token"
  THEN IF c.kind = "boot"
       THEN IF s = None THEN [c EXCEPT !.at = "no"]
                        ELSE [c EXCEPT !.kind = "viewer", !.at = "sent", !.sess = s]
       ELSE [c EXCEPT !.at = "sent", !.sess = s]
  ELSE IF s # None THEN [c EXCEPT !.at = "sent", !.sess = s, !.retry = TRUE]
                   ELSE [c EXCEPT !.at = "no"]

\* Bug variant of Held: an answer without a session is kept as one.
HeldAlways(s) == [sess |-> s, old |-> FALSE]

Held(s) == IF s = None THEN None ELSE [sess |-> s, old |-> FALSE]

\* The answer sets the cookie, if it carries one, and the memory; everybody
\* who waited goes on.
DeliverRefresh(f) ==
  LET s == IF f.at = "ok" THEN f.tok.sess ELSE None IN
  /\ f \in flights /\ f.at # "sent"
  /\ flights' = flights \ {f}
  /\ cookie' = IF s = None THEN cookie ELSE [f.tok EXCEPT !.gen = @ + 1]
  /\ mem' = [mem EXCEPT ![f.tab] = Held(s)]
  /\ calls' = (calls \ Awaiting(f.tab)) \cup {Resumed(c, s) : c \in Awaiting(f.tab)}
  /\ UNCHANGED <<auth, ui, left, spender, mixed, out>>

\* The fetch throws, before or after the server saw it: whoever waited fails.
\* hydrateRealSession does not catch it.
LoseRefresh(f) ==
  LET boots == {c \in Awaiting(f.tab) : c.kind = "boot"} IN
  /\ f \in flights
  /\ Fault
  /\ flights' = flights \ {f}
  /\ spender' = IF f.at = "ok" THEN [spender EXCEPT ![f.tok.sess] = "lost"]
                                ELSE spender
  /\ calls' = (calls \ Awaiting(f.tab)) \cup
                {[c EXCEPT !.at = "no"] : c \in Awaiting(f.tab) \ boots}
  /\ ui' = IF boots = {} THEN ui ELSE [ui EXCEPT ![f.tab].status = "thrown"]
  /\ UNCHANGED <<auth, cookie, mem, mixed, out>>
-----------------------------------------------------------------------------
(* Loading a page.                                                         *)

\* A load drops what the page had under way, served or not.
Load(t) ==
  /\ left.loads[t] > 0
  /\ left' = [left EXCEPT !.loads[t] = @ - 1]
  /\ ui' = [ui EXCEPT ![t] = Nobody("loading")]
  /\ mem' = [mem EXCEPT ![t] = None]
  /\ flights' = (flights \ Flights(t)) \cup
                  {[tab |-> t, n |-> 1, tok |-> cookie, at |-> "sent"]}
  /\ calls' = (calls \ Calls(t)) \cup {NewCall(t, "boot", "token")}
  /\ spender' = [s \in SessionIds |->
       IF \E f \in Flights(t) : f.at = "ok" /\ f.tok.sess = s
       THEN "lost" ELSE spender[s]]
  /\ out' = IF \E c \in Calls(t) : c.kind \in {"signin", "signout"}
            THEN "spoiled" ELSE Spoiled
  /\ UNCHANGED <<auth, cookie, mixed>>

\* The end of hydrateRealSession: the user is the one the viewer read named,
\* the session the one in memory now.
Booted(c) ==
  /\ c.kind \in {"boot", "viewer"}
  /\ IF c.at = "ok" /\ mem[c.tab] # None
     THEN /\ ui' = [ui EXCEPT ![c.tab] =
                      Shown("ready", auth[c.sess].user, mem[c.tab])]
          /\ UNCHANGED mem
     ELSE /\ ui' = [ui EXCEPT ![c.tab] = Nobody("ready")]
          /\ mem' = IF c.kind = "viewer" THEN [mem EXCEPT ![c.tab] = None] ELSE mem
  /\ UNCHANGED <<cookie, mixed, out>>
-----------------------------------------------------------------------------
(* Calls of request().                                                     *)

\* A page of a signed-in tab makes a call: with the token in memory, or with
\* the one a refresh brings.
Edit(t) ==
  /\ left.edits > 0
  /\ left' = [left EXCEPT !.edits = @ - 1]
  /\ ui[t].who # None
  /\ \A c \in Calls(t) : c.kind # "edit"
  /\ IF mem[t] # None /\ ~mem[t].old
     THEN /\ calls' = calls \cup {[NewCall(t, "edit", "sent") EXCEPT !.sess = mem[t].sess]}
          /\ UNCHANGED <<flights, out>>
     ELSE /\ calls' = calls \cup {NewCall(t, "edit", "token")}
          /\ StartRefresh(t)
  /\ UNCHANGED <<auth, cookie, mem, ui, spender, mixed>>

\* The form at /signin is there for whoever is not shown a user, also while
\* the page still restores a session.
SignIn(t, u) ==
  /\ ui[t].status # "closed" /\ ui[t].who = None
  /\ Pending("signin") = {}
  /\ \E s \in SessionIds : auth[s] = NoSession
  /\ calls' = calls \cup {[NewCall(t, "signin", "sent") EXCEPT !.user = u]}
  /\ UNCHANGED <<auth, cookie, mem, ui, flights, left, spender, mixed, out>>

\* Bug variant of Announced: the sign-out stays in the browser.
AnnouncedNot(t) == calls

Announced(t) == calls \cup {[NewCall(t, "signout", "sent") EXCEPT !.tok = cookie]}

\* signOut: the tab forgets at once and tells the server.
SignOut(t) ==
  /\ ui[t].who # None
  /\ Pending("signout") = {}
  /\ mem' = [mem EXCEPT ![t] = None]
  /\ ui' = [ui EXCEPT ![t] = Nobody(@.status)]
  /\ calls' = Announced(t)
  /\ out' = IF flights = {} /\ Pending("signin") = {} THEN "clean" ELSE "spoiled"
  /\ UNCHANGED <<auth, cookie, flights, left, spender, mixed>>

\* A 401 makes request() force a refresh, once; a sign-out is not repeated.
Unauthorized(c) ==
  IF c.retry \/ c.kind = "signout"
  THEN Replace(c, [c EXCEPT !.at = "no"]) /\ UNCHANGED <<flights, out>>
  ELSE Replace(c, [c EXCEPT !.at = "again"]) /\ StartRefresh(c.tab)

\* The guard accepts an access token whose session is alive.
ServeCall(c) ==
  /\ c \in calls /\ c.at = "sent" /\ c.kind \in {"viewer", "edit"}
  /\ IF c.sess # None /\ auth[c.sess].live
     THEN Replace(c, [c EXCEPT !.at = "ok"]) /\ UNCHANGED <<flights, out>>
     ELSE Unauthorized(c)
  /\ UNCHANGED <<auth, cookie, mem, ui, left, spender, mixed>>

\* A wrong password is a 401 as well.
ServeSignIn(c) ==
  /\ c \in calls /\ c.at = "sent" /\ c.kind = "signin"
  /\ \/ \E s \in SessionIds :
          /\ auth[s] = NoSession /\ \A r \in 1..(s - 1) : auth[r] # NoSession
          /\ auth' = [auth EXCEPT ![s] = NewSession(c.user)]
          /\ Replace(c, [c EXCEPT !.at = "ok", !.sess = s])
          /\ UNCHANGED <<flights, left, out>>
     \/ Fault /\ Unauthorized(c) /\ UNCHANGED auth
  /\ UNCHANGED <<cookie, mem, ui, spender, mixed>>

\* The server spends the token of the cookie and throws the new one away.
ServeSignOut(c) ==
  /\ c \in calls /\ c.at = "sent" /\ c.kind = "signout"
  /\ IF Usable(c.tok) /\ c.tok.gen < MaxGen
     THEN /\ auth' = [auth EXCEPT ![c.tok.sess].gen = @ + 1]
          /\ spender' = [spender EXCEPT ![c.tok.sess] = "out"]
     ELSE UNCHANGED <<auth, spender>>
  /\ Replace(c, [c EXCEPT !.at = "ok"])
  /\ UNCHANGED <<cookie, mem, ui, flights, left, mixed, out>>

LoseCall(c) ==
  /\ Fault
  /\ c \in calls /\ c.at \in {"sent", "ok"}
  /\ Replace(c, [c EXCEPT !.at = "no"])
  /\ out' = IF c.kind = "signout" THEN "spoiled" ELSE out
  /\ UNCHANGED <<auth, cookie, mem, ui, flights, spender, mixed>>

\* updateProfile changes the context, which looks at the expiry it was set
\* with: an old one drops the user and the memory. Other pages change nothing.
Edited(c) ==
  /\ c.kind = "edit"
  /\ \/ /\ c.at = "ok" /\ ui[c.tab].old
        /\ ui' = [ui EXCEPT ![c.tab] = Nobody(@.status)]
        /\ mem' = [mem EXCEPT ![c.tab] = None]
     \/ UNCHANGED <<ui, mem>>
  /\ UNCHANGED <<cookie, mixed, out>>

\* Bug variant of Remembered: the memory keeps what it held, if it held one.
RememberedOld(t, s) == IF mem[t] = None THEN [sess |-> s, old |-> FALSE] ELSE mem[t]

Remembered(t, s) == [sess |-> s, old |-> FALSE]

SignedIn(c) ==
  /\ c.kind = "signin"
  /\ IF c.at = "ok"
     THEN /\ cookie' = [sess |-> c.sess, gen |-> 1]
          /\ mem' = [mem EXCEPT ![c.tab] = Remembered(c.tab, c.sess)]
          /\ ui' = [ui EXCEPT ![c.tab] =
                      Shown("ready", c.user, [sess |-> c.sess, old |-> FALSE])]
          /\ mixed' = (mixed \/ flights # {} \/ calls # {c}
                       \/ \E t \in Tabs \ {c.tab} : ui[t].who # None \/ mem[t] # None)
          /\ out' = IF Pending("signout") = {} THEN "in" ELSE "spoiled"
     ELSE UNCHANGED <<cookie, mem, ui, mixed, out>>

SignedOut(c) ==
  /\ c.kind = "signout"
  /\ cookie' = IF c.at = "ok" THEN None ELSE cookie
  /\ UNCHANGED <<mem, ui, mixed, out>>

DeliverCall(c) ==
  /\ c \in calls /\ c.at \in {"ok", "no"}
  /\ calls' = calls \ {c}
  /\ Booted(c) \/ Edited(c) \/ SignedIn(c) \/ SignedOut(c)
  /\ UNCHANGED <<auth, flights, left, spender>>
-----------------------------------------------------------------------------
\* Time passes: what a tab holds comes up for a refresh.
Age(t) ==
  /\ left.ages > 0
  /\ mem[t] # None
  /\ left' = [left EXCEPT !.ages = @ - 1]
  /\ mem' = [mem EXCEPT ![t].old = TRUE]
  /\ ui' = IF ui[t].who = None THEN ui ELSE [ui EXCEPT ![t].old = TRUE]
  /\ UNCHANGED <<auth, cookie, flights, calls, spender, mixed, out>>

\* Another device ends a session.
Revoke(s) ==
  /\ auth[s].live
  /\ Fault
  /\ auth' = [auth EXCEPT ![s].live = FALSE]
  /\ UNCHANGED <<cookie, mem, ui, flights, calls, spender, mixed, out>>

Next ==
  \/ \E f \in flights : ServeRefresh(f) \/ DeliverRefresh(f) \/ LoseRefresh(f)
  \/ \E t \in Tabs : \/ Load(t) \/ Edit(t) \/ SignOut(t) \/ Age(t)
                     \/ \E u \in Users : SignIn(t, u)
  \/ \E c \in calls : \/ ServeCall(c) \/ ServeSignIn(c) \/ ServeSignOut(c)
                      \/ LoseCall(c) \/ DeliverCall(c)
  \/ \E s \in SessionIds : Revoke(s)

Spec == Init /\ [][Next]_vars

\* Every fetch is served and delivered; a browser with no network throws.
Fairness ==
  /\ WF_vars(\E f \in flights : ServeRefresh(f) \/ DeliverRefresh(f))
  /\ WF_vars(\E c \in calls : ServeCall(c) \/ ServeSignIn(c) \/ ServeSignOut(c)
                              \/ DeliverCall(c))

FairSpec == Spec /\ Fairness
-----------------------------------------------------------------------------
\* A tab acts as the user it shows: the token its calls carry is that user's,
\* whatever refreshes, loads and sign-outs overlap, unless somebody signed in
\* while another tab had a user or a call was under way.
ActsAsShown ==
  \A t \in Tabs : (ui[t].who # None /\ mem[t] # None /\ ~mixed) =>
    auth[mem[t].sess].user = ui[t].who

\* "concurrent 401s must not each POST /auth/refresh with the same cookie": a
\* tab is not refused because of its own refresh, unless that one's answer
\* never arrived.
NeverRefusesItself ==
  [][\A f \in flights :
       (/\ f.at = "sent" /\ [f EXCEPT !.at = "no"] \in flights'
        /\ f.tok # None
        /\ auth[f.tok.sess].live /\ auth[f.tok.sess].gen = f.tok.gen + 1)
       => spender[f.tok.sess] # f.tab]_vars

\* A sign-out that reached the server, with no refresh, load or sign-in beside
\* it, leaves the browser signed out: no page it loads will restore the user.
SignedOutStaysOut ==
  (out = "clean" /\ Pending("signout") = {}) => ~Usable(cookie)

\* ensureSession returns "a usable access token [...] or null when there is no
\* live session": a page that restores its session ends up ready, whatever goes
\* wrong on the way.
BootAlwaysEnds ==
  \A t \in Tabs : (ui[t].status = "loading") ~> (ui[t].status = "ready")
=============================================================================
