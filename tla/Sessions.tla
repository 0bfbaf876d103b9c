------------------------------- MODULE Sessions -------------------------------
(***************************************************************************)
(* The sessions of one user: sign-in, refresh and sign-out                 *)
(* (backend/src/auth/auth.service.ts and its controller's cookie), the     *)
(* session ledger, revocation by the user and by an organization admin,    *)
(* password change and reset, and the security settings row                *)
(* (backend/src/security/security.service.ts). Every database or auth      *)
(* call is an action; nothing is locked between them.                      *)
(*                                                                         *)
(* The auth service is external. As the code uses it, a session has one    *)
(* current refresh token, refreshing with it replaces it and refreshing    *)
(* with any other is refused; a session that was deleted is gone. A token  *)
(* is named by its session and how many times that was refreshed.          *)
(***************************************************************************)
EXTENDS Naturals, FiniteSets, TLC

CONSTANTS
  SessionIds,  \* sessions the auth service can create
  Browsers,    \* browsers of the user, each with a cookie
  Addresses,   \* network addresses a request may come from
  Requests,    \* requests that can be made
  Keys,        \* columns of the settings row
  Admin,       \* the caller of a revocation that is not the user
  MaxOpen,     \* bound on the requests in progress
  Ops,         \* the operations requested, among AllOps
  Faults,      \* what may go wrong, among FaultKinds
  None         \* no value

AllOps == {"signin", "refresh", "signout", "revoke", "evict", "password",
           "reset", "setting"}

\* write, read: a database call fails; auth: a call to the auth service fails
\* and does nothing; lost: a call is done, or an answer sent, and the caller
\* does not learn of it.
FaultKinds == {"write", "read", "auth", "lost"}

ASSUME Constants ==
  /\ MaxOpen \in Nat \ {0}
  /\ Ops \subseteq AllOps
  /\ Faults \subseteq FaultKinds
  /\ Admin \notin Browsers
  /\ None \notin AllOps \cup SessionIds \cup Browsers \cup Addresses
                      \cup Requests \cup {Admin}
  /\ None \notin [Keys -> BOOLEAN]
  /\ None \notin [sess : SessionIds, gen : Nat]
  /\ None \notin [id : Requests, hash : Nat, on : Browsers \X Addresses]

VARIABLES
  auth,       \* the auth service: is the session alive, and its current token
  ledger,     \* user_sessions, by session
  controls,   \* the row of user_security_settings
  cookie,     \* the refresh cookie of each browser
  req,        \* the requests
  todo,       \* per request, the ledger rows it still has to revoke
  upd,        \* per request, the change of a setting it is making
  told,       \* surfaces audited as a new device, or whose audit or detection failed
  untracked,  \* history: sessions whose row a failure or a reset took away
  gone,       \* history: tokens whose sign-out was answered, no call failing
  ghosts,     \* history: sessions that died while a request was recording them
  batch       \* history: per request, the sessions it listed and had to spare

sessionVars == <<auth, ledger, cookie, todo, told, untracked, gone,
                 ghosts, batch>>
vars == <<auth, ledger, controls, cookie, req, todo, upd, told,
          untracked, gone, ghosts, batch>>
-----------------------------------------------------------------------------
Gens == 0..Cardinality(Requests)
Token == [sess : SessionIds, gen : Gens]
Surface == Browsers \X Addresses

\* A row's id is the request that inserted it: an upsert keeps it.
Row == [id : Requests, hash : Gens, on : Surface]
Controls == [Keys -> BOOLEAN]
Default == [k \in Keys |-> FALSE]

Places == {"idle", "sent", "minted", "checked", "alerting", "recorded",
           "burned", "dropped", "changed", "revoking", "loaded", "done"}
Req == [op : AllOps \cup {None}, at : Places, by : Browsers \cup {Admin, None},
        tok : Token \cup {None}, addr : Addresses \cup {None}, isNew : BOOLEAN]
Todo == [sess : SessionIds, id : Requests, killed : BOOLEAN]
Update == [key : Keys \cup {None}, val : BOOLEAN, cur : Controls, dirty : BOOLEAN]

TypeOK ==
  /\ auth \in [SessionIds -> [live : BOOLEAN, gen : Gens]]
  /\ ledger \in [SessionIds -> Row \cup {None}]
  /\ controls \in Controls \cup {None}
  /\ cookie \in [Browsers -> Token \cup {None}]
  /\ req \in [Requests -> Req]
  /\ todo \in [Requests -> SUBSET Todo]
  /\ upd \in [Requests -> Update]
  /\ told \subseteq Surface
  /\ untracked \subseteq SessionIds /\ ghosts \subseteq SessionIds
  /\ gone \subseteq Token
  /\ batch \in [Requests -> [seen : SUBSET SessionIds, spared : SUBSET SessionIds]]

Idle == [op |-> None, at |-> "idle", by |-> None, tok |-> None, addr |-> None,
         isNew |-> FALSE]
NoUpdate == [key |-> None, val |-> FALSE, cur |-> Default, dirty |-> FALSE]
NoBatch == [seen |-> {}, spared |-> {}]

Init ==
  /\ auth = [s \in SessionIds |-> [live |-> FALSE, gen |-> 0]]
  /\ ledger = [s \in SessionIds |-> None]
  /\ controls = None
  /\ cookie = [b \in Browsers |-> None]
  /\ req = [r \in Requests |-> Idle]
  /\ todo = [r \in Requests |-> {}]
  /\ upd = [r \in Requests |-> NoUpdate]
  /\ told = {} /\ untracked = {} /\ gone = {} /\ ghosts = {}
  /\ batch = [r \in Requests |-> NoBatch]

Listed == {s \in SessionIds : ledger[s] # None}
Usable(t) == t # None /\ auth[t.sess].live /\ auth[t.sess].gen = t.gen

InProgress == {r \in Requests : req[r].at \notin {"idle", "done"}}
Goto(r, place) == req' = [req EXCEPT ![r].at = place]

\* The request is answered, or fails; either way it is over.
Done(r) == req' = [req EXCEPT ![r] = [Idle EXCEPT !.at = "done"]]

\* A request arrives and goes to its first awaited call.
Open(r, op, b, t, a, place) ==
  /\ op \in Ops
  /\ req[r].at = "idle"
  /\ Cardinality(InProgress) < MaxOpen
  /\ req' = [req EXCEPT ![r] = [op |-> op, at |-> place, by |-> b, tok |-> t,
                                addr |-> a, isNew |-> FALSE]]

\* The guard: the caller's access token belongs to a session that is alive.
SignedIn(b) == cookie[b] # None /\ auth[cookie[b].sess].live
-----------------------------------------------------------------------------
(* Sign-in and refresh: a token is minted, the session recorded, and the   *)
(* answer sets the cookie.                                                 *)

SignIn(r, b, a, s) ==
  /\ auth[s].gen = 0
  /\ auth' = [auth EXCEPT ![s] = [live |-> TRUE, gen |-> 1]]
  /\ Open(r, "signin", b, [sess |-> s, gen |-> 1], a, "minted")
  /\ UNCHANGED <<ledger, controls, cookie, todo, upd, told, untracked,
                 gone, ghosts, batch>>

Refresh(r, b, a) ==
  /\ cookie[b] # None
  /\ Open(r, "refresh", b, cookie[b], a, "sent")
  /\ UNCHANGED <<sessionVars, controls, upd>>

\* The auth service replaces the token of a request.
Spend(t) == auth' = [auth EXCEPT ![t.sess].gen = @ + 1]

Rotate(r) ==
  LET t == req[r].tok IN
  /\ req[r].op = "refresh" /\ req[r].at = "sent"
  /\ \/ /\ Usable(t)
        /\ Spend(t)
        /\ \/ req' = [req EXCEPT ![r].at = "minted", ![r].tok.gen = @ + 1]
           \/ "lost" \in Faults /\ Done(r)
     \/ /\ ~Usable(t) \/ "auth" \in Faults
        /\ UNCHANGED auth
        /\ Done(r)
  /\ UNCHANGED <<ledger, controls, cookie, todo, upd, told, untracked,
                 gone, ghosts, batch>>

SurfaceOf(r) == <<req[r].by, req[r].addr>>

\* Bug variant of Known: the browser alone.
KnownBrowser(r) == \E s \in Listed : ledger[s].on[1] = req[r].by

Known(r) == \E s \in Listed : ledger[s].on = SurfaceOf(r)

\* isNewDeviceCombo: a failed read is "not new".
Detect(r) ==
  /\ req[r].at = "minted"
  /\ \/ /\ req' = [req EXCEPT ![r].at = "checked", ![r].isNew = ~Known(r)]
        /\ UNCHANGED told
     \/ /\ "read" \in Faults
        /\ req' = [req EXCEPT ![r].at = "checked", ![r].isNew = FALSE]
        /\ told' = told \cup {SurfaceOf(r)}
  /\ UNCHANGED <<auth, ledger, controls, cookie, todo, upd, untracked, gone,
                 ghosts, batch>>

\* Bug variant of Recorded: a row that exists is left as it is.
RecordedOnce(r, old) ==
  IF old = None THEN [id |-> r, hash |-> req[r].tok.gen, on |-> SurfaceOf(r)]
                ELSE old

Recorded(r, old) ==
  [id |-> IF old = None THEN r ELSE old.id,
   hash |-> req[r].tok.gen, on |-> SurfaceOf(r)]

\* recordSession: its error is ignored.
Upsert(r) ==
  LET s == req[r].tok.sess IN
  /\ req[r].at = "checked"
  /\ \/ /\ ledger' = [ledger EXCEPT ![s] = Recorded(r, @)]
        /\ untracked' = untracked \ {s}
     \/ /\ "write" \in Faults
        /\ untracked' = untracked \cup {s}
        /\ UNCHANGED ledger
  /\ Goto(r, IF req[r].isNew THEN "alerting" ELSE "recorded")
  /\ UNCHANGED <<auth, controls, cookie, todo, upd, told, gone, ghosts,
                 batch>>

\* handleNewDeviceSignIn: the audit row, best effort.
Alert(r) ==
  /\ req[r].at = "alerting"
  /\ told' = told \cup {SurfaceOf(r)}
  /\ Goto(r, "recorded")
  /\ UNCHANGED <<auth, ledger, controls, cookie, todo, upd, untracked, gone,
                 ghosts, batch>>

\* The viewer is read and the answer sets the cookie, if it gets there.
Answer(r) ==
  /\ req[r].at = "recorded"
  /\ \/ cookie' = [cookie EXCEPT ![req[r].by] = req[r].tok] /\ Done(r)
     \/ "lost" \in Faults /\ Done(r) /\ UNCHANGED cookie
  /\ UNCHANGED <<auth, ledger, controls, todo, upd, told, untracked,
                 gone, ghosts, batch>>
-----------------------------------------------------------------------------
(* Sign-out: the token is spent and its successor thrown away, the row     *)
(* with its hash is deleted, and the answer clears the cookie.             *)

SignOut(r, b) ==
  /\ Open(r, "signout", b, cookie[b], None,
          IF cookie[b] = None THEN "dropped" ELSE "sent")
  /\ UNCHANGED <<sessionVars, controls, upd>>

\* Bug variant of Burn: the token is not spent.
BurnNothing(r) ==
  /\ req[r].op = "signout" /\ req[r].at = "sent"
  /\ Goto(r, "burned")
  /\ UNCHANGED <<sessionVars, controls, upd>>

Burn(r) ==
  LET t == req[r].tok IN
  /\ req[r].op = "signout" /\ req[r].at = "sent"
  /\ \/ Usable(t) /\ Spend(t) /\ UNCHANGED untracked
     \/ /\ ~Usable(t)
        /\ UNCHANGED <<auth, untracked>>
     \/ /\ "auth" \in Faults
        /\ untracked' = untracked \cup {t.sess}
        /\ UNCHANGED auth
  /\ Goto(r, "burned")
  /\ UNCHANGED <<ledger, controls, cookie, todo, upd, told, gone,
                 ghosts, batch>>

\* deleteSessionByRefreshHash: its error is ignored.
Drop(r) ==
  LET t == req[r].tok IN
  /\ req[r].at = "burned"
  /\ \/ /\ ledger' = [s \in SessionIds |->
             IF s = t.sess /\ s \in Listed /\ ledger[s].hash = t.gen
             THEN None ELSE ledger[s]]
        /\ gone' = IF t.sess \in untracked THEN gone ELSE gone \cup {t}
     \/ "write" \in Faults /\ UNCHANGED <<ledger, gone>>
  /\ Goto(r, "dropped")
  /\ UNCHANGED <<auth, controls, cookie, todo, upd, told, untracked,
                 ghosts, batch>>

Cleared(r) ==
  /\ req[r].at = "dropped"
  /\ \/ cookie' = [cookie EXCEPT ![req[r].by] = None] /\ Done(r)
     \/ "lost" \in Faults /\ Done(r) /\ UNCHANGED cookie
  /\ UNCHANGED <<auth, ledger, controls, todo, upd, told, untracked,
                 gone, ghosts, batch>>
-----------------------------------------------------------------------------
(* Revocation, one row or a list of rows: the auth session is deleted,     *)
(* then the row, by its id.                                                *)

Work(s) == [sess |-> s, id |-> ledger[s].id, killed |-> FALSE]

HasRow(w) == w.sess \in Listed /\ ledger[w.sess].id = w.id

\* The caller's own session is off limits; an admin has none of this user's.
Own(b) == IF b = Admin THEN {} ELSE {cookie[b].sess}

\* revokeSession and revokeSessionForUser.
Revoke(r, b, s) ==
  /\ b # Admin => SignedIn(b)
  /\ s \in Listed \ Own(b)
  /\ Open(r, "revoke", b, None, None, "revoking")
  /\ todo' = [todo EXCEPT ![r] = {Work(s)}]
  /\ batch' = [batch EXCEPT ![r].seen = {s}]
  /\ UNCHANGED <<auth, ledger, controls, cookie, upd, told, untracked,
                 gone, ghosts>>

\* revokeMemberSessions has resolved the member and lists the sessions next.
Evict(r) ==
  /\ Open(r, "evict", Admin, None, None, "changed")
  /\ UNCHANGED <<sessionVars, controls, upd>>

\* changePassword has verified the old password and stored the new one.
ChangePassword(r, b) ==
  /\ SignedIn(b)
  /\ Open(r, "password", b, cookie[b], None, "changed")
  /\ UNCHANGED <<sessionVars, controls, upd>>

Current(r) == IF req[r].tok = None THEN {} ELSE {req[r].tok.sess}

ListOthers(r) ==
  /\ req[r].op \in {"evict", "password"} /\ req[r].at = "changed"
  /\ \/ /\ todo' = [todo EXCEPT ![r] = {Work(s) : s \in Listed \ Current(r)}]
        /\ batch' = [batch EXCEPT ![r].seen = Listed \ Current(r)]
        /\ Goto(r, "revoking")
     \/ "read" \in Faults /\ Done(r) /\ UNCHANGED <<todo, batch>>
  /\ UNCHANGED <<auth, ledger, controls, cookie, upd, told, untracked,
                 gone, ghosts>>

\* An organization admin's batch takes one session after the other.
Turn(r, w) == req[r].op = "evict" => \A v \in todo[r] : ~v.killed

Recording(s) == \E r \in InProgress : /\ req[r].at \in {"minted", "checked"}
                                      /\ req[r].tok.sess = s

\* A request is recording the session, or has recorded it under another id.
Overlapped(w) == Recording(w.sess) \/ (w.sess \in Listed /\ ~HasRow(w))

Skip(r, w) == todo' = [todo EXCEPT ![r] = @ \ {w}]

\* DELETE of the auth session; one that is gone already counts as revoked.
Kill(r, w) ==
  /\ w \in todo[r] /\ ~w.killed /\ Turn(r, w)
  /\ \/ /\ auth' = [auth EXCEPT ![w.sess].live = FALSE]
        /\ \/ /\ todo' = [todo EXCEPT ![r] = (@ \ {w}) \cup
                                              {[w EXCEPT !.killed = TRUE]}]
              /\ ghosts' = IF Overlapped(w) THEN ghosts \cup {w.sess} ELSE ghosts
              /\ UNCHANGED batch
           \/ /\ "lost" \in Faults
              /\ Skip(r, w)
              /\ ghosts' = ghosts \cup {w.sess}
              /\ batch' = [batch EXCEPT ![r].spared = @ \cup {w.sess}]
     \/ /\ "auth" \in Faults
        /\ Skip(r, w)
        /\ batch' = [batch EXCEPT ![r].spared = @ \cup {w.sess}]
        /\ UNCHANGED <<auth, ghosts>>
  /\ UNCHANGED <<ledger, controls, cookie, req, upd, told, untracked, gone>>

\* The row has left the ledger since it was listed: 404, the auth session is
\* not touched.
Vanished(r, w) ==
  /\ w \in todo[r] /\ ~w.killed /\ Turn(r, w)
  /\ req[r].op # "revoke"
  /\ ~HasRow(w)
  /\ Skip(r, w)
  /\ batch' = [batch EXCEPT ![r].spared = @ \cup {w.sess}]
  /\ UNCHANGED <<auth, ledger, controls, cookie, req, upd, told,
                 untracked, gone, ghosts>>

\* Bug variant of DropRow: the auth session is deleted, its row forgotten.
DropNoRow(r, w) ==
  /\ w \in todo[r] /\ w.killed
  /\ Skip(r, w)
  /\ UNCHANGED <<auth, ledger, controls, cookie, req, upd, told,
                 untracked, gone, ghosts, batch>>

DropRow(r, w) ==
  /\ w \in todo[r] /\ w.killed
  /\ Skip(r, w)
  /\ \/ /\ ledger' = [ledger EXCEPT ![w.sess] =
                        IF HasRow(w) THEN None ELSE @]
        /\ UNCHANGED ghosts
     \/ /\ "write" \in Faults
        /\ ghosts' = ghosts \cup {w.sess}
        /\ UNCHANGED ledger
  /\ UNCHANGED <<auth, controls, cookie, req, upd, told, untracked,
                 gone, batch>>

\* Bug variant of AllSettled: the revocations are not awaited.
NotAwaited(r) == TRUE

AllSettled(r) == todo[r] = {}

Revoked(r) ==
  /\ req[r].at = "revoking"
  /\ AllSettled(r)
  /\ Done(r)
  /\ batch' = [batch EXCEPT ![r] = NoBatch]
  /\ UNCHANGED <<auth, ledger, controls, cookie, todo, upd, told,
                 untracked, gone, ghosts>>
-----------------------------------------------------------------------------
(* confirmPasswordReset: the password is set by a recovery token, which    *)
(* may end the user's sessions or not; then the ledger is wiped.           *)

Alive == {s \in SessionIds : auth[s].live}

Reset(r, ended) ==
  /\ ended \in {{}, Alive}
  /\ Open(r, "reset", None, None, None, "changed")
  /\ auth' = [s \in SessionIds |-> IF s \in ended THEN [auth[s] EXCEPT !.live = FALSE]
                                                  ELSE auth[s]]
  /\ ghosts' = ghosts \cup ended
  /\ UNCHANGED <<ledger, controls, cookie, todo, upd, told, untracked,
                 gone, batch>>

Wipe(r) ==
  /\ req[r].op = "reset" /\ req[r].at = "changed"
  /\ \/ /\ ledger' = [s \in SessionIds |-> None]
        /\ untracked' = untracked \cup Alive
     \/ "write" \in Faults /\ UNCHANGED <<ledger, untracked>>
  /\ Done(r)
  /\ UNCHANGED <<auth, controls, cookie, todo, upd, told, gone, ghosts,
                 batch>>
-----------------------------------------------------------------------------
(* updateSetting reads every control, changes one and writes them all.     *)

Stored == IF controls = None THEN Default ELSE controls

LoadControls(r, b, k, v) ==
  /\ SignedIn(b)
  /\ Open(r, "setting", b, None, None, "loaded")
  /\ \/ upd' = [upd EXCEPT ![r] = [key |-> k, val |-> v, cur |-> Stored,
                                   dirty |-> FALSE]]
     \/ /\ "read" \in Faults
        /\ upd' = [upd EXCEPT ![r] = [key |-> k, val |-> v, cur |-> Default,
                                      dirty |-> TRUE]]
  /\ UNCHANGED <<sessionVars, controls>>

\* Bug variants of Changed: over the defaults; the changed column alone.
ChangedFromDefaults(u) == [Default EXCEPT ![u.key] = u.val]
ChangedColumn(u) == u.key :> u.val

Changed(u) == [u.cur EXCEPT ![u.key] = u.val]

SaveControls(r) ==
  /\ req[r].at = "loaded"
  /\ \/ /\ controls' = Changed(upd[r])
        /\ upd' = [q \in Requests |-> IF q = r THEN NoUpdate
                       ELSE IF req[q].at = "loaded" THEN [upd[q] EXCEPT !.dirty = TRUE]
                       ELSE upd[q]]
     \/ /\ "write" \in Faults
        /\ upd' = [upd EXCEPT ![r] = NoUpdate]
        /\ UNCHANGED controls
  /\ Done(r)
  /\ UNCHANGED sessionVars
-----------------------------------------------------------------------------
Arrive(r) ==
  \/ \E b \in Browsers :
       \/ \E a \in Addresses : Refresh(r, b, a) \/ \E s \in SessionIds : SignIn(r, b, a, s)
       \/ SignOut(r, b)
       \/ ChangePassword(r, b)
       \/ \E k \in Keys, v \in BOOLEAN : LoadControls(r, b, k, v)
  \/ \E b \in Browsers \cup {Admin}, s \in SessionIds : Revoke(r, b, s)
  \/ Evict(r)
  \/ \E ended \in SUBSET SessionIds : Reset(r, ended)

Proceed(r) ==
  \/ Rotate(r) \/ Detect(r) \/ Upsert(r) \/ Alert(r) \/ Answer(r)
  \/ Burn(r) \/ Drop(r) \/ Cleared(r)
  \/ ListOthers(r)
  \/ \E w \in todo[r] : Kill(r, w) \/ Vanished(r, w) \/ DropRow(r, w)
  \/ Revoked(r) \/ Wipe(r) \/ SaveControls(r)

Next == \E r \in Requests : Arrive(r) \/ Proceed(r)

Spec == Init /\ [][Next]_vars
-----------------------------------------------------------------------------
\* The Security page is complete: a browser that could refresh its session now
\* finds that session in the list, under the hash by which its sign-out will
\* delete it, unless a ledger write failed or a reset wiped the list.
ActiveDeviceIsListed ==
  \A b \in Browsers : LET t == cookie[b] IN
    (Usable(t) /\ t.sess \notin untracked) =>
      t.sess \in Listed /\ ledger[t.sess].hash = t.gen

\* A sign-out whose calls worked is final: whatever refreshes and revocations
\* overlapped it, its token is never again accepted nor recorded.
SignedOutIsGone ==
  \A t \in gone : ~Usable(t) /\ ~(t.sess \in Listed /\ ledger[t.sess].hash = t.gen)

\* The list shows no dead session, except one whose revocation or reset failed
\* half-way or overlapped a request that was recording that very session.
ListedIsLive ==
  \A s \in Listed : \/ auth[s].live
                    \/ s \in ghosts
                    \/ \E r \in Requests : \E w \in todo[r] :
                         w.killed /\ w.sess = s /\ HasRow(w)

\* Every surface in the list was announced as a new device, or is about to be,
\* unless its detection or its audit failed: two first sign-ins at once, a
\* refresh from another address and rows that come and go included.
NewDeviceIsAlerted ==
  \A s \in Listed : \/ ledger[s].on \in told
                    \/ \E r \in Requests : /\ req[r].at = "alerting"
                                           /\ SurfaceOf(r) = ledger[s].on

\* "Other active sessions have been signed out": once a revocation or a password
\* change is answered, every session it listed is dead, unless its own
\* deletion failed or its row had left the ledger.
AnsweredMeansEvicted ==
  [][\A r \in Requests : (req[r].at = "revoking" /\ req'[r].at = "done") =>
       \A s \in batch[r].seen \ batch[r].spared : ~auth[s].live]_vars

\* A saved change leaves every other setting alone, unless another save came
\* between its read and its write, or its read failed.
SettingsLostOnlyToOverlap ==
  [][\A k \in Keys : Stored'[k] # Stored[k] =>
       \E r \in Requests : /\ req[r].at = "loaded" /\ req'[r].at = "done"
                           /\ upd[r].key = k \/ upd[r].dirty]_vars
=============================================================================
