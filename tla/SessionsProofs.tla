---------------------------- MODULE SessionsProofs ----------------------------
(***************************************************************************)
(* Proofs about Sessions for any sessions, browsers, addresses, requests,  *)
(* settings and faults, and any number of requests in progress.            *)
(***************************************************************************)
EXTENDS Sessions, FiniteSetTheorems, TLAPS

(* TypeOK bounds the generation of a token by the number of requests; here *)
(* a generation is any natural number.                                     *)
Tok == [sess : SessionIds, gen : Nat]
LedgerRow == [id : Requests, hash : Nat, on : Surface]
Request ==
  {q \in [op : AllOps \cup {None}, at : Places, by : Browsers \cup {Admin, None},
          tok : Tok \cup {None}, addr : Addresses \cup {None}, isNew : BOOLEAN] :
     q.op \in {"signin", "refresh"} => q.by \in Browsers /\ q.addr \in Addresses}

Types ==
  /\ auth \in [SessionIds -> [live : BOOLEAN, gen : Nat]]
  /\ ledger \in [SessionIds -> LedgerRow \cup {None}]
  /\ controls \in Controls \cup {None}
  /\ cookie \in [Browsers -> Tok \cup {None}]
  /\ req \in [Requests -> Request]
  /\ todo \in [Requests -> SUBSET Todo]
  /\ upd \in [Requests -> Update]
  /\ told \subseteq Surface
  /\ untracked \subseteq SessionIds /\ ghosts \subseteq SessionIds
  /\ gone \subseteq Tok
  /\ batch \in [Requests -> [seen : SUBSET SessionIds, spared : SUBSET SessionIds]]

(* A request with a token it has minted and not yet handed out. *)
Minting(r) == req[r].at \in {"minted", "checked", "alerting", "recorded"}

MintingOK ==
  \A r \in Requests : Minting(r) =>
    /\ req[r].op \in {"signin", "refresh"} /\ req[r].tok \in Tok
    /\ req[r].tok.gen = auth[req[r].tok.sess].gen
    /\ req[r].tok.gen > 0

(* One at a time mints a token of a session ... *)
OneMints ==
  \A r, q \in Requests :
    (Minting(r) /\ Minting(q) /\ req[r].tok.sess = req[q].tok.sess) => r = q

(* ... and whatever was handed out before is then no longer usable. *)
Old(t) ==
  /\ t.gen <= auth[t.sess].gen
  /\ \A r \in Requests : (Minting(r) /\ req[r].tok.sess = t.sess)
       => t.gen < auth[t.sess].gen

HandedOut ==
  /\ \A b \in Browsers : cookie[b] # None => Old(cookie[b])
  /\ \A r \in Requests : req[r].at \in {"sent", "burned"} =>
       req[r].tok \in Tok /\ Old(req[r].tok)
  /\ \A t \in gone : Old(t)

Tokens == MintingOK /\ OneMints /\ HandedOut
-----------------------------------------------------------------------------
LEMMA IdleIsRequest ==
  Idle \in Request /\ [Idle EXCEPT !.at = "done"] \in Request
BY Constants DEF Idle, Request, Places, AllOps

LEMMA InitTypes == Init => Types
<1> USE Constants DEF Init, Idle, NoUpdate, NoBatch, Default, Controls
<1> SUFFICES ASSUME Init PROVE Types
  OBVIOUS
<1>1. /\ auth \in [SessionIds -> [live : BOOLEAN, gen : Nat]]
      /\ ledger \in [SessionIds -> LedgerRow \cup {None}]
      /\ controls \in Controls \cup {None}
      /\ cookie \in [Browsers -> Tok \cup {None}]
  OBVIOUS
<1>2. req \in [Requests -> Request]
  BY IdleIsRequest DEF Idle
<1>3. /\ todo \in [Requests -> SUBSET Todo]
      /\ upd \in [Requests -> Update]
  BY DEF Update
<1>4. batch \in [Requests -> [seen : SUBSET SessionIds, spared : SUBSET SessionIds]]
  OBVIOUS
<1> QED
  BY <1>1, <1>2, <1>3, <1>4 DEF Types

\* What a request becomes when it arrives, moves on or ends.
LEMMA OpenTypes ==
  ASSUME Types, NEW r \in Requests, NEW op, NEW b \in Browsers \cup {Admin, None},
         NEW t \in Tok \cup {None}, NEW a \in Addresses \cup {None},
         NEW place \in Places, Open(r, op, b, t, a, place),
         op \in {"signin", "refresh"} => b \in Browsers /\ a \in Addresses
  PROVE  req' \in [Requests -> Request]
BY Constants DEF Types, Open, Request, AllOps

LEMMA GotoTypes ==
  ASSUME Types, NEW r \in Requests, NEW place \in Places, Goto(r, place)
  PROVE  req' \in [Requests -> Request]
BY DEF Types, Goto, Request

LEMMA DoneTypes ==
  ASSUME Types, NEW r \in Requests, Done(r)
  PROVE  req' \in [Requests -> Request]
BY IdleIsRequest DEF Types, Done

LEMMA DetectedTypes ==
  ASSUME NEW f \in [Requests -> Request], NEW r \in Requests, NEW n \in BOOLEAN
  PROVE  [f EXCEPT ![r].at = "checked", ![r].isNew = n] \in [Requests -> Request]
<1>1. f[r] \in Request
  OBVIOUS
<1>2. [f[r] EXCEPT !.at = "checked", !.isNew = n] \in Request
  BY <1>1 DEF Request, Places
<1> QED
  BY <1>2, Zenon

LEMMA EndedTypes ==
  ASSUME NEW a \in [SessionIds -> [live : BOOLEAN, gen : Nat]], NEW s \in SessionIds
  PROVE  [a EXCEPT ![s].live = FALSE] \in [SessionIds -> [live : BOOLEAN, gen : Nat]]
OBVIOUS

\* The actions by which a request arrives.
LEMMA ArriveTypes ==
  ASSUME Types, NEW r \in Requests, Arrive(r) PROVE Types'
<1> USE DEF Types
<1>1. ASSUME NEW b \in Browsers, NEW a \in Addresses, Refresh(r, b, a) PROVE Types'
  <2>1. req' \in [Requests -> Request]
    BY <1>1, OpenTypes DEF Refresh, Places
  <2> QED
    BY <1>1, <2>1 DEF Refresh, sessionVars
<1>2. ASSUME NEW b \in Browsers, NEW a \in Addresses, NEW s \in SessionIds,
             SignIn(r, b, a, s)
      PROVE  Types'
  <2>1. [sess |-> s, gen |-> 1] \in Tok
    BY DEF Tok
  <2>2. req' \in [Requests -> Request]
    BY <1>2, <2>1, OpenTypes DEF SignIn, Places
  <2>3. auth' \in [SessionIds -> [live : BOOLEAN, gen : Nat]]
    BY <1>2 DEF SignIn
  <2> QED
    BY <1>2, <2>2, <2>3 DEF SignIn
<1>3. ASSUME NEW b \in Browsers, SignOut(r, b) PROVE Types'
  <2>1. req' \in [Requests -> Request]
    BY <1>3, OpenTypes DEF SignOut, Places
  <2> QED
    BY <1>3, <2>1 DEF SignOut, sessionVars
<1>4. ASSUME NEW b \in Browsers, ChangePassword(r, b) PROVE Types'
  <2>1. req' \in [Requests -> Request]
    BY <1>4, OpenTypes DEF ChangePassword, Places
  <2> QED
    BY <1>4, <2>1 DEF ChangePassword, sessionVars
<1>5. ASSUME NEW b \in Browsers, NEW k \in Keys, NEW v \in BOOLEAN,
             LoadControls(r, b, k, v)
      PROVE  Types'
  <2>1. req' \in [Requests -> Request]
    BY <1>5, OpenTypes DEF LoadControls, Places
  <2>2. Stored \in Controls /\ Default \in Controls
    BY DEF Stored, Default, Controls
  <2>3. PICK c \in Controls, d \in BOOLEAN :
          upd' = [upd EXCEPT ![r] = [key |-> k, val |-> v, cur |-> c, dirty |-> d]]
    BY <1>5, <2>2 DEF LoadControls
  <2>4. [key |-> k, val |-> v, cur |-> c, dirty |-> d] \in Update
    BY DEF Update
  <2>5. upd' \in [Requests -> Update]
    BY <2>3, <2>4
  <2> QED
    BY <1>5, <2>1, <2>5 DEF LoadControls, sessionVars
<1>6. ASSUME NEW b \in Browsers \cup {Admin}, NEW s \in SessionIds, Revoke(r, b, s)
      PROVE  Types'
  <2>1. req' \in [Requests -> Request]
    BY <1>6, OpenTypes DEF Revoke, Places
  <2>2. Work(s) \in Todo
    BY <1>6 DEF Revoke, Listed, Work, Todo, LedgerRow
  <2>3. todo' \in [Requests -> SUBSET Todo]
    BY <1>6, <2>2 DEF Revoke
  <2>4. batch' \in [Requests -> [seen : SUBSET SessionIds, spared : SUBSET SessionIds]]
    BY <1>6 DEF Revoke
  <2> QED
    BY <1>6, <2>1, <2>3, <2>4 DEF Revoke
<1>7. CASE Evict(r)
  <2>1. req' \in [Requests -> Request]
    BY <1>7, OpenTypes DEF Evict, Places
  <2> QED
    BY <1>7, <2>1 DEF Evict, sessionVars
<1>8. ASSUME NEW ended \in SUBSET SessionIds, Reset(r, ended) PROVE Types'
  <2>1. req' \in [Requests -> Request]
    BY <1>8, OpenTypes DEF Reset, Places
  <2>2. auth' \in [SessionIds -> [live : BOOLEAN, gen : Nat]]
    BY <1>8 DEF Reset
  <2> QED
    BY <1>8, <2>1, <2>2 DEF Reset
<1> HIDE DEF Types
<1> QED
  BY <1>1, <1>2, <1>3, <1>4, <1>5, <1>6, <1>7, <1>8 DEF Arrive

\* The actions by which it goes on.
LEMMA ProceedTypes ==
  ASSUME Types, MintingOK, HandedOut, NEW r \in Requests, Proceed(r) PROVE Types'
<1> USE DEF Types
<1>0. /\ Minting(r) => SurfaceOf(r) \in Surface
      /\ \A b \in Browsers : cookie[b] \in Tok \cup {None}
  BY DEF MintingOK, SurfaceOf, Surface, Request
<1>1. CASE Rotate(r)
  <2>1. req[r].tok \in Tok
    BY <1>1 DEF Rotate, HandedOut
  <2>2. auth' \in [SessionIds -> [live : BOOLEAN, gen : Nat]]
    BY <1>1, <2>1 DEF Rotate, Spend, Tok
  <2>3. req' \in [Requests -> Request]
    <3>1. CASE req' = [req EXCEPT ![r].at = "minted", ![r].tok.gen = @ + 1]
      BY <2>1, <3>1 DEF Request, Tok, Places
    <3>2. CASE Done(r)
      BY <3>2, DoneTypes
    <3> QED
      BY <1>1, <3>1, <3>2 DEF Rotate
  <2> QED
    BY <1>1, <2>2, <2>3 DEF Rotate
<1>2. CASE Detect(r)
  <2>1. req' \in [Requests -> Request]
    <3>1. PICK n \in BOOLEAN :
            req' = [req EXCEPT ![r].at = "checked", ![r].isNew = n]
      BY <1>2 DEF Detect, Known
    <3> QED
      BY <3>1, DetectedTypes
  <2>2. told' \subseteq Surface
    BY <1>0, <1>2 DEF Detect, Minting
  <2> QED
    BY <1>2, <2>1, <2>2 DEF Detect
<1>3. CASE Upsert(r)
  <2>1. req' \in [Requests -> Request]
    BY <1>3, GotoTypes DEF Upsert, Places
  <2>2. req[r].tok \in Tok
    BY <1>3 DEF Upsert, Minting, MintingOK
  <2>3. ledger' \in [SessionIds -> LedgerRow \cup {None}]
    <3>1. Recorded(r, ledger[req[r].tok.sess]) \in LedgerRow
      BY <1>0, <1>3, <2>2 DEF Upsert, Minting, Recorded, LedgerRow, Tok
    <3> QED
      BY <1>3, <2>2, <3>1 DEF Upsert, Tok
  <2>4. untracked' \subseteq SessionIds
    BY <1>3, <2>2 DEF Upsert, Tok
  <2> QED
    BY <1>3, <2>1, <2>3, <2>4 DEF Upsert
<1>4. CASE Alert(r)
  <2>1. req' \in [Requests -> Request]
    BY <1>4, GotoTypes DEF Alert, Places
  <2> QED
    BY <1>0, <1>4, <2>1 DEF Alert, Minting
<1>5. CASE Answer(r)
  <2>1. req' \in [Requests -> Request]
    BY <1>5, DoneTypes DEF Answer
  <2>2. cookie' \in [Browsers -> Tok \cup {None}]
    BY <1>5 DEF Answer, Minting, MintingOK, Request
  <2> QED
    BY <1>5, <2>1, <2>2 DEF Answer
<1>6. CASE Burn(r)
  <2>1. req' \in [Requests -> Request] /\ req[r].tok \in Tok
    BY <1>6, GotoTypes DEF Burn, Places, HandedOut
  <2>2. auth' \in [SessionIds -> [live : BOOLEAN, gen : Nat]]
    <3>1. Spend(req[r].tok) \/ UNCHANGED auth
      BY <1>6 DEF Burn
    <3> QED
      BY <2>1, <3>1 DEF Spend, Tok
  <2>3. untracked' \subseteq SessionIds
    BY <1>6, <2>1 DEF Burn, Tok
  <2> QED
    BY <1>6, <2>1, <2>2, <2>3 DEF Burn
<1>7. CASE Drop(r)
  <2>1. req' \in [Requests -> Request] /\ req[r].tok \in Tok
    BY <1>7, GotoTypes DEF Drop, Places, HandedOut
  <2>2. ledger' \in [SessionIds -> LedgerRow \cup {None}]
    BY <1>7 DEF Drop
  <2>3. gone' \subseteq Tok
    BY <1>7, <2>1 DEF Drop
  <2> QED
    BY <1>7, <2>1, <2>2, <2>3 DEF Drop
<1>8. CASE Cleared(r)
  <2>1. req' \in [Requests -> Request]
    BY <1>8, DoneTypes DEF Cleared
  <2>2. cookie' \in [Browsers -> Tok \cup {None}]
    BY <1>8 DEF Cleared
  <2> QED
    BY <1>8, <2>1, <2>2 DEF Cleared
<1>9. CASE ListOthers(r)
  <2>1. req' \in [Requests -> Request]
    BY <1>9, GotoTypes, DoneTypes DEF ListOthers, Places
  <2>2. \A s \in Listed : Work(s) \in Todo
    BY DEF Listed, Work, Todo, LedgerRow
  <2>3. todo' \in [Requests -> SUBSET Todo]
    BY <1>9, <2>2 DEF ListOthers
  <2>4. batch' \in [Requests -> [seen : SUBSET SessionIds, spared : SUBSET SessionIds]]
    <3>1. Listed \ Current(r) \in SUBSET SessionIds
      BY DEF Listed
    <3> QED
      BY <1>9, <3>1 DEF ListOthers
  <2> QED
    BY <1>9, <2>1, <2>3, <2>4 DEF ListOthers
<1>10. ASSUME NEW w \in todo[r], Kill(r, w) \/ Vanished(r, w) \/ DropRow(r, w)
       PROVE  Types'
  <2>0. w \in Todo
    OBVIOUS
  <2>1. w.sess \in SessionIds /\ [w EXCEPT !.killed = TRUE] \in Todo
    BY <2>0 DEF Todo
  <2>2. auth' \in [SessionIds -> [live : BOOLEAN, gen : Nat]]
    <3>1. auth' = [auth EXCEPT ![w.sess].live = FALSE] \/ UNCHANGED auth
      BY <1>10 DEF Kill, Vanished, DropRow
    <3> QED
      BY <2>1, <3>1, EndedTypes
  <2>3. todo' \in [Requests -> SUBSET Todo]
    <3>1. Skip(r, w) \/ todo' = [todo EXCEPT ![r] = (@ \ {w}) \cup
                                                   {[w EXCEPT !.killed = TRUE]}]
      BY <1>10 DEF Kill, Vanished, DropRow
    <3> DEFINE v == [w EXCEPT !.killed = TRUE]
    <3>2. v \in Todo /\ (Skip(r, w) \/ todo' = [todo EXCEPT ![r] = (@ \ {w}) \cup {v}])
      BY <2>1, <3>1
    <3> HIDE DEF v
    <3> QED
      BY <3>2 DEF Skip
  <2>4. ledger' \in [SessionIds -> LedgerRow \cup {None}]
    BY <1>10, <2>1 DEF Kill, Vanished, DropRow
  <2>5. ghosts' \subseteq SessionIds
    BY <1>10, <2>1 DEF Kill, Vanished, DropRow
  <2>6. batch' \in [Requests -> [seen : SUBSET SessionIds, spared : SUBSET SessionIds]]
    <3>1. UNCHANGED batch \/ batch' = [batch EXCEPT ![r].spared = @ \cup {w.sess}]
      BY <1>10 DEF Kill, Vanished, DropRow
    <3> QED
      BY <2>1, <3>1
  <2> QED
    BY <1>10, <2>2, <2>3, <2>4, <2>5, <2>6 DEF Kill, Vanished, DropRow
<1>11. CASE Revoked(r)
  <2>1. req' \in [Requests -> Request]
    BY <1>11, DoneTypes DEF Revoked
  <2>2. batch' \in [Requests -> [seen : SUBSET SessionIds, spared : SUBSET SessionIds]]
    BY <1>11 DEF Revoked, NoBatch
  <2> QED
    BY <1>11, <2>1, <2>2 DEF Revoked
<1>12. CASE Wipe(r)
  <2>1. req' \in [Requests -> Request]
    BY <1>12, DoneTypes DEF Wipe
  <2>2. ledger' \in [SessionIds -> LedgerRow \cup {None}] /\ untracked' \subseteq SessionIds
    BY <1>12 DEF Wipe, Alive
  <2> QED
    BY <1>12, <2>1, <2>2 DEF Wipe
<1>13. CASE SaveControls(r)
  <2>1. req' \in [Requests -> Request]
    BY <1>13, DoneTypes DEF SaveControls
  <2>2. Changed(upd[r]) \in Controls
    BY DEF Changed, Update, Controls
  <2>3. NoUpdate \in Update
    BY DEF NoUpdate, Update, Default, Controls
  <2>4. upd' \in [Requests -> Update]
    <3>1. \A q \in Requests : [upd[q] EXCEPT !.dirty = TRUE] \in Update
      BY DEF Update
    <3>2. CASE upd' = [upd EXCEPT ![r] = NoUpdate]
      BY <2>3, <3>2
    <3>3. CASE upd' = [q \in Requests |-> IF q = r THEN NoUpdate
                        ELSE IF req[q].at = "loaded" THEN [upd[q] EXCEPT !.dirty = TRUE]
                        ELSE upd[q]]
      BY <2>3, <3>1, <3>3
    <3> QED
      BY <1>13, <3>2, <3>3 DEF SaveControls
  <2> QED
    BY <1>13, <2>1, <2>2, <2>4 DEF SaveControls, sessionVars
<1> QED
  BY <1>1, <1>2, <1>3, <1>4, <1>5, <1>6, <1>7, <1>8, <1>9, <1>10, <1>11, <1>12,
     <1>13 DEF Proceed
-----------------------------------------------------------------------------
\* Steps that mint nothing and hand out only what is old: the generation of a
\* session grows only when nobody is minting a token of it.
LEMMA TokensFrame ==
  ASSUME Types, Types', Tokens,
         \A s \in SessionIds : auth'[s].gen >= auth[s].gen,
         \A q \in Requests : Minting(q)' =>
           /\ Minting(q)
           /\ req'[q].tok = req[q].tok /\ req'[q].op = req[q].op
           /\ auth'[req[q].tok.sess].gen = auth[req[q].tok.sess].gen,
         \A b \in Browsers : cookie'[b] # None => Old(cookie'[b]),
         \A q \in Requests : req'[q].at \in {"sent", "burned"} =>
           req'[q].tok \in Tok /\ Old(req'[q].tok),
         \A t \in gone' : Old(t)
  PROVE  Tokens'
<1>1. MintingOK'
  BY DEF Tokens, MintingOK
<1>2. OneMints'
  BY DEF Tokens, OneMints
<1>3. ASSUME NEW t \in Tok, Old(t) PROVE Old(t)'
  <2>1. t.sess \in SessionIds /\ t.gen \in Nat
    BY DEF Tok
  <2>2. auth[t.sess].gen \in Nat /\ auth'[t.sess].gen \in Nat
    BY <2>1 DEF Types
  <2> QED
    BY <1>3, <2>1, <2>2 DEF Old
<1>4. HandedOut'
  BY <1>3 DEF HandedOut, Types
<1> QED
  BY <1>1, <1>2, <1>4 DEF Tokens

LEMMA ArriveTokens ==
  ASSUME Types, Tokens, NEW r \in Requests, Arrive(r) PROVE Tokens'
<1>0. Types'
  BY ArriveTypes
<1>1. ASSUME NEW b \in Browsers, NEW a \in Addresses, NEW s \in SessionIds,
             SignIn(r, b, a, s)
      PROVE  Tokens'
  <2> DEFINE new == [sess |-> s, gen |-> 1]
  <2>1. /\ auth[s].gen = 0 /\ auth' = [auth EXCEPT ![s] = [live |-> TRUE, gen |-> 1]]
        /\ req' = [req EXCEPT ![r] = [op |-> "signin", at |-> "minted", by |-> b,
                                     tok |-> new, addr |-> a, isNew |-> FALSE]]
        /\ cookie' = cookie /\ gone' = gone
    BY <1>1 DEF SignIn, Open
  <2>2. new \in Tok /\ new.sess = s /\ new.gen = 1
    BY DEF Tok
  <2>3. auth'[s].gen = 1 /\ \A u \in SessionIds \ {s} : auth'[u].gen = auth[u].gen
    BY <2>1 DEF Types
  <2>4. \A q \in Requests \ {r} : req'[q] = req[q]
    BY <2>1 DEF Types
  <2>5. req'[r].at = "minted" /\ req'[r].op = "signin" /\ req'[r].tok = new
    BY <2>1 DEF Types
  <2>6. ~ \E q \in Requests : Minting(q) /\ req[q].tok.sess = s
    BY <2>1 DEF Tokens, MintingOK
  <2> HIDE DEF new
  <2>7. MintingOK'
    BY <2>2, <2>3, <2>4, <2>5, <2>6 DEF Tokens, MintingOK, Minting, Tok
  <2>8. OneMints'
    BY <2>2, <2>4, <2>5, <2>6 DEF Tokens, OneMints, Minting
  <2>9. ASSUME NEW t \in Tok, Old(t) PROVE Old(t)'
    <3>1. t.sess \in SessionIds /\ t.gen \in Nat
      BY DEF Tok
    <3>2. CASE t.sess = s
      BY <2>1, <2>3, <3>1, <3>2, <2>4, <2>5, <2>6, <2>9 DEF Old, Minting
    <3>3. CASE t.sess # s
      BY <2>2, <2>3, <2>4, <2>5, <3>1, <3>3, <2>9 DEF Old, Minting
    <3> QED
      BY <3>2, <3>3
  <2>10. HandedOut'
    BY <2>1, <2>4, <2>5, <2>9 DEF Tokens, HandedOut, Types
  <2> QED
    BY <2>7, <2>8, <2>10 DEF Tokens
<1>2. ASSUME NEW op, NEW b, NEW t \in Tok \cup {None}, NEW a, NEW place \in Places,
             Open(r, op, b, t, a, place), ~Minting(r)',
             place # "sent" \/ (t # None /\ Old(t)), place # "burned",
             \A s \in SessionIds : auth'[s].gen = auth[s].gen,
             cookie' = cookie, gone' = gone
      PROVE  Tokens'
  <2>1. /\ req'[r].at = place /\ req'[r].tok = t
        /\ \A q \in Requests \ {r} : req'[q] = req[q]
    BY <1>2 DEF Types, Open
  <2>2. \A q \in Requests : Minting(q)' => q # r /\ Minting(q) /\ req[q].tok \in Tok
    BY <1>2, <2>1 DEF Minting, Tokens, MintingOK
  <2>3. \A s \in SessionIds : auth'[s].gen >= auth[s].gen
    BY <1>2 DEF Types
  <2> QED
    BY <1>0, <1>2, <2>1, <2>2, <2>3, TokensFrame DEF Tokens, HandedOut, Tok
<1>3. ASSUME NEW b \in Browsers, NEW a \in Addresses, Refresh(r, b, a) PROVE Tokens'
  <2>1. Open(r, "refresh", b, cookie[b], a, "sent") /\ ~Minting(r)'
    BY <1>3 DEF Refresh, Open, Minting, Types
  <2> QED
    BY <1>2, <1>3, <2>1 DEF Refresh, sessionVars, Types, Tokens, HandedOut, Places
<1>4. ASSUME NEW b \in Browsers, SignOut(r, b) PROVE Tokens'
  <2>1. ~Minting(r)'
    BY <1>4 DEF SignOut, Open, Minting, Types
  <2> QED
    BY <1>2, <1>4, <2>1 DEF SignOut, sessionVars, Types, Tokens, HandedOut, Places
<1>5. ASSUME NEW b \in Browsers, ChangePassword(r, b) PROVE Tokens'
  <2>1. ~Minting(r)'
    BY <1>5 DEF ChangePassword, Open, Minting, Types
  <2> QED
    BY <1>2, <1>5, <2>1 DEF ChangePassword, sessionVars, Types, Places
<1>6. ASSUME NEW b \in Browsers, NEW k \in Keys, NEW v \in BOOLEAN,
             LoadControls(r, b, k, v)
      PROVE  Tokens'
  <2>1. ~Minting(r)'
    BY <1>6 DEF LoadControls, Open, Minting, Types
  <2> QED
    BY <1>2, <1>6, <2>1 DEF LoadControls, sessionVars, Types, Places
<1>7. ASSUME NEW b \in Browsers \cup {Admin}, NEW s \in SessionIds, Revoke(r, b, s)
      PROVE  Tokens'
  <2>1. ~Minting(r)'
    BY <1>7 DEF Revoke, Open, Minting, Types
  <2> QED
    BY <1>2, <1>7, <2>1 DEF Revoke, Types, Places
<1>8. CASE Evict(r)
  <2>1. ~Minting(r)'
    BY <1>8 DEF Evict, Open, Minting, Types
  <2> QED
    BY <1>2, <1>8, <2>1 DEF Evict, sessionVars, Types, Places
<1>9. ASSUME NEW ended \in SUBSET SessionIds, Reset(r, ended) PROVE Tokens'
  <2>1. ~Minting(r)'
    BY <1>9 DEF Reset, Open, Minting, Types
  <2>2. \A s \in SessionIds : auth'[s].gen = auth[s].gen
    BY <1>9 DEF Reset, Types
  <2> QED
    BY <1>2, <1>9, <2>1, <2>2 DEF Reset, Places
<1> QED
  BY <1>1, <1>3, <1>4, <1>5, <1>6, <1>7, <1>8, <1>9 DEF Arrive

LEMMA ProceedTokens ==
  ASSUME Types, Tokens, NEW r \in Requests, Proceed(r) PROVE Tokens'
<1>0. Types'
  BY ProceedTypes DEF Tokens
\* A request that goes on or ends without a new token.
<1>1. ASSUME UNCHANGED auth, gone' = gone,
             \A b \in Browsers : cookie'[b] = None \/ cookie'[b] = cookie[b],
             \/ req' = req
             \/ Done(r)
             \/ \E p \in Places \ {"sent", "burned"} :
                  /\ Goto(r, p)
                  /\ p \in {"minted", "checked", "alerting", "recorded"} => Minting(r)
      PROVE  Tokens'
  <2>1. \A q \in Requests \ {r} : req'[q] = req[q]
    BY <1>1 DEF Types, Done, Goto
  <2>2. \/ req'[r] = req[r]
        \/ ~Minting(r)' /\ req'[r].at \notin {"sent", "burned"}
        \/ /\ Minting(r) /\ req'[r].at \notin {"sent", "burned"}
           /\ req'[r].tok = req[r].tok /\ req'[r].op = req[r].op
    BY <1>1 DEF Types, Done, Goto, Idle, Minting, Request
  <2>3. \A q \in Requests : Minting(q)' =>
           /\ Minting(q)
           /\ req'[q].tok = req[q].tok /\ req'[q].op = req[q].op
    BY <2>1, <2>2 DEF Minting
  <2>4. \A q \in Requests : req'[q].at \in {"sent", "burned"} =>
           req'[q].tok \in Tok /\ Old(req'[q].tok)
    BY <2>1, <2>2 DEF Tokens, HandedOut
  <2>5. \A s \in SessionIds : auth'[s].gen >= auth[s].gen
    BY <1>1 DEF Types
  <2> QED
    BY <1>0, <1>1, <2>3, <2>4, <2>5, TokensFrame DEF Tokens, HandedOut
<1>2. ASSUME req[r].tok \in Tok, Old(req[r].tok), Usable(req[r].tok), Spend(req[r].tok)
      PROVE  /\ \A s \in SessionIds : auth'[s].gen >= auth[s].gen
             /\ auth'[req[r].tok.sess].gen = req[r].tok.gen + 1
             /\ \A s \in SessionIds \ {req[r].tok.sess} : auth'[s].gen = auth[s].gen
             /\ \A q \in Requests : Minting(q) => req[q].tok.sess # req[r].tok.sess
  BY <1>2 DEF Types, Old, Usable, Spend, Tok
<1>3. CASE Rotate(r)
  <2> DEFINE t == req[r].tok
  <2>1. t \in Tok /\ Old(t) /\ ~Minting(r)
    BY <1>3 DEF Rotate, Tokens, HandedOut, Minting
  <2>2. CASE UNCHANGED auth /\ Done(r)
    BY <1>1, <1>3, <2>2 DEF Rotate
  <2>3. CASE Usable(t) /\ Spend(t) /\ Done(r)
    <3>1. /\ \A q \in Requests \ {r} : req'[q] = req[q]
          /\ req'[r].at = "done"
      BY <2>3 DEF Types, Done, Idle
    <3>2. \A q \in Requests : Minting(q)' =>
           /\ Minting(q)
           /\ req'[q].tok = req[q].tok /\ req'[q].op = req[q].op
           /\ auth'[req[q].tok.sess].gen = auth[req[q].tok.sess].gen
      BY <1>2, <2>1, <2>3, <3>1 DEF Minting, Tokens, MintingOK, Tok
    <3> QED
      BY <1>0, <1>2, <1>3, <2>1, <2>3, <3>1, <3>2, TokensFrame
         DEF Rotate, Tokens, HandedOut
  <2>4. CASE /\ Usable(t) /\ Spend(t)
             /\ req' = [req EXCEPT ![r].at = "minted", ![r].tok.gen = @ + 1]
    <3>1. /\ \A q \in Requests \ {r} : req'[q] = req[q]
          /\ req'[r].at = "minted" /\ req'[r].op = "refresh"
          /\ req'[r].tok = [t EXCEPT !.gen = @ + 1]
      BY <1>3, <2>4 DEF Rotate, Types, Request
    <3>2. req'[r].tok \in Tok /\ req'[r].tok.sess = t.sess /\ req'[r].tok.gen = t.gen + 1
      BY <2>1, <3>1 DEF Tok
    <3>3. \A q \in Requests : Minting(q)' =>
            q = r \/ (q # r /\ Minting(q) /\ req[q].tok.sess # t.sess)
      BY <1>2, <2>1, <2>4, <3>1 DEF Minting
    <3>4. MintingOK'
      <4>1. req'[r].tok.gen = auth'[req'[r].tok.sess].gen /\ req'[r].tok.gen > 0
        BY <1>2, <2>1, <2>4, <3>2 DEF Tok
      <4>2. ASSUME NEW q \in Requests, q # r, Minting(q), req[q].tok.sess # t.sess
            PROVE  /\ req'[q].op \in {"signin", "refresh"} /\ req'[q].tok \in Tok
                   /\ req'[q].tok.gen = auth'[req'[q].tok.sess].gen
                   /\ req'[q].tok.gen > 0
        <5>1. req[q].tok \in Tok /\ req[q].tok.sess \in SessionIds
          BY <4>2 DEF Tokens, MintingOK, Tok
        <5>2. req'[q] = req[q] /\ auth'[req[q].tok.sess].gen = auth[req[q].tok.sess].gen
          BY <1>2, <2>1, <2>4, <3>1, <4>2, <5>1
        <5> QED
          BY <4>2, <5>1, <5>2 DEF Tokens, MintingOK
      <4> QED
        BY <3>1, <3>2, <3>3, <4>1, <4>2 DEF MintingOK
    <3>5. OneMints'
      <4> SUFFICES ASSUME NEW q \in Requests, NEW v \in Requests, Minting(q)', Minting(v)',
                          req'[q].tok.sess = req'[v].tok.sess
                   PROVE  q = v
        BY DEF OneMints
      <4> QED
        BY <3>1, <3>2, <3>3 DEF Tokens, OneMints
    <3>6. ASSUME NEW u \in Tok, Old(u) PROVE Old(u)'
      <4>1. u.sess \in SessionIds /\ u.gen \in Nat /\ t.gen \in Nat
        BY <2>1 DEF Tok
      <4>2. auth[u.sess].gen \in Nat /\ auth'[u.sess].gen \in Nat
        BY <1>0, <4>1 DEF Types
      <4>3. CASE u.sess = t.sess
        BY <1>2, <2>1, <2>4, <3>1, <3>2, <3>6, <4>1, <4>2, <4>3 DEF Old, Minting, Usable
      <4>4. CASE u.sess # t.sess
        BY <1>2, <2>1, <2>4, <3>1, <3>2, <3>6, <4>1, <4>2, <4>4 DEF Old, Minting
      <4> QED
        BY <4>3, <4>4
    <3>7. HandedOut'
      BY <1>3, <3>1, <3>6 DEF Rotate, Tokens, HandedOut, Types
    <3> QED
      BY <3>4, <3>5, <3>7 DEF Tokens
  <2> QED
    BY <1>3, <2>2, <2>3, <2>4 DEF Rotate
<1>4. CASE Detect(r) \/ Upsert(r) \/ Alert(r)
  <2>1. CASE Detect(r)
    <3>1. /\ \A q \in Requests \ {r} : req'[q] = req[q]
          /\ Minting(r) /\ req'[r].at = "checked" /\ req'[r].op = req[r].op
          /\ req'[r].tok = req[r].tok
      BY <2>1 DEF Detect, Types, Request, Minting
    <3>2. \A q \in Requests : Minting(q)' =>
             /\ Minting(q)
             /\ req'[q].tok = req[q].tok /\ req'[q].op = req[q].op
      BY <3>1 DEF Minting
    <3>3. /\ auth' = auth /\ cookie' = cookie /\ gone' = gone
          /\ \A s \in SessionIds : auth'[s].gen >= auth[s].gen
      BY <2>1 DEF Detect, Types
    <3> QED
      BY <1>0, <3>1, <3>2, <3>3, TokensFrame DEF Tokens, HandedOut
  <2>2. CASE Upsert(r) \/ Alert(r)
    BY <1>1, <2>2 DEF Upsert, Alert, Minting, Places
  <2> QED
    BY <1>4, <2>1, <2>2
<1>5. CASE Answer(r)
  <2>1. CASE UNCHANGED cookie
    BY <1>1, <1>5, <2>1 DEF Answer
  <2>2. CASE cookie' = [cookie EXCEPT ![req[r].by] = req[r].tok]
    <3> DEFINE t == req[r].tok
    <3>1. /\ \A q \in Requests \ {r} : req'[q] = req[q]
          /\ req'[r].at = "done" /\ Minting(r) /\ t \in Tok
          /\ auth' = auth /\ gone' = gone
      BY <1>5 DEF Answer, Types, Done, Idle, Minting, Tokens, MintingOK
    <3>2. MintingOK' /\ OneMints'
      BY <3>1 DEF Tokens, MintingOK, OneMints, Minting
    <3> DEFINE Stays(u) ==
           /\ u.gen <= auth'[u.sess].gen
           /\ \A q \in Requests : (Minting(q)' /\ req'[q].tok.sess = u.sess)
                => u.gen < auth'[u.sess].gen
    <3>3. Stays(t)
      <4>1. t.gen = auth[t.sess].gen /\ t.gen \in Nat
        BY <3>1 DEF Tokens, MintingOK, Tok
      <4>2. \A q \in Requests : Minting(q)' => req'[q].tok.sess # t.sess
        BY <3>1 DEF Tokens, OneMints, Minting
      <4> QED
        BY <3>1, <4>1, <4>2
    <3>4. ASSUME NEW u, Old(u) PROVE Stays(u)
      BY <3>1, <3>4 DEF Old, Minting
    <3>5. \A b \in Browsers : cookie'[b] = cookie[b] \/ cookie'[b] = t
      BY <2>2 DEF Types
    <3>6. /\ \A b \in Browsers : cookie'[b] # None => Stays(cookie'[b])
          /\ \A q \in Requests : req'[q].at \in {"sent", "burned"} =>
               req'[q].tok \in Tok /\ Stays(req'[q].tok)
          /\ \A u \in gone' : Stays(u)
      <4> HIDE DEF Stays
      <4> QED
        BY <3>1, <3>3, <3>4, <3>5 DEF Tokens, HandedOut
    <3>7. HandedOut'
      BY <3>6 DEF HandedOut, Old
    <3> QED
      BY <3>2, <3>7 DEF Tokens
  <2> QED
    BY <1>5, <2>1, <2>2 DEF Answer
<1>6. CASE Burn(r)
  <2> DEFINE t == req[r].tok
  <2>1. /\ t \in Tok /\ Old(t) /\ ~Minting(r)
        /\ \A q \in Requests \ {r} : req'[q] = req[q]
        /\ req'[r].at = "burned" /\ req'[r].tok = t
        /\ cookie' = cookie /\ gone' = gone
    BY <1>6 DEF Burn, Goto, Types, Request, Tokens, HandedOut, Minting
  <2>2. CASE UNCHANGED auth
    <3>1. \A q \in Requests : Minting(q)' => q # r /\ Minting(q)
      BY <2>1 DEF Minting
    <3>2. \A s \in SessionIds : auth'[s].gen >= auth[s].gen
      BY <2>2 DEF Types
    <3> QED
      BY <1>0, <2>1, <2>2, <3>1, <3>2, TokensFrame DEF Tokens, HandedOut
  <2>3. CASE Usable(t) /\ Spend(t)
    <3>1. \A q \in Requests : Minting(q)' =>
           /\ Minting(q)
           /\ req'[q].tok = req[q].tok /\ req'[q].op = req[q].op
           /\ auth'[req[q].tok.sess].gen = auth[req[q].tok.sess].gen
      BY <1>2, <2>1, <2>3 DEF Minting, Tokens, MintingOK, Tok
    <3> QED
      BY <1>0, <1>2, <2>1, <2>3, <3>1, TokensFrame DEF Tokens, HandedOut
  <2> QED
    BY <1>6, <2>2, <2>3 DEF Burn
<1>7. CASE Drop(r)
  <2>1. /\ \A q \in Requests \ {r} : req'[q] = req[q]
        /\ req'[r].at = "dropped" /\ cookie' = cookie /\ auth' = auth
        /\ \A t \in gone' : t \in gone \/ t = req[r].tok
        /\ Old(req[r].tok)
    BY <1>7 DEF Drop, Goto, Types, Tokens, HandedOut
  <2>2. \A q \in Requests : Minting(q)' => q # r /\ Minting(q)
    BY <2>1 DEF Minting
  <2>3. \A s \in SessionIds : auth'[s].gen >= auth[s].gen
    BY <2>1 DEF Types
  <2> QED
    BY <1>0, <2>1, <2>2, <2>3, TokensFrame DEF Tokens, HandedOut
<1>8. CASE Cleared(r)
  BY <1>1, <1>8 DEF Cleared, Types
<1>9. CASE ListOthers(r)
  BY <1>1, <1>9 DEF ListOthers, Places
<1>10. ASSUME NEW w \in todo[r], Kill(r, w) \/ Vanished(r, w) \/ DropRow(r, w)
       PROVE  Tokens'
  <2>1. w.sess \in SessionIds
    BY DEF Types, Todo
  <2>2. \A s \in SessionIds : auth'[s].gen = auth[s].gen
    BY <1>10, <2>1 DEF Kill, Vanished, DropRow, Types
  <2>3. /\ req' = req /\ cookie' = cookie /\ gone' = gone
    BY <1>10 DEF Kill, Vanished, DropRow
  <2>4. \A q \in Requests : Minting(q)' => Minting(q) /\ req[q].tok \in Tok
    BY <2>3 DEF Minting, Tokens, MintingOK
  <2>5. \A s \in SessionIds : auth'[s].gen >= auth[s].gen
    BY <2>2 DEF Types
  <2> QED
    BY <1>0, <2>2, <2>3, <2>4, <2>5, TokensFrame DEF Tokens, HandedOut, Tok
<1>11. CASE Revoked(r) \/ Wipe(r) \/ SaveControls(r)
  BY <1>1, <1>11 DEF Revoked, Wipe, SaveControls, sessionVars
<1> QED
  BY <1>3, <1>4, <1>5, <1>6, <1>7, <1>8, <1>9, <1>10, <1>11 DEF Proceed
-----------------------------------------------------------------------------
(* What a step does to a session, to a row and to the sessions without one. *)

\* A session ends, its token is replaced, or it begins; it never comes back.
LEMMA AuthStep ==
  ASSUME Types, Tokens, NEW r \in Requests, Arrive(r) \/ Proceed(r)
  PROVE  \A s \in SessionIds :
           \/ auth'[s] = auth[s]
           \/ auth'[s].gen = auth[s].gen /\ ~auth'[s].live
           \/ /\ auth'[s].gen = auth[s].gen + 1
              /\ auth'[s].live => auth[s].live \/ auth[s].gen = 0
<1> USE DEF Types
<1>1. CASE UNCHANGED auth
  BY <1>1
<1>2. ASSUME NEW b \in Browsers, NEW a \in Addresses, NEW s \in SessionIds,
             SignIn(r, b, a, s)
      PROVE  \A u \in SessionIds : \/ auth'[u] = auth[u]
                                   \/ auth'[u].gen = auth[u].gen + 1 /\ auth[u].gen = 0
  BY <1>2 DEF SignIn
<1>3. ASSUME NEW ended \in SUBSET SessionIds, Reset(r, ended)
      PROVE  \A u \in SessionIds : \/ auth'[u] = auth[u]
                                   \/ auth'[u].gen = auth[u].gen /\ ~auth'[u].live
  BY <1>3 DEF Reset
<1>4. CASE Arrive(r)
  BY <1>1, <1>2, <1>3, <1>4
     DEF Arrive, Refresh, SignOut, Revoke, Evict, ChangePassword, LoadControls, sessionVars
<1>5. CASE Rotate(r) \/ Burn(r)
  <2>1. req[r].tok \in Tok
    BY <1>5 DEF Rotate, Burn, Tokens, HandedOut
  <2>2. CASE Spend(req[r].tok)
    BY <2>1, <2>2 DEF Spend, Tok
  <2> QED
    BY <1>1, <1>5, <2>2 DEF Rotate, Burn
<1>6. ASSUME NEW w \in todo[r], Kill(r, w) \/ Vanished(r, w) \/ DropRow(r, w)
      PROVE  \A u \in SessionIds : \/ auth'[u] = auth[u]
                                   \/ auth'[u].gen = auth[u].gen /\ ~auth'[u].live
  <2>1. UNCHANGED auth \/ auth' = [auth EXCEPT ![w.sess].live = FALSE]
    BY <1>6 DEF Kill, Vanished, DropRow
  <2> QED
    BY <2>1
<1>7. CASE Proceed(r)
  BY <1>1, <1>5, <1>6, <1>7
     DEF Proceed, Detect, Upsert, Alert, Answer, Drop, Cleared, ListOthers, Revoked, Wipe,
         SaveControls, sessionVars
<1> QED
  BY <1>4, <1>7

LEMMA UsableShrinks ==
  ASSUME Types, Tokens, NEW r \in Requests, Arrive(r) \/ Proceed(r),
         NEW t \in Tok, t.gen <= auth[t.sess].gen, Usable(t)'
  PROVE  Usable(t)
<1>1. t.sess \in SessionIds /\ t.gen \in Nat /\ auth[t.sess].gen \in Nat
  BY DEF Tok, Types
<1>2. auth'[t.sess] = auth[t.sess] \/ auth'[t.sess].gen = auth[t.sess].gen + 1
  BY <1>1, AuthStep DEF Usable
<1> QED
  BY <1>1, <1>2 DEF Usable

\* A row is written by recordSession alone.
LEMMA LedgerStep ==
  ASSUME Types, Tokens, NEW r \in Requests, Arrive(r) \/ Proceed(r)
  PROVE  \A s \in SessionIds :
           \/ ledger'[s] = ledger[s] \/ ledger'[s] = None
           \/ /\ Upsert(r) /\ s = req[r].tok.sess /\ s \notin untracked'
              /\ ledger'[s] = Recorded(r, ledger[s])
<1> USE DEF Types
<1>1. CASE UNCHANGED ledger
  BY <1>1
<1>2. CASE Arrive(r)
  BY <1>1, <1>2 DEF Arrive, SignIn, Refresh, SignOut, Revoke, Evict, ChangePassword, Reset,
                    LoadControls, sessionVars
<1>3. CASE Upsert(r)
  BY <1>3 DEF Upsert, Minting, Tokens, MintingOK, Tok
<1>4. CASE Drop(r) \/ Wipe(r)
  BY <1>4 DEF Drop, Wipe
<1>5. ASSUME NEW w \in todo[r], Kill(r, w) \/ Vanished(r, w) \/ DropRow(r, w)
      PROVE  \A s \in SessionIds : ledger'[s] = ledger[s] \/ ledger'[s] = None
  <2>1. w.sess \in SessionIds
    BY DEF Todo
  <2> QED
    BY <1>5, <2>1 DEF Kill, Vanished, DropRow
<1>6. CASE Proceed(r)
  BY <1>1, <1>3, <1>4, <1>5, <1>6
     DEF Proceed, Rotate, Detect, Alert, Answer, Burn, Cleared, ListOthers, Revoked,
         SaveControls, sessionVars
<1> QED
  BY <1>2, <1>6

\* A session leaves untracked when its row is written.
LEMMA UntrackedStep ==
  ASSUME Types, NEW r \in Requests, Arrive(r) \/ Proceed(r)
  PROVE  \A s \in untracked \ untracked' : Upsert(r) /\ s = req[r].tok.sess
<1>1. CASE Arrive(r)
  BY <1>1 DEF Arrive, SignIn, Refresh, SignOut, Revoke, Evict, ChangePassword, Reset,
              LoadControls, sessionVars
<1>2. CASE Upsert(r)
  BY <1>2 DEF Upsert
<1>3. CASE Proceed(r)
  BY <1>2, <1>3
     DEF Proceed, Rotate, Detect, Alert, Answer, Burn, Drop, Cleared, ListOthers, Kill,
         Vanished, DropRow, Revoked, Wipe, SaveControls, sessionVars
<1> QED
  BY <1>1, <1>3

\* A step of one request leaves what the others know alone.
LEMMA OthersStep ==
  ASSUME Types, NEW r \in Requests, Arrive(r) \/ Proceed(r), NEW q \in Requests, q # r
  PROVE  req'[q] = req[q] /\ todo'[q] = todo[q] /\ batch'[q] = batch[q]
<1> USE DEF Types
<1>1. CASE Arrive(r)
  BY <1>1 DEF Arrive, Open, SignIn, Refresh, SignOut, Revoke, Evict, ChangePassword, Reset,
              LoadControls, sessionVars
<1>2. CASE Proceed(r)
  BY <1>2
     DEF Proceed, Goto, Done, Skip, Rotate, Detect, Upsert, Alert, Answer, Burn, Drop, Cleared,
         ListOthers, Kill, Vanished, DropRow, Revoked, Wipe, SaveControls, sessionVars
<1> QED
  BY <1>1, <1>2
-----------------------------------------------------------------------------
(* Signing out. *)

(* The token of a sign-out that went on is no longer usable, or the call   *)
(* failed; and then nobody can mint another one of its session unless with *)
(* that very token.                                                        *)
Burned ==
  \A r \in Requests : req[r].at = "burned" =>
    ~Usable(req[r].tok) \/ req[r].tok.sess \in untracked

LEMMA BurnedKept ==
  ASSUME Types, Tokens, Burned, NEW r \in Requests, Arrive(r) \/ Proceed(r)
  PROVE  Burned'
<1> SUFFICES ASSUME NEW q \in Requests, req'[q].at = "burned", NEW t, t = req'[q].tok,
                    Usable(t)', t.sess \notin untracked'
             PROVE  FALSE
  BY DEF Burned, Usable
<1>1. ASSUME req[q].at = "burned", req[q].tok = t PROVE FALSE
  <2>1. t \in Tok /\ Old(t)
    BY <1>1 DEF Tokens, HandedOut
  <2>2. Usable(t)
    BY <2>1, UsableShrinks DEF Old
  <2>3. t.sess \in untracked \ untracked'
    BY <1>1, <2>2 DEF Burned
  <2>4. Upsert(r) /\ t.sess = req[r].tok.sess
    BY <2>3, UntrackedStep
  <2>5. t.gen < auth[t.sess].gen
    BY <2>1, <2>4 DEF Old, Upsert, Minting
  <2> QED
    BY <2>1, <2>2, <2>5 DEF Usable, Tok, Types
<1>2. CASE q # r
  BY <1>1, <1>2, OthersStep
<1>3. CASE q = r
  <2>1. CASE Burn(r)
    <3>1. req[r].tok = t /\ req[r].at = "sent"
      BY <1>3, <2>1 DEF Burn, Goto, Types, Request
    <3>2. t \in Tok /\ Old(t)
      BY <3>1 DEF Tokens, HandedOut
    <3>3. Usable(t)
      BY <3>2, UsableShrinks DEF Old
    <3>4. auth'[t.sess].gen = t.gen
      BY DEF Usable
    <3>5. ~Spend(t)
      BY <3>2, <3>3, <3>4 DEF Spend, Usable, Tok, Types
    <3> QED
      BY <2>1, <3>1, <3>3, <3>5 DEF Burn
  <2>2. CASE ~Burn(r) /\ req' # req
    <3>1. CASE Arrive(r)
      BY <1>3, <3>1
         DEF Arrive, Open, SignIn, Refresh, SignOut, Revoke, Evict, ChangePassword, Reset,
             LoadControls, Types
    <3>2. CASE Proceed(r)
      <4>1. ~Done(r) /\ \A p \in Places \ {"burned"} : ~Goto(r, p)
        BY <1>3 DEF Done, Idle, Goto, Types, Request
      <4>2. ~Detect(r) /\ (~Rotate(r) \/ Done(r))
        BY <1>3 DEF Detect, Rotate, Types, Request
      <4> QED
        BY <2>2, <3>2, <4>1, <4>2
           DEF Proceed, Upsert, Alert, Answer, Drop, Cleared, ListOthers, Kill, Vanished,
               DropRow, Revoked, Wipe, SaveControls, Places
    <3> QED
      BY <3>1, <3>2
  <2> QED
    BY <1>1, <2>1, <2>2
<1> QED
  BY <1>2, <1>3

LEMMA SignedOutKept ==
  ASSUME Types, Tokens, Burned, SignedOutIsGone, NEW r \in Requests, Arrive(r) \/ Proceed(r)
  PROVE  SignedOutIsGone'
<1>1. ASSUME NEW t \in gone
      PROVE  /\ ~Usable(t)'
             /\ ~(t.sess \in Listed' /\ ledger'[t.sess].hash = t.gen)
  <2>1. t \in Tok /\ Old(t) /\ t.sess \in SessionIds /\ t.gen \in Nat
    BY DEF Types, Tokens, HandedOut, Tok
  <2>2. ~Usable(t)'
    BY <2>1, UsableShrinks DEF SignedOutIsGone, Old
  <2>3. ASSUME t.sess \in Listed', ledger'[t.sess].hash = t.gen PROVE FALSE
    <3>1. ledger'[t.sess] # ledger[t.sess] /\ ledger'[t.sess] # None
      BY <2>1, <2>3 DEF SignedOutIsGone, Listed
    <3>2. /\ Upsert(r) /\ t.sess = req[r].tok.sess
          /\ ledger'[t.sess] = Recorded(r, ledger[t.sess])
      BY <2>1, <3>1, LedgerStep
    <3>3. req[r].tok.gen = t.gen
      BY <2>3, <3>2 DEF Recorded
    <3>4. t.gen < auth[t.sess].gen /\ req[r].tok.gen = auth[t.sess].gen
      BY <2>1, <3>2 DEF Old, Upsert, Minting, Tokens, MintingOK
    <3> QED
      BY <2>1, <3>3, <3>4 DEF Types
  <2> QED
    BY <2>2, <2>3
<1>2. CASE gone' \subseteq gone
  BY <1>1, <1>2 DEF SignedOutIsGone, Usable, Listed
<1>3. CASE Drop(r) /\ gone' # gone
  <2> DEFINE t == req[r].tok
  <2>1. /\ t \in Tok /\ Old(t) /\ t.sess \in SessionIds
        /\ gone' = gone \cup {t} /\ t.sess \notin untracked /\ auth' = auth
        /\ ledger' = [s \in SessionIds |->
             IF s = t.sess /\ s \in Listed /\ ledger[s].hash = t.gen
             THEN None ELSE ledger[s]]
        /\ req[r].at = "burned"
    BY <1>3 DEF Drop, Tokens, HandedOut, Tok
  <2>2. ~Usable(t)
    BY <2>1 DEF Burned
  <2>3. ~(t.sess \in Listed' /\ ledger'[t.sess].hash = t.gen)
    BY <2>1 DEF Listed
  <2>4. /\ t # None /\ ~(auth'[t.sess].live /\ auth'[t.sess].gen = t.gen)
        \/ t = None
    BY <2>1, <2>2 DEF Usable
  <2> HIDE DEF t
  <2> QED
    BY <1>1, <2>1, <2>3, <2>4 DEF SignedOutIsGone, Usable, Listed
<1>4. CASE Arrive(r)
  BY <1>2, <1>4 DEF Arrive, SignIn, Refresh, SignOut, Revoke, Evict, ChangePassword, Reset,
              LoadControls, sessionVars
<1>5. CASE Proceed(r) /\ ~Drop(r)
  BY <1>2, <1>5
     DEF Proceed, Rotate, Detect, Upsert, Alert, Answer, Burn, Cleared, ListOthers, Kill,
         Vanished, DropRow, Revoked, Wipe, SaveControls, sessionVars
<1> QED
  BY <1>2, <1>3, <1>4, <1>5
-----------------------------------------------------------------------------
(* Revoking. *)

(* A row and whoever works from it name a session that has begun, and so   *)
(* cannot begin again once it is dead.                                     *)
RowsBegan == \A s \in Listed : auth[s].gen > 0

TodoOK ==
  \A r \in Requests :
    /\ req[r].at # "revoking" => todo[r] = {}
    /\ \A w \in todo[r] : auth[w.sess].gen > 0 /\ (w.killed => ~auth[w.sess].live)

BatchOK ==
  \A r \in Requests : req[r].at = "revoking" =>
    \A s \in batch[r].seen \ batch[r].spared :
      /\ auth[s].gen > 0
      /\ \/ ~auth[s].live
         \/ \E w \in todo[r] : w.sess = s /\ ~w.killed

Revocations == RowsBegan /\ TodoOK /\ BatchOK

LEMMA BeganStays ==
  ASSUME Types, Tokens, NEW r \in Requests, Arrive(r) \/ Proceed(r),
         NEW s \in SessionIds, auth[s].gen > 0
  PROVE  auth'[s].gen > 0 /\ (~auth[s].live => ~auth'[s].live)
BY AuthStep DEF Types

LEMMA RowsBeganKept ==
  ASSUME Types, Tokens, RowsBegan, NEW r \in Requests, Arrive(r) \/ Proceed(r)
  PROVE  RowsBegan'
<1> SUFFICES ASSUME NEW s \in SessionIds, ledger'[s] # None PROVE auth'[s].gen > 0
  BY DEF RowsBegan, Listed
<1>1. CASE ledger'[s] = ledger[s]
  BY <1>1, BeganStays DEF RowsBegan, Listed
<1>2. CASE ledger'[s] # ledger[s]
  <2>1. Upsert(r) /\ s = req[r].tok.sess
    BY <1>2, LedgerStep
  <2>2. auth[s].gen > 0
    BY <2>1 DEF Upsert, Minting, Tokens, MintingOK
  <2> QED
    BY <2>2, BeganStays
<1> QED
  BY <1>1, <1>2

LEMMA ArriveRevocations ==
  ASSUME Types, Tokens, Revocations, NEW r \in Requests, Arrive(r)
  PROVE  TodoOK' /\ BatchOK'
<1>1. req[r].at = "idle" /\ todo[r] = {}
  BY DEF Arrive, Open, SignIn, Refresh, SignOut, Revoke, Evict, ChangePassword, Reset,
         LoadControls, Revocations, TodoOK
<1>2. /\ \A q \in Requests : \A w \in todo[q] : w.sess \in SessionIds
      /\ \A q \in Requests : batch[q].seen \subseteq SessionIds
  BY DEF Types, Todo
<1>3. ASSUME NEW q \in Requests, q # r
      PROVE  /\ req'[q].at # "revoking" => todo'[q] = {}
             /\ \A w \in todo'[q] :
                  auth'[w.sess].gen > 0 /\ (w.killed => ~auth'[w.sess].live)
             /\ req'[q].at = "revoking" =>
                  \A s \in batch'[q].seen \ batch'[q].spared :
                    /\ auth'[s].gen > 0
                    /\ ~auth'[s].live \/ \E w \in todo'[q] : w.sess = s /\ ~w.killed
  BY <1>2, <1>3, OthersStep, BeganStays DEF Revocations, TodoOK, BatchOK
<1>4. ASSUME NEW b \in Browsers \cup {Admin}, NEW s \in SessionIds, Revoke(r, b, s)
      PROVE  /\ req'[r].at = "revoking" /\ auth' = auth /\ s \in Listed
             /\ todo'[r] = {Work(s)} /\ batch'[r].seen = {s}
  BY <1>4 DEF Revoke, Open, Types
<1>5. ASSUME NEW s \in SessionIds, s \in Listed, auth' = auth, req'[r].at = "revoking",
             todo'[r] = {Work(s)}, batch'[r].seen = {s}
      PROVE  TodoOK' /\ BatchOK'
  <2>1. Work(s).sess = s /\ ~Work(s).killed /\ auth'[s].gen > 0
    BY <1>5 DEF Work, Revocations, RowsBegan
  <2> QED
    BY <1>3, <1>5, <2>1 DEF TodoOK, BatchOK
<1>6. ASSUME req'[r].at # "revoking", todo'[r] = todo[r] PROVE TodoOK' /\ BatchOK'
  BY <1>1, <1>3, <1>6 DEF TodoOK, BatchOK
<1>7. CASE ~ \E b \in Browsers \cup {Admin}, s \in SessionIds : Revoke(r, b, s)
  BY <1>6, <1>7
     DEF Arrive, Open, SignIn, Refresh, SignOut, Evict, ChangePassword, Reset,
         LoadControls, sessionVars, Types
<1> QED
  BY <1>4, <1>5, <1>7

LEMMA ProceedRevocations ==
  ASSUME Types, Tokens, Revocations, NEW r \in Requests, Proceed(r)
  PROVE  TodoOK' /\ BatchOK'
<1>1. /\ \A q \in Requests : \A w \in todo[q] : w.sess \in SessionIds
      /\ \A q \in Requests : batch[q].seen \subseteq SessionIds
  BY DEF Types, Todo
<1>2. ASSUME NEW q \in Requests, q # r
      PROVE  /\ req'[q].at # "revoking" => todo'[q] = {}
             /\ \A w \in todo'[q] :
                  auth'[w.sess].gen > 0 /\ (w.killed => ~auth'[w.sess].live)
             /\ req'[q].at = "revoking" =>
                  \A s \in batch'[q].seen \ batch'[q].spared :
                    /\ auth'[s].gen > 0
                    /\ ~auth'[s].live \/ \E w \in todo'[q] : w.sess = s /\ ~w.killed
  BY <1>1, <1>2, OthersStep, BeganStays DEF Revocations, TodoOK, BatchOK
<1>3. ASSUME req'[r].at # "revoking", todo'[r] = {} PROVE TodoOK' /\ BatchOK'
  BY <1>2, <1>3 DEF TodoOK, BatchOK
<1>4. CASE ListOthers(r) /\ Goto(r, "revoking")
  <2>1. /\ req'[r].at = "revoking" /\ auth' = auth
        /\ todo'[r] = {Work(s) : s \in Listed \ Current(r)}
        /\ batch'[r].seen = Listed \ Current(r)
    BY <1>4 DEF ListOthers, Goto, Types, Done, Idle
  <2>2. \A s \in Listed : Work(s).sess = s /\ ~Work(s).killed /\ auth'[s].gen > 0
    BY <2>1 DEF Work, Revocations, RowsBegan
  <2> QED
    BY <1>2, <2>1, <2>2 DEF TodoOK, BatchOK
<1>5. ASSUME NEW w \in todo[r], Kill(r, w) \/ Vanished(r, w) \/ DropRow(r, w)
      PROVE  TodoOK' /\ BatchOK'
  <2> DEFINE v == [w EXCEPT !.killed = TRUE]
  <2>1. /\ w \in Todo /\ v.sess = w.sess /\ v.killed
        /\ req' = req /\ req[r].at = "revoking"
        /\ auth[w.sess].gen > 0 /\ auth'[w.sess].gen > 0
    BY <1>1, <1>5, BeganStays
       DEF Kill, Vanished, DropRow, Types, Todo, Revocations, TodoOK
  <2>2. \A u \in todo[r] : /\ auth'[u.sess].gen > 0
                           /\ u.killed => ~auth'[u.sess].live
    BY <1>1, BeganStays DEF Revocations, TodoOK
  <2>3. \A s \in batch[r].seen \ batch[r].spared :
          /\ auth'[s].gen > 0
          /\ ~auth'[s].live \/ \E u \in todo[r] : u.sess = s /\ ~u.killed
    BY <1>1, <2>1, BeganStays DEF Revocations, BatchOK
  <2>4. CASE /\ ~auth'[w.sess].live
             /\ todo' = [todo EXCEPT ![r] = (@ \ {w}) \cup {v}]
             /\ UNCHANGED batch
    <3>1. todo'[r] = (todo[r] \ {w}) \cup {v}
      BY <2>4 DEF Types
    <3> HIDE DEF v
    <3> QED
      BY <1>2, <2>1, <2>2, <2>3, <2>4, <3>1 DEF TodoOK, BatchOK
  <2>5. CASE /\ Skip(r, w)
             /\ \/ w.killed /\ UNCHANGED batch
                \/ batch' = [batch EXCEPT ![r].spared = @ \cup {w.sess}]
    <3>1. /\ todo'[r] = todo[r] \ {w} /\ batch'[r].seen = batch[r].seen
          /\ \/ w.killed /\ batch'[r].spared = batch[r].spared
             \/ batch'[r].spared = batch[r].spared \cup {w.sess}
      BY <2>5 DEF Skip, Types
    <3> QED
      BY <1>2, <2>1, <2>2, <2>3, <3>1 DEF TodoOK, BatchOK
  <2>6. auth' = [auth EXCEPT ![w.sess].live = FALSE] => ~auth'[w.sess].live
    BY <2>1 DEF Types, Todo
  <2>7. CASE Kill(r, w)
    BY <2>4, <2>5, <2>6, <2>7 DEF Kill
  <2>8. CASE Vanished(r, w) \/ DropRow(r, w)
    BY <2>5, <2>8 DEF Vanished, DropRow
  <2> QED
    BY <1>5, <2>7, <2>8
<1>6. CASE Revoked(r)
  BY <1>3, <1>6 DEF Revoked, AllSettled, Done, Idle, Types
<1>7. ASSUME req[r].at # "revoking", todo' = todo,
             Done(r) \/ req'[r].at = "minted" \/ Detect(r)
               \/ \E p \in Places \ {"revoking"} : Goto(r, p)
      PROVE  TodoOK' /\ BatchOK'
  <2>1. todo'[r] = {} /\ req'[r].at # "revoking"
    <3>1. todo'[r] = {}
      BY <1>7 DEF Revocations, TodoOK
    <3>2. Done(r) => req'[r].at = "done"
      BY DEF Done, Idle, Types
    <3>3. Detect(r) => req'[r].at = "checked"
      BY DEF Detect, Types, Request
    <3>4. \A p \in Places : Goto(r, p) => req'[r].at = p
      BY DEF Goto, Types, Request
    <3> QED
      BY <1>7, <3>1, <3>2, <3>3, <3>4
  <2> QED
    BY <1>3, <2>1
<1>8. CASE ListOthers(r) /\ ~Goto(r, "revoking")
  BY <1>7, <1>8 DEF ListOthers
<1>9. CASE Rotate(r) \/ Detect(r) \/ Upsert(r) \/ Alert(r) \/ Answer(r)
  <2>1. Rotate(r) => Done(r) \/ req'[r].at = "minted"
    BY DEF Rotate, Types, Request
  <2> QED
    BY <1>7, <1>9, <2>1 DEF Rotate, Detect, Upsert, Alert, Answer, Places
<1>10. CASE Burn(r) \/ Drop(r) \/ Cleared(r) \/ Wipe(r) \/ SaveControls(r)
  BY <1>7, <1>10 DEF Burn, Drop, Cleared, Wipe, SaveControls, sessionVars, Places
<1> QED
  BY <1>4, <1>5, <1>6, <1>8, <1>9, <1>10 DEF Proceed

\* "Other active sessions have been signed out" when the request is answered.
LEMMA AnswerStep ==
  ASSUME Types, Tokens, Revocations, NEW r \in Requests, Arrive(r) \/ Proceed(r),
         NEW q \in Requests, req[q].at = "revoking", req'[q].at = "done"
  PROVE  \A s \in batch[q].seen \ batch[q].spared : ~auth[s].live
<1>1. q = r
  BY OthersStep
<1>2. ~Arrive(r)
  BY <1>1 DEF Arrive, Open, SignIn, Refresh, SignOut, Revoke, Evict, ChangePassword, Reset,
              LoadControls
<1>3. Revoked(r)
  BY <1>1, <1>2
     DEF Proceed, Rotate, Detect, Upsert, Alert, Answer, Burn, Drop, Cleared, ListOthers,
         Kill, Vanished, DropRow, Wipe, SaveControls
<1> QED
  BY <1>1, <1>3 DEF Revoked, AllSettled, Revocations, BatchOK
-----------------------------------------------------------------------------
(* The list of devices. *)

(* A usable token, tracked, has its row: of those in a cookie and of those *)
(* a request has recorded and is about to hand out.                        *)
Covered(t) == (Usable(t) /\ t.sess \notin untracked)
                => t.sess \in Listed /\ ledger[t.sess].hash = t.gen

RecordedCovered ==
  \A r \in Requests : req[r].at \in {"alerting", "recorded"} => Covered(req[r].tok)

LEMMA RowIsNotNone ==
  ASSUME Types, Tokens, NEW r \in Requests, Upsert(r), NEW s \in SessionIds
  PROVE  Recorded(r, ledger[s]) # None
<1>1. req[r].tok \in Tok /\ req[r].by \in Browsers /\ req[r].addr \in Addresses
  BY DEF Upsert, Minting, Tokens, MintingOK, Types, Request
<1>2. Recorded(r, ledger[s]) \in [id : Requests, hash : Nat, on : Browsers \X Addresses]
  BY <1>1 DEF Recorded, SurfaceOf, Types, LedgerRow, Tok
<1> QED
  BY <1>2, Constants

\* What takes a row away: the sign-out with its hash, a reset, or a revocation.
LEMMA RowLoss ==
  ASSUME Types, Tokens, NEW r \in Requests, Arrive(r) \/ Proceed(r),
         NEW s \in Listed, ledger'[s] = None
  PROVE  \/ Drop(r) /\ s = req[r].tok.sess /\ ledger[s].hash = req[r].tok.gen
         \/ Wipe(r) /\ Alive \subseteq untracked'
         \/ \E w \in todo[r] : w.killed /\ w.sess = s
<1>1. s \in SessionIds /\ ledger' # ledger /\ ledger[s] # None
  BY DEF Listed
<1>2. ~Arrive(r)
  BY <1>1 DEF Arrive, SignIn, Refresh, SignOut, Revoke, Evict, ChangePassword, Reset,
              LoadControls, sessionVars
<1>3. ~Upsert(r)
  BY <1>1, RowIsNotNone DEF Upsert, Types
<1>4. CASE Drop(r)
  BY <1>1, <1>4 DEF Drop
<1>5. CASE Wipe(r)
  BY <1>1, <1>5 DEF Wipe
<1>6. ASSUME NEW w \in todo[r], Kill(r, w) \/ Vanished(r, w) \/ DropRow(r, w)
      PROVE  w.killed /\ w.sess = s
  BY <1>1, <1>6 DEF Kill, Vanished, DropRow, Types
<1> QED
  BY <1>1, <1>2, <1>3, <1>4, <1>5, <1>6
     DEF Proceed, Rotate, Detect, Alert, Answer, Burn, Cleared, ListOthers, Revoked,
         SaveControls, sessionVars

LEMMA CoveredStays ==
  ASSUME Types, Tokens, Burned, Revocations, NEW r \in Requests, Arrive(r) \/ Proceed(r),
         NEW t \in Tok, Covered(t), Usable(t)', t.sess \notin untracked',
         Old(t) \/ \E q \in Requests : req[q].at \in {"alerting", "recorded"}
                                       /\ req[q].tok = t
  PROVE  t.sess \in Listed' /\ ledger'[t.sess].hash = t.gen
<1>1. t.sess \in SessionIds /\ t.gen \in Nat /\ t.gen <= auth[t.sess].gen
  BY DEF Tok, Types, Old, Tokens, MintingOK, Minting
<1>2. Usable(t) /\ auth[t.sess].live /\ auth[t.sess].gen = t.gen /\ t # None
  BY <1>1, UsableShrinks DEF Usable
<1>3. ~(Upsert(r) /\ t.sess = req[r].tok.sess)
  BY <1>1, <1>2 DEF Upsert, Old, Minting, Tokens, OneMints
<1>4. t.sess \in Listed /\ ledger[t.sess].hash = t.gen
  BY <1>2, <1>3, UntrackedStep DEF Covered
<1>5. ledger'[t.sess] # None
  <2>1. ~(Drop(r) /\ t.sess = req[r].tok.sess /\ t.gen = req[r].tok.gen)
    <3> SUFFICES ASSUME Drop(r), t.sess = req[r].tok.sess, t.gen = req[r].tok.gen
                 PROVE  FALSE
      OBVIOUS
    <3>1. req[r].at = "burned" /\ req[r].tok \in Tok
      BY DEF Drop, Tokens, HandedOut
    <3>2. req[r].tok = t
      BY <3>1 DEF Tok
    <3>3. t.sess \in untracked
      BY <1>2, <3>1, <3>2 DEF Burned
    <3> QED
      BY <1>3, <3>2, <3>3, UntrackedStep
  <2>2. ~(Wipe(r) /\ Alive \subseteq untracked')
    BY <1>1, <1>2 DEF Alive
  <2>3. ~ \E w \in todo[r] : w.killed /\ w.sess = t.sess
    BY <1>2 DEF Revocations, TodoOK
  <2> QED
    BY <1>4, <2>1, <2>2, <2>3, RowLoss
<1>6. ledger'[t.sess] = ledger[t.sess]
  BY <1>1, <1>3, <1>5, LedgerStep
<1> QED
  BY <1>1, <1>4, <1>5, <1>6 DEF Listed

LEMMA DevicesKept ==
  ASSUME Types, Tokens, Burned, Revocations, RecordedCovered, ActiveDeviceIsListed,
         NEW r \in Requests, Arrive(r) \/ Proceed(r)
  PROVE  RecordedCovered' /\ ActiveDeviceIsListed'
<1>1. ASSUME NEW q \in Requests, req'[q].at \in {"alerting", "recorded"}
      PROVE  \/ req[q].at \in {"alerting", "recorded"} /\ req'[q].tok = req[q].tok
             \/ q = r /\ Upsert(r)
  <2>1. CASE q # r
    BY <1>1, <2>1, OthersStep
  <2>2. CASE q = r
    <3>1. ~Arrive(r)
      BY <1>1, <2>2
         DEF Arrive, Open, SignIn, Refresh, SignOut, Revoke, Evict, ChangePassword, Reset,
             LoadControls, Types
    <3>2. ~Done(r)
      BY <1>1, <2>2 DEF Done, Idle, Types
    <3>3. \A p \in Places : Goto(r, p) => req'[r].at = p /\ req'[r].tok = req[r].tok
      BY DEF Goto, Types, Request
    <3>4. ~Rotate(r) /\ ~Detect(r)
      BY <1>1, <2>2, <3>2 DEF Rotate, Detect, Types, Request
    <3> QED
      BY <1>1, <2>2, <3>1, <3>2, <3>3, <3>4
         DEF Proceed, Upsert, Alert, Answer, Burn, Drop, Cleared, ListOthers, Kill, Vanished,
             DropRow, Revoked, Wipe, SaveControls, Places
  <2> QED
    BY <2>1, <2>2
<1>2. ASSUME NEW q \in Requests, req[q].at \in {"alerting", "recorded"}, NEW t, t = req[q].tok,
             Usable(t)', t.sess \notin untracked'
      PROVE  t.sess \in Listed' /\ ledger'[t.sess].hash = t.gen
  <2>1. t \in Tok
    BY <1>2 DEF Tokens, MintingOK, Minting
  <2> QED
    BY <1>2, <2>1, CoveredStays DEF RecordedCovered
<1>3. ASSUME Upsert(r), NEW t, t = req[r].tok, t.sess \notin untracked'
      PROVE  t.sess \in Listed' /\ ledger'[t.sess].hash = t.gen
  <2>1. t.sess \in SessionIds
    BY <1>3 DEF Upsert, Minting, Tokens, MintingOK, Tok
  <2>2. ledger'[t.sess] = Recorded(r, ledger[t.sess])
    BY <1>3, <2>1 DEF Upsert, Types
  <2>3. Recorded(r, ledger[t.sess]) # None
    BY <1>3, <2>1, RowIsNotNone
  <2>4. Recorded(r, ledger[t.sess]).hash = t.gen
    BY <1>3 DEF Recorded
  <2> QED
    BY <2>1, <2>2, <2>3, <2>4 DEF Listed
<1>4. Upsert(r) => req'[r].tok = req[r].tok
  BY DEF Upsert, Goto, Types, Request
<1>5. RecordedCovered'
  BY <1>1, <1>2, <1>3, <1>4 DEF RecordedCovered, Covered, Usable, Listed
<1>6. ASSUME NEW b \in Browsers
      PROVE  \/ cookie'[b] = None
             \/ cookie'[b] = cookie[b]
             \/ req[r].at = "recorded" /\ cookie'[b] = req[r].tok
  <2>1. CASE Arrive(r)
    BY <2>1 DEF Arrive, SignIn, Refresh, SignOut, Revoke, Evict, ChangePassword, Reset,
                LoadControls, sessionVars
  <2>2. CASE Answer(r) \/ Cleared(r)
    BY <2>2 DEF Answer, Cleared, Types
  <2>3. CASE Proceed(r)
    BY <2>2, <2>3
       DEF Proceed, Rotate, Detect, Upsert, Alert, Burn, Drop, ListOthers, Kill, Vanished,
           DropRow, Revoked, Wipe, SaveControls, sessionVars
  <2> QED
    BY <2>1, <2>3
<1>7. ASSUME NEW b \in Browsers, NEW t, t = cookie'[b], Usable(t)', t.sess \notin untracked'
      PROVE  t.sess \in Listed' /\ ledger'[t.sess].hash = t.gen
  <2>1. t # None
    BY <1>7 DEF Usable
  <2>2. CASE t = cookie[b]
    <3>1. t \in Tok /\ Old(t) /\ Covered(t)
      BY <2>1, <2>2 DEF Types, Tokens, HandedOut, ActiveDeviceIsListed, Covered
    <3> QED
      BY <1>7, <3>1, CoveredStays
  <2>3. CASE req[r].at = "recorded" /\ t = req[r].tok
    BY <1>2, <1>7, <2>3
  <2> QED
    BY <1>6, <1>7, <2>1, <2>2, <2>3
<1>8. ActiveDeviceIsListed'
  BY <1>7 DEF ActiveDeviceIsListed, Usable, Listed
<1> QED
  BY <1>5, <1>8
-----------------------------------------------------------------------------
(* The list shows the living. *)

(* Who is about to record a session that died is known. *)
RecordingOK ==
  \A r \in Requests : req[r].at \in {"minted", "checked"} =>
    auth[req[r].tok.sess].live \/ req[r].tok.sess \in ghosts

LEMMA GhostsStay ==
  ASSUME NEW r \in Requests, Arrive(r) \/ Proceed(r)
  PROVE  ghosts \subseteq ghosts'
<1>1. CASE Arrive(r)
  BY <1>1 DEF Arrive, SignIn, Refresh, SignOut, Revoke, Evict, ChangePassword, Reset,
              LoadControls, sessionVars
<1>2. CASE Proceed(r)
  BY <1>2
     DEF Proceed, Rotate, Detect, Upsert, Alert, Answer, Burn, Drop, Cleared, ListOthers, Kill,
         Vanished, DropRow, Revoked, Wipe, SaveControls, sessionVars
<1> QED
  BY <1>1, <1>2

\* A session that dies is a ghost, or somebody is about to delete its row.
LEMMA DeathStep ==
  ASSUME Types, Tokens, NEW r \in Requests, Arrive(r) \/ Proceed(r),
         NEW s \in SessionIds, auth[s].live, ~auth'[s].live
  PROVE  \/ s \in ghosts'
         \/ \E w \in todo[r] : /\ w.sess = s /\ ~Overlapped(w)
                               /\ [w EXCEPT !.killed = TRUE] \in todo'[r]
                               /\ ledger' = ledger
<1>1. auth' # auth
  OBVIOUS
<1>2. CASE Arrive(r)
  <2>1. ASSUME NEW b \in Browsers, NEW a \in Addresses, NEW u \in SessionIds,
               SignIn(r, b, a, u)
        PROVE  FALSE
    BY <2>1 DEF SignIn, Types
  <2>2. ASSUME NEW ended \in SUBSET SessionIds, Reset(r, ended) PROVE s \in ghosts'
    BY <2>2 DEF Reset, Types
  <2> QED
    BY <1>1, <1>2, <2>1, <2>2
       DEF Arrive, Refresh, SignOut, Revoke, Evict, ChangePassword, LoadControls, sessionVars
<1>3. CASE Rotate(r) \/ Burn(r)
  <2>1. req[r].tok \in Tok
    BY <1>3 DEF Rotate, Burn, Tokens, HandedOut
  <2>2. ~Spend(req[r].tok)
    BY <2>1 DEF Spend, Types, Tok
  <2> QED
    BY <1>1, <1>3, <2>2 DEF Rotate, Burn
<1>4. ASSUME NEW w \in todo[r], Kill(r, w) \/ Vanished(r, w) \/ DropRow(r, w)
      PROVE  \/ s \in ghosts'
             \/ /\ w.sess = s /\ ~Overlapped(w)
                /\ [w EXCEPT !.killed = TRUE] \in todo'[r]
                /\ ledger' = ledger
  <2>1. Kill(r, w) /\ auth' = [auth EXCEPT ![w.sess].live = FALSE]
    BY <1>1, <1>4 DEF Kill, Vanished, DropRow
  <2>2. w.sess = s
    BY <2>1 DEF Types
  <2> QED
    BY <1>1, <2>1, <2>2 DEF Kill, Types
<1>5. CASE Proceed(r)
  BY <1>1, <1>3, <1>4, <1>5
     DEF Proceed, Detect, Upsert, Alert, Answer, Drop, Cleared, ListOthers, Revoked, Wipe,
         SaveControls, sessionVars
<1> QED
  BY <1>2, <1>5

LEMMA RecordingKept ==
  ASSUME Types, Tokens, RecordingOK, NEW r \in Requests, Arrive(r) \/ Proceed(r)
  PROVE  RecordingOK'
<1> SUFFICES ASSUME NEW q \in Requests, req'[q].at \in {"minted", "checked"}
             PROVE  auth'[req'[q].tok.sess].live \/ req'[q].tok.sess \in ghosts'
  BY DEF RecordingOK
<1>1. ASSUME req[q].at \in {"minted", "checked"}, req'[q].tok = req[q].tok
      PROVE  auth'[req'[q].tok.sess].live \/ req'[q].tok.sess \in ghosts'
  <2> DEFINE s == req[q].tok.sess
  <2>1. s \in SessionIds /\ q \in InProgress
    BY <1>1 DEF Tokens, MintingOK, Minting, Tok, InProgress
  <2>2. Recording(s)
    BY <1>1, <2>1 DEF Recording
  <2>3. CASE auth[s].live /\ ~auth'[s].live
    BY <1>1, <2>1, <2>2, <2>3, DeathStep DEF Overlapped
  <2>4. CASE s \in ghosts
    BY <1>1, <2>4, GhostsStay
  <2> QED
    BY <1>1, <2>3, <2>4 DEF RecordingOK
<1>2. CASE q # r
  BY <1>1, <1>2, OthersStep
<1>3. CASE q = r
  <2>1. ASSUME NEW b \in Browsers, NEW a \in Addresses, NEW s \in SessionIds,
               SignIn(r, b, a, s)
        PROVE  auth'[req'[r].tok.sess].live
    <3>1. req'[r].tok = [sess |-> s, gen |-> 1]
      BY <2>1 DEF SignIn, Open, Types
    <3> QED
      BY <2>1, <3>1 DEF SignIn, Types
  <2>2. CASE Arrive(r)
    BY <1>3, <2>1, <2>2
       DEF Arrive, Open, Refresh, SignOut, Revoke, Evict, ChangePassword, Reset,
           LoadControls, Types
  <2>3. ~Done(r)
    BY <1>3 DEF Done, Idle, Types
  <2>4. CASE Rotate(r)
    <3>1. /\ Usable(req[r].tok) /\ Spend(req[r].tok) /\ req[r].tok \in Tok
          /\ req'[r].tok.sess = req[r].tok.sess
      BY <2>3, <2>4 DEF Rotate, Types, Request, Tokens, HandedOut, Tok
    <3> QED
      BY <1>3, <3>1 DEF Usable, Spend, Types, Tok
  <2>5. CASE Detect(r)
    BY <1>1, <1>3, <2>5 DEF Detect, Types, Request
  <2>6. \A p \in Places \ {"minted", "checked"} : ~Goto(r, p)
    BY <1>3 DEF Goto, Types, Request
  <2>7. req' = req => auth'[req'[r].tok.sess].live \/ req'[r].tok.sess \in ghosts'
    BY <1>1, <1>3
  <2>8. CASE Proceed(r)
    BY <1>3, <2>3, <2>4, <2>5, <2>6, <2>7, <2>8
       DEF Proceed, Upsert, Alert, Answer, Burn, Drop, Cleared, ListOthers, Kill, Vanished,
           DropRow, Revoked, Wipe, SaveControls, Places
  <2> QED
    BY <2>2, <2>8
<1> QED
  BY <1>2, <1>3

\* A deletion that is due stays due until the row was deleted or could not be.
LEMMA DueStays ==
  ASSUME Types, Revocations, NEW r \in Requests, Arrive(r) \/ Proceed(r),
         NEW w \in todo[r], w.killed
  PROVE  w \in todo'[r] \/ DropRow(r, w)
<1>1. req[r].at = "revoking"
  BY DEF Revocations, TodoOK
<1>2. CASE Arrive(r)
  BY <1>1, <1>2
     DEF Arrive, Open, SignIn, Refresh, SignOut, Revoke, Evict, ChangePassword, Reset,
         LoadControls
<1>3. ASSUME NEW v \in todo[r], Kill(r, v) \/ Vanished(r, v) \/ DropRow(r, v)
      PROVE  w \in todo'[r] \/ DropRow(r, w)
  BY <1>3 DEF Kill, Vanished, DropRow, Skip, Types
<1>4. CASE Proceed(r)
  BY <1>1, <1>3, <1>4
     DEF Proceed, Rotate, Detect, Upsert, Alert, Answer, Burn, Drop, Cleared, ListOthers,
         Revoked, Wipe, SaveControls, sessionVars
<1> QED
  BY <1>2, <1>4

LEMMA ListedKept ==
  ASSUME Types, Tokens, Revocations, RecordingOK, ListedIsLive,
         NEW r \in Requests, Arrive(r) \/ Proceed(r)
  PROVE  ListedIsLive'
<1> SUFFICES ASSUME NEW s \in SessionIds, ledger'[s] # None, ~auth'[s].live, s \notin ghosts'
             PROVE  \E q \in Requests : \E w \in todo'[q] :
                      w.killed /\ w.sess = s /\ ledger'[s].id = w.id
  BY DEF ListedIsLive, Listed, HasRow
<1>1. ledger'[s] = ledger[s] /\ s \in Listed
  <2>1. ~(Upsert(r) /\ s = req[r].tok.sess)
    <3> SUFFICES ASSUME Upsert(r), s = req[r].tok.sess PROVE FALSE
      OBVIOUS
    <3>1. auth[s].live \/ s \in ghosts
      BY DEF Upsert, RecordingOK
    <3> QED
      BY <3>1, GhostsStay DEF Upsert
  <2> QED
    BY <2>1, LedgerStep DEF Listed
<1>2. s \notin ghosts
  BY GhostsStay
<1>3. CASE auth[s].live
  <2>1. PICK w \in todo[r] : /\ w.sess = s /\ ~Overlapped(w)
                              /\ [w EXCEPT !.killed = TRUE] \in todo'[r]
    BY <1>3, DeathStep
  <2>2. ledger[s].id = w.id
    BY <1>1, <2>1 DEF Overlapped, HasRow
  <2>3. w \in Todo
    BY <2>1 DEF Types
  <2>4. /\ [w EXCEPT !.killed = TRUE].killed /\ [w EXCEPT !.killed = TRUE].sess = s
        /\ [w EXCEPT !.killed = TRUE].id = w.id
    BY <2>1, <2>3 DEF Todo
  <2> QED
    BY <1>1, <2>1, <2>2, <2>4
<1>4. CASE ~auth[s].live
  <2>0. PICK q \in Requests :
          \E w \in todo[q] : w.killed /\ w.sess = s /\ HasRow(w)
    BY <1>1, <1>2, <1>4 DEF ListedIsLive
  <2>1. PICK w \in todo[q] : w.killed /\ w.sess = s /\ HasRow(w)
    BY <2>0
  <2>2. CASE w \in todo'[q]
    BY <1>1, <2>1, <2>2 DEF HasRow
  <2>3. CASE w \notin todo'[q]
    <3>1. q = r
      BY <2>3, OthersStep
    <3>2. DropRow(r, w)
      BY <2>1, <2>3, <3>1, DueStays
    <3> QED
      BY <2>1, <3>2 DEF DropRow, Types
  <2> QED
    BY <2>2, <2>3
<1> QED
  BY <1>3, <1>4
-----------------------------------------------------------------------------
(* New devices. *)

Announced(x) ==
  x \in told \/ \E r \in Requests : req[r].at = "alerting" /\ SurfaceOf(r) = x

(* A request that found its surface in the list need not announce it. *)
DetectedOK ==
  \A r \in Requests : (req[r].at = "checked" /\ ~req[r].isNew) => Announced(SurfaceOf(r))

LEMMA AnnouncedStays ==
  ASSUME Types, NEW r \in Requests, Arrive(r) \/ Proceed(r), NEW x, Announced(x)
  PROVE  x \in told' \/ \E q \in Requests : req'[q].at = "alerting" /\ SurfaceOf(q)' = x
<1>1. told \subseteq told'
  <2>1. CASE Arrive(r)
    BY <2>1 DEF Arrive, SignIn, Refresh, SignOut, Revoke, Evict, ChangePassword, Reset,
                LoadControls, sessionVars
  <2>2. CASE Proceed(r)
    BY <2>2
       DEF Proceed, Rotate, Detect, Upsert, Alert, Answer, Burn, Drop, Cleared, ListOthers,
           Kill, Vanished, DropRow, Revoked, Wipe, SaveControls, sessionVars
  <2> QED
    BY <2>1, <2>2
<1>2. ASSUME NEW q \in Requests, req[q].at = "alerting", SurfaceOf(q) = x, x \notin told'
      PROVE  req'[q].at = "alerting" /\ SurfaceOf(q)' = x
  <2>1. CASE req'[q] = req[q]
    BY <1>2, <2>1 DEF SurfaceOf
  <2>2. CASE q = r /\ req' # req
    <3>1. ~Arrive(r)
      BY <1>2, <2>2
         DEF Arrive, Open, SignIn, Refresh, SignOut, Revoke, Evict, ChangePassword, Reset,
             LoadControls
    <3>2. ~Alert(r)
      BY <1>2, <2>2 DEF Alert
    <3> QED
      BY <1>2, <2>2, <3>1, <3>2
         DEF Proceed, Rotate, Detect, Upsert, Answer, Burn, Drop, Cleared, ListOthers, Kill,
             Vanished, DropRow, Revoked, Wipe, SaveControls
  <2> QED
    BY <2>1, <2>2, OthersStep
<1> QED
  BY <1>1, <1>2 DEF Announced

LEMMA AlertsKept ==
  ASSUME Types, Tokens, DetectedOK, NewDeviceIsAlerted, NEW r \in Requests,
         Arrive(r) \/ Proceed(r)
  PROVE  DetectedOK' /\ NewDeviceIsAlerted'
<1> DEFINE Stays(x) ==
  x \in told' \/ \E q \in Requests : req'[q].at = "alerting" /\ SurfaceOf(q)' = x
<1>1. \A x : Announced(x) => Stays(x)
  BY AnnouncedStays
<1>2. ASSUME NEW q \in Requests, req'[q].at = "checked", ~req'[q].isNew
      PROVE  Stays(SurfaceOf(q)')
  <2>1. CASE req'[q] = req[q]
    <3>1. SurfaceOf(q)' = SurfaceOf(q)
      BY <2>1 DEF SurfaceOf
    <3> QED
      BY <1>1, <1>2, <2>1, <3>1 DEF DetectedOK
  <2>2. CASE q = r /\ Detect(r)
    <3>1. SurfaceOf(r)' = SurfaceOf(r)
      BY <2>2 DEF Detect, SurfaceOf, Types, Request
    <3>2. Known(r) \/ SurfaceOf(r) \in told'
      BY <1>2, <2>2 DEF Detect, Types, Request, Known
    <3>3. Known(r) => Announced(SurfaceOf(r))
      BY DEF Known, NewDeviceIsAlerted, Announced
    <3> QED
      BY <1>1, <2>2, <3>1, <3>2, <3>3
  <2>3. CASE q = r /\ ~Detect(r) /\ req' # req
    <3>1. ~Arrive(r)
      BY <1>2, <2>3
         DEF Arrive, Open, SignIn, Refresh, SignOut, Revoke, Evict, ChangePassword, Reset,
             LoadControls, Types
    <3>2. ~Done(r)
      BY <1>2, <2>3 DEF Done, Idle, Types
    <3>3. \A p \in Places \ {"checked"} : ~Goto(r, p)
      BY <1>2, <2>3 DEF Goto, Types, Request
    <3>4. ~Rotate(r)
      BY <1>2, <2>3, <3>2 DEF Rotate, Types, Request
    <3> QED
      BY <2>3, <3>1, <3>2, <3>3, <3>4
         DEF Proceed, Upsert, Alert, Answer, Burn, Drop, Cleared, ListOthers, Kill, Vanished,
             DropRow, Revoked, Wipe, SaveControls, Places
  <2> QED
    BY <2>1, <2>2, <2>3, OthersStep
<1>3. ASSUME NEW s \in SessionIds, ledger'[s] # None PROVE Stays(ledger'[s].on)
  <2>1. CASE ledger'[s] = ledger[s]
    BY <1>1, <1>3, <2>1 DEF NewDeviceIsAlerted, Announced, Listed
  <2>2. CASE ledger'[s] # ledger[s]
    <3>1. Upsert(r) /\ ledger'[s].on = SurfaceOf(r)
      <4>1. Upsert(r) /\ ledger'[s] = Recorded(r, ledger[s])
        BY <1>3, <2>2, LedgerStep
      <4> QED
        BY <4>1 DEF Recorded
    <3>2. CASE req[r].isNew
      <4>1. req'[r].at = "alerting" /\ SurfaceOf(r)' = SurfaceOf(r)
        BY <3>1, <3>2 DEF Upsert, Goto, SurfaceOf, Types, Request
      <4> QED
        BY <3>1, <4>1
    <3>3. CASE ~req[r].isNew
      BY <1>1, <3>1, <3>3 DEF Upsert, DetectedOK
    <3> QED
      BY <3>2, <3>3
  <2> QED
    BY <2>1, <2>2
<1>4. DetectedOK'
  BY <1>2 DEF DetectedOK, Announced
<1>5. NewDeviceIsAlerted'
  BY <1>3 DEF NewDeviceIsAlerted, Listed
<1> QED
  BY <1>4, <1>5
-----------------------------------------------------------------------------
(* The settings. *)

(* A change that nothing overlapped was made to the row as it still is. *)
ReadOK ==
  \A r \in Requests : (req[r].at = "loaded" /\ ~upd[r].dirty) => upd[r].cur = Stored

LEMMA StoredTypes ==
  ASSUME Types
  PROVE  /\ Stored \in Controls /\ None \notin Controls
         /\ \A r \in Requests : Changed(upd[r]) \in Controls
BY Constants DEF Types, Stored, Default, Controls, Changed, Update

\* Only a save changes the row.
LEMMA ControlsStep ==
  ASSUME NEW r \in Requests, Arrive(r) \/ Proceed(r), ~SaveControls(r)
  PROVE  /\ controls' = controls
         /\ upd' = upd \/ \E b \in Browsers, k \in Keys, v \in BOOLEAN : LoadControls(r, b, k, v)
<1>1. CASE Arrive(r)
  BY <1>1 DEF Arrive, SignIn, Refresh, SignOut, Revoke, Evict, ChangePassword, Reset,
              LoadControls
<1>2. CASE Proceed(r)
  BY <1>2
     DEF Proceed, Rotate, Detect, Upsert, Alert, Answer, Burn, Drop, Cleared, ListOthers, Kill,
         Vanished, DropRow, Revoked, Wipe
<1> QED
  BY <1>1, <1>2

LEMMA ReadKept ==
  ASSUME Types, ReadOK, NEW r \in Requests, Arrive(r) \/ Proceed(r)
  PROVE  ReadOK'
<1> SUFFICES ASSUME NEW q \in Requests, req'[q].at = "loaded", ~upd'[q].dirty
             PROVE  upd'[q].cur = Stored'
  BY DEF ReadOK
<1>1. CASE SaveControls(r)
  <2>1. q # r
    BY <1>1 DEF SaveControls, Done, Idle, Types
  <2>2. req'[q] = req[q]
    BY <2>1, OthersStep
  <2>3. upd' = [upd EXCEPT ![r] = NoUpdate] /\ UNCHANGED controls
    <3>1. [upd[q] EXCEPT !.dirty = TRUE].dirty
      BY DEF Types, Update
    <3> QED
      BY <1>1, <2>1, <2>2, <3>1 DEF SaveControls
  <2>4. upd'[q] = upd[q] /\ Stored' = Stored
    BY <2>1, <2>3 DEF Types, Stored
  <2> QED
    BY <2>2, <2>4 DEF ReadOK
<1>2. ASSUME NEW b \in Browsers, NEW k \in Keys, NEW v \in BOOLEAN, LoadControls(r, b, k, v)
      PROVE  upd'[q].cur = Stored'
  <2>1. Stored' = Stored
    BY <1>2 DEF LoadControls, Stored
  <2>2. CASE q = r
    BY <1>2, <2>1, <2>2 DEF LoadControls, Types
  <2>3. CASE q # r
    BY <1>2, <2>1, <2>3, OthersStep DEF LoadControls, ReadOK, Types
  <2> QED
    BY <2>2, <2>3
<1>3. CASE ~SaveControls(r) /\ upd' = upd
  <2>1. Stored' = Stored
    BY <1>3, ControlsStep DEF Stored
  <2>2. req[q].at = "loaded" \/ q = r
    BY OthersStep
  <2>3. CASE req[q].at = "loaded"
    BY <1>3, <2>1, <2>3 DEF ReadOK
  <2>4. CASE q = r /\ req[q].at # "loaded"
    <3>1. ~Done(r) /\ \A p \in Places \ {"loaded"} : ~Goto(r, p)
      BY <2>4 DEF Done, Idle, Goto, Types, Request
    <3>2. ~Rotate(r) /\ ~Detect(r)
      BY <2>4, <3>1 DEF Rotate, Detect, Types, Request
    <3>3. CASE Arrive(r)
      BY <1>2, <2>4, <3>3
         DEF Arrive, Open, SignIn, Refresh, SignOut, Revoke, Evict, ChangePassword, Reset,
             Types
    <3>4. CASE Proceed(r)
      BY <2>4, <3>1, <3>2, <3>4
         DEF Proceed, Upsert, Alert, Answer, Burn, Drop, Cleared, ListOthers, Kill, Vanished,
             DropRow, Revoked, Wipe, SaveControls, Places
    <3> QED
      BY <3>3, <3>4
  <2> QED
    BY <2>2, <2>3, <2>4
<1> QED
  BY <1>1, <1>2, <1>3, ControlsStep

LEMMA SaveStep ==
  ASSUME Types, ReadOK, NEW r \in Requests, Arrive(r) \/ Proceed(r),
         NEW k \in Keys, Stored'[k] # Stored[k]
  PROVE  \E q \in Requests : /\ req[q].at = "loaded" /\ req'[q].at = "done"
                             /\ upd[q].key = k \/ upd[q].dirty
<1>1. SaveControls(r) /\ controls' # controls
  BY ControlsStep DEF Stored
<1>2. controls' = Changed(upd[r]) /\ Stored' = Changed(upd[r])
  BY <1>1, StoredTypes DEF SaveControls, Stored
<1>3. req[r].at = "loaded" /\ req'[r].at = "done"
  BY <1>1 DEF SaveControls, Done, Idle, Types
<1>4. CASE upd[r].key # k /\ ~upd[r].dirty
  <2>1. upd[r].cur = Stored
    BY <1>3, <1>4 DEF ReadOK
  <2>2. Changed(upd[r])[k] = Stored[k]
    BY <1>4, <2>1, StoredTypes DEF Changed, Controls
  <2> QED
    BY <1>2, <2>2
<1> QED
  BY <1>3, <1>4
-----------------------------------------------------------------------------
(* The inductive invariant. *)

IInv ==
  /\ Types /\ Tokens /\ Burned /\ Revocations /\ RecordedCovered /\ RecordingOK
  /\ DetectedOK /\ ReadOK
  /\ SignedOutIsGone /\ ActiveDeviceIsListed /\ ListedIsLive /\ NewDeviceIsAlerted

LEMMA InitIInv == Init => IInv
<1> SUFFICES ASSUME Init PROVE IInv
  OBVIOUS
<1>1. Types
  BY InitTypes
<1>2. \A r \in Requests : req[r].at = "idle" /\ todo[r] = {}
  BY DEF Init, Idle
<1>3. Listed = {} /\ gone = {} /\ \A b \in Browsers : cookie[b] = None
  BY DEF Init, Listed
<1>4. Tokens /\ Burned
  BY <1>2, <1>3 DEF Tokens, MintingOK, OneMints, HandedOut, Minting, Burned
<1>5. Revocations
  BY <1>2, <1>3 DEF Revocations, RowsBegan, TodoOK, BatchOK
<1>6. RecordedCovered /\ RecordingOK /\ DetectedOK /\ ReadOK
  BY <1>2 DEF RecordedCovered, RecordingOK, DetectedOK, ReadOK
<1>7. SignedOutIsGone /\ ActiveDeviceIsListed /\ ListedIsLive /\ NewDeviceIsAlerted
  BY <1>3 DEF SignedOutIsGone, ActiveDeviceIsListed, Usable, ListedIsLive, NewDeviceIsAlerted
<1> QED
  BY <1>1, <1>4, <1>5, <1>6, <1>7 DEF IInv

LEMMA StutterKeeps == ASSUME IInv, UNCHANGED vars PROVE IInv'
<1> USE DEF vars
<1>1. Types' /\ Tokens' /\ Burned'
  BY DEF IInv, Types, Tokens, MintingOK, OneMints, HandedOut, Minting, Old, Burned, Usable
<1>2. Revocations' /\ RecordingOK' /\ ReadOK'
  BY DEF IInv, Revocations, RowsBegan, TodoOK, BatchOK, Listed, RecordingOK, ReadOK, Stored
<1>3. RecordedCovered' /\ DetectedOK'
  BY DEF IInv, RecordedCovered, Covered, Listed, Usable, DetectedOK, Announced, SurfaceOf
<1>4. SignedOutIsGone' /\ ActiveDeviceIsListed'
  BY DEF IInv, SignedOutIsGone, ActiveDeviceIsListed, Listed, Usable
<1>5. ListedIsLive' /\ NewDeviceIsAlerted'
  BY DEF IInv, ListedIsLive, NewDeviceIsAlerted, Listed, HasRow, SurfaceOf
<1> QED
  BY <1>1, <1>2, <1>3, <1>4, <1>5 DEF IInv

LEMMA NextIInv == IInv /\ [Next]_vars => IInv'
<1> SUFFICES ASSUME IInv, Next PROVE IInv'
  BY StutterKeeps
<1>0. Types /\ Tokens /\ Burned /\ Revocations
  BY DEF IInv
<1>1. PICK r \in Requests : Arrive(r) \/ Proceed(r)
  BY DEF Next
<1>2. Types'
  BY <1>0, <1>1, ArriveTypes, ProceedTypes DEF Tokens
<1>3. Tokens'
  BY <1>0, <1>1, ArriveTokens, ProceedTokens
<1>4. Burned'
  BY <1>0, <1>1, BurnedKept
<1>5. Revocations'
  BY <1>0, <1>1, RowsBeganKept, ArriveRevocations, ProceedRevocations DEF Revocations
<1>6. RecordedCovered' /\ ActiveDeviceIsListed'
  BY <1>0, <1>1, DevicesKept DEF IInv
<1>7. RecordingOK' /\ ListedIsLive'
  BY <1>0, <1>1, RecordingKept, ListedKept DEF IInv
<1>8. DetectedOK' /\ NewDeviceIsAlerted'
  BY <1>0, <1>1, AlertsKept DEF IInv
<1>9. SignedOutIsGone' /\ ReadOK'
  BY <1>0, <1>1, SignedOutKept, ReadKept DEF IInv
<1> QED
  BY <1>2, <1>3, <1>4, <1>5, <1>6, <1>7, <1>8, <1>9 DEF IInv

\* The invariant of every execution.
LEMMA Invariant == Spec => []IInv
<1> QED
  BY InitIInv, NextIInv, PTL DEF Spec
-----------------------------------------------------------------------------
(* Generations. A request spends at most one token, once it is past the    *)
(* call that does so: no token is ever refreshed more often than there are *)
(* requests, which is the bound in TypeOK.                                 *)

Spent == {r \in Requests : req[r].at \notin {"idle", "sent"}}

GensWithin(n) ==
  /\ \A s \in SessionIds : auth[s].gen <= n
  /\ \A s \in SessionIds : ledger[s] # None => ledger[s].hash <= n
  /\ \A b \in Browsers : cookie[b] # None => cookie[b].gen <= n
  /\ \A r \in Requests : req[r].tok # None => req[r].tok.gen <= n
  /\ \A t \in gone : t.gen <= n

\* A request that spends a token had not, and has now.
LEMMA SpendStep ==
  ASSUME Types, NEW r \in Requests, Arrive(r) \/ Proceed(r)
  PROVE  /\ Spent \subseteq Spent' /\ Spent' \subseteq Spent \cup {r}
         /\ r \in Spent \/ r \notin Spent' => \A s \in SessionIds : auth'[s].gen = auth[s].gen
<1> USE DEF Types
<1>0. \A q \in Requests \ {r} : req'[q] = req[q]
  BY OthersStep
<1>1. CASE Arrive(r)
  <2>1. req[r].at = "idle"
    BY <1>1 DEF Arrive, Open, SignIn, Refresh, SignOut, Revoke, Evict, ChangePassword, Reset,
                LoadControls
  <2>2. ASSUME NEW b \in Browsers, NEW a \in Addresses, NEW s \in SessionIds,
               SignIn(r, b, a, s)
        PROVE  r \in Spent'
    <3>1. req'[r].at = "minted"
      BY <2>2 DEF SignIn, Open
    <3> QED
      BY <3>1 DEF Spent
  <2>3. CASE UNCHANGED auth
    BY <1>0, <2>1, <2>3 DEF Spent
  <2>4. ASSUME NEW ended \in SUBSET SessionIds, Reset(r, ended)
        PROVE  \A s \in SessionIds : auth'[s].gen = auth[s].gen
    BY <2>4 DEF Reset
  <2> QED
    BY <1>0, <1>1, <2>1, <2>2, <2>3, <2>4
       DEF Spent, Arrive, Refresh, SignOut, Revoke, Evict, ChangePassword, LoadControls,
           sessionVars
<1>2. CASE Rotate(r) \/ Burn(r)
  <2>1. req[r].at = "sent"
    BY <1>2 DEF Rotate, Burn
  <2>2. req'[r].at \in {"minted", "done", "burned"}
    <3>1. req[r] \in Request /\ (Done(r) => req'[r].at = "done")
      BY DEF Done, Idle
    <3>2. Goto(r, "burned") => req'[r].at = "burned"
      BY <3>1 DEF Goto, Request
    <3>3. CASE req' = [req EXCEPT ![r].at = "minted", ![r].tok.gen = @ + 1]
      BY <3>1, <3>3 DEF Request
    <3> QED
      BY <1>2, <3>1, <3>2, <3>3 DEF Rotate, Burn
  <2> QED
    BY <1>0, <2>1, <2>2 DEF Spent
<1>3. ASSUME req[r].at \notin {"idle", "sent"}, req'[r].at \notin {"idle", "sent"},
             \A s \in SessionIds : auth'[s].gen = auth[s].gen
      PROVE  /\ Spent \subseteq Spent' /\ Spent' \subseteq Spent \cup {r}
             /\ r \in Spent \/ r \notin Spent' => \A s \in SessionIds : auth'[s].gen = auth[s].gen
  BY <1>0, <1>3 DEF Spent
<1>4. CASE \/ Detect(r) \/ Upsert(r) \/ Alert(r) \/ Answer(r) \/ Drop(r) \/ Cleared(r)
           \/ ListOthers(r) \/ Revoked(r) \/ Wipe(r) \/ SaveControls(r)
  <2>1. UNCHANGED auth /\ req[r].at \notin {"idle", "sent"}
    BY <1>4 DEF Detect, Upsert, Alert, Answer, Drop, Cleared, ListOthers, Revoked, Wipe,
                SaveControls, sessionVars
  <2>2. req'[r].at \notin {"idle", "sent"}
    <3>1. req[r] \in Request /\ (Done(r) => req'[r].at = "done")
      BY DEF Done, Idle
    <3>2. ASSUME NEW place, Goto(r, place) PROVE req'[r].at = place
      BY <3>1, <3>2 DEF Goto, Request
    <3>3. ASSUME NEW n, req' = [req EXCEPT ![r].at = "checked", ![r].isNew = n]
          PROVE  req'[r].at = "checked"
      BY <3>1, <3>3 DEF Request
    <3> QED
      BY <1>4, <3>1, <3>2, <3>3
         DEF Detect, Upsert, Alert, Answer, Drop, Cleared, ListOthers, Revoked, Wipe, SaveControls
  <2> QED
    BY <1>3, <2>1, <2>2
<1>5. ASSUME NEW w \in todo[r], Kill(r, w) \/ Vanished(r, w) \/ DropRow(r, w)
      PROVE  /\ Spent \subseteq Spent' /\ Spent' \subseteq Spent \cup {r}
             /\ \A s \in SessionIds : auth'[s].gen = auth[s].gen
  <2>1. UNCHANGED req /\ (UNCHANGED auth \/ auth' = [auth EXCEPT ![w.sess].live = FALSE])
    BY <1>5 DEF Kill, Vanished, DropRow
  <2> QED
    BY <2>1 DEF Spent
<1> QED
  BY <1>1, <1>2, <1>4, <1>5 DEF Proceed

\* A token a request takes along is one it had, a cookie's, or a new one.
LEMMA TokenStep ==
  ASSUME Types, Tokens, NEW r \in Requests, Arrive(r) \/ Proceed(r)
  PROVE  \/ req'[r].tok \in {req[r].tok, None}
         \/ \E b \in Browsers : req'[r].tok = cookie[b]
         \/ \E s \in SessionIds : req'[r].tok.gen = auth'[s].gen
<1> USE DEF Types
<1>1. ASSUME NEW op, NEW b, NEW t, NEW a, NEW place, Open(r, op, b, t, a, place)
      PROVE  req'[r].tok = t
  BY <1>1 DEF Open
<1>2. CASE Arrive(r)
  <2>1. ASSUME NEW b \in Browsers, NEW a \in Addresses, NEW s \in SessionIds,
               SignIn(r, b, a, s)
        PROVE  req'[r].tok.gen = auth'[s].gen
    BY <1>1, <2>1 DEF SignIn
  <2>2. ASSUME NEW b \in Browsers, NEW a \in Addresses, Refresh(r, b, a)
        PROVE  req'[r].tok = cookie[b]
    BY <1>1, <2>2 DEF Refresh
  <2>3. ASSUME NEW b \in Browsers, SignOut(r, b) \/ ChangePassword(r, b)
        PROVE  req'[r].tok = cookie[b]
    BY <1>1, <2>3 DEF SignOut, ChangePassword
  <2>4. ASSUME \/ \E b \in Browsers, k \in Keys, v \in BOOLEAN : LoadControls(r, b, k, v)
               \/ \E b \in Browsers \cup {Admin}, s \in SessionIds : Revoke(r, b, s)
               \/ Evict(r)
               \/ \E ended \in SUBSET SessionIds : Reset(r, ended)
        PROVE  req'[r].tok = None
    BY <1>1, <2>4 DEF LoadControls, Revoke, Evict, Reset
  <2> QED
    BY <1>2, <2>1, <2>2, <2>3, <2>4 DEF Arrive
<1>3. CASE Rotate(r)
  <2>1. req[r].tok \in Tok
    BY <1>3 DEF Rotate, Tokens, HandedOut
  <2>2. Done(r) => req'[r].tok = None
    BY DEF Done, Idle
  <2>3. ASSUME Usable(req[r].tok), Spend(req[r].tok),
               req' = [req EXCEPT ![r].at = "minted", ![r].tok.gen = @ + 1]
        PROVE  req'[r].tok.gen = auth'[req[r].tok.sess].gen
    <3>1. req'[r].tok.gen = req[r].tok.gen + 1
      BY <2>1, <2>3 DEF Tok, Request
    <3>2. auth'[req[r].tok.sess].gen = auth[req[r].tok.sess].gen + 1
      BY <2>1, <2>3 DEF Spend, Tok
    <3> QED
      BY <2>3, <3>1, <3>2 DEF Usable
  <2> QED
    BY <1>3, <2>1, <2>2, <2>3 DEF Rotate, Tok
<1>4. ASSUME \/ \E place : Goto(r, place)
             \/ Done(r)
             \/ UNCHANGED req
             \/ \E n : req' = [req EXCEPT ![r].at = "checked", ![r].isNew = n]
      PROVE  req'[r].tok \in {req[r].tok, None}
  <2>1. req[r] \in Request
    OBVIOUS
  <2> QED
    BY <1>4, <2>1 DEF Goto, Done, Idle, Request
<1>5. CASE Proceed(r) /\ ~Rotate(r)
  <2>1. \/ \E place : Goto(r, place)
        \/ Done(r)
        \/ UNCHANGED req
        \/ \E n : req' = [req EXCEPT ![r].at = "checked", ![r].isNew = n]
    BY <1>5
       DEF Proceed, Detect, Upsert, Alert, Answer, Burn, Drop, Cleared, ListOthers, Kill,
           Vanished, DropRow, Revoked, Wipe, SaveControls
  <2> QED
    BY <1>4, <2>1
<1> QED
  BY <1>2, <1>3, <1>5

\* What a request hands out is the token it has.
LEMMA HandStep ==
  ASSUME Types, NEW r \in Requests, Arrive(r) \/ Proceed(r)
  PROVE  /\ \A b \in Browsers : cookie'[b] \in {cookie[b], req[r].tok, None}
         /\ \A t \in gone' : t \in gone \/ t = req[r].tok
<1>1. CASE Arrive(r)
  BY <1>1 DEF Arrive, SignIn, Refresh, SignOut, Revoke, Evict, ChangePassword, Reset,
              LoadControls, sessionVars
<1>2. CASE Proceed(r)
  BY <1>2
     DEF Types, Proceed, Rotate, Detect, Upsert, Alert, Answer, Burn, Drop, Cleared, ListOthers,
         Kill, Vanished, DropRow, Revoked, Wipe, SaveControls, sessionVars
<1> QED
  BY <1>1, <1>2

\* So every generation is bounded by whatever bounds the sessions'.
LEMMA GensStep ==
  ASSUME Types, Types', Tokens, NEW r \in Requests, Arrive(r) \/ Proceed(r),
         NEW n \in Nat, NEW m \in Nat, n <= m, GensWithin(n),
         \A s \in SessionIds : auth'[s].gen <= m
  PROVE  GensWithin(m)'
<1>1. \A t \in Tok : t.gen \in Nat
  BY DEF Tok
<1>2. ASSUME NEW t \in Tok, t.gen <= n PROVE t.gen <= m
  BY <1>1, <1>2
<1>3. req[r].tok \in Tok \cup {None} /\ \A b \in Browsers : cookie[b] \in Tok \cup {None}
  BY DEF Types, Request
<1>4. req[r].tok # None => req[r].tok.gen <= m
  BY <1>2, <1>3 DEF GensWithin
<1>5. \A b \in Browsers : cookie[b] # None => cookie[b].gen <= m
  BY <1>2, <1>3 DEF GensWithin
<1>6. \A b \in Browsers : cookie'[b] # None => cookie'[b].gen <= m
  BY <1>4, <1>5, HandStep
<1>7. \A t \in gone' : t.gen <= m
  <2>1. \A t \in gone : t.gen <= m
    BY <1>2 DEF GensWithin, Types
  <2>2. gone' \subseteq Tok /\ None \notin Tok
    <3>1. ASSUME None \in Tok PROVE FALSE
      BY <3>1, Constants DEF Tok
    <3> QED
      BY <3>1 DEF Types
  <2> QED
    BY <1>4, <2>1, <2>2, HandStep
<1>8. ASSUME NEW s \in SessionIds, ledger'[s] # None PROVE ledger'[s].hash <= m
  <2>1. ledger[s] # None => ledger[s].hash <= m
    <3>1. ledger[s] # None => ledger[s].hash \in Nat
      BY DEF Types, LedgerRow
    <3> QED
      BY <3>1 DEF GensWithin
  <2>2. CASE ledger'[s] = ledger[s]
    BY <1>8, <2>1, <2>2
  <2>3. CASE Upsert(r) /\ ledger'[s] = Recorded(r, ledger[s])
    <3>1. req[r].tok # None
      BY <2>3, Constants DEF Upsert, Minting, Tokens, MintingOK, Tok
    <3> QED
      BY <1>4, <2>3, <3>1 DEF Recorded
  <2> QED
    BY <1>8, <2>2, <2>3, LedgerStep
<1>9. ASSUME NEW q \in Requests, req'[q].tok # None PROVE req'[q].tok.gen <= m
  <2>1. CASE q = r
    BY <1>4, <1>5, <1>9, <2>1, TokenStep
  <2>2. CASE q # r
    <3>1. req'[q].tok = req[q].tok /\ req[q].tok \in Tok \cup {None}
      BY <2>2, OthersStep DEF Types, Request
    <3> QED
      BY <1>2, <1>9, <3>1 DEF GensWithin
  <2> QED
    BY <2>1, <2>2
<1> QED
  BY <1>6, <1>7, <1>8, <1>9 DEF GensWithin

LEMMA GensKept ==
  ASSUME IsFiniteSet(Requests), IInv, GensWithin(Cardinality(Spent)), [Next]_vars
  PROVE  GensWithin(Cardinality(Spent))'
<1>0. IsFiniteSet(Spent) /\ Cardinality(Spent) \in Nat
  BY FS_Subset, FS_CardinalityType DEF Spent
<1>1. CASE UNCHANGED vars
  BY <1>1 DEF vars, GensWithin, Spent
<1>2. CASE Next
  <2>1. PICK r \in Requests : Arrive(r) \/ Proceed(r)
    BY <1>2 DEF Next
  <2>2. Types /\ Types' /\ Tokens
    BY <1>2, NextIInv DEF IInv
  <2> DEFINE n == Cardinality(Spent)
             k == Cardinality(Spent)'
  <2>3. \A s \in SessionIds : auth[s].gen \in Nat /\ auth[s].gen <= n
    BY <2>2 DEF Types, GensWithin
  <2>4. CASE Spent' = Spent
    <3>1. \A s \in SessionIds : auth'[s].gen = auth[s].gen
      BY <2>1, <2>2, <2>4, SpendStep
    <3>2. \A s \in SessionIds : auth'[s].gen <= n
      BY <2>3, <3>1
    <3>3. n <= n
      BY <1>0
    <3>4. ASSUME NEW m \in Nat, m = n PROVE GensWithin(m)'
      BY <2>1, <2>2, <3>2, <3>3, <3>4, GensStep
    <3> QED
      BY <1>0, <2>4, <3>4 DEF GensWithin
  <2>5. CASE Spent' # Spent
    <3>1. Spent' = Spent \cup {r} /\ r \notin Spent
      BY <2>1, <2>2, <2>5, SpendStep
    <3>2. k = n + 1
      BY <1>0, <3>1, FS_AddElement
    <3>3. k \in Nat /\ n <= k
      BY <1>0, <3>2
    <3>4. \A s \in SessionIds : auth'[s].gen <= k
      <4>1. \A s \in SessionIds : auth'[s].gen = auth[s].gen \/ auth'[s].gen = auth[s].gen + 1
        BY <2>1, <2>2, AuthStep
      <4> QED
        BY <1>0, <2>3, <3>2, <4>1
    <3>5. ASSUME NEW m \in Nat, m = k PROVE GensWithin(m)'
      BY <1>0, <2>1, <2>2, <3>3, <3>4, <3>5, GensStep
    <3> QED
      BY <3>3, <3>5 DEF GensWithin
  <2> QED
    BY <2>4, <2>5
<1> QED
  BY <1>1, <1>2

LEMMA BoundedTypes ==
  ASSUME IsFiniteSet(Requests), IInv, GensWithin(Cardinality(Spent)) PROVE TypeOK
<1> DEFINE n == Cardinality(Requests)
<1>1. /\ n \in Nat /\ Cardinality(Spent) \in Nat
      /\ Cardinality(Spent) <= n
  BY FS_Subset, FS_CardinalityType DEF Spent
<1>2. ASSUME NEW g \in Nat, g <= Cardinality(Spent) PROVE g \in Gens
  BY <1>1, <1>2 DEF Gens
<1>3. ASSUME NEW t \in Tok, t.gen <= Cardinality(Spent) PROVE t \in Token
  BY <1>2, <1>3 DEF Tok, Token
<1> USE DEF IInv, Types, GensWithin
<1>4. auth \in [SessionIds -> [live : BOOLEAN, gen : Gens]]
  <2>1. ASSUME NEW s \in SessionIds PROVE auth[s] \in [live : BOOLEAN, gen : Gens]
    BY <1>2
  <2> QED
    BY <2>1
<1>5. ledger \in [SessionIds -> Row \cup {None}]
  <2>1. ASSUME NEW s \in SessionIds PROVE ledger[s] \in Row \cup {None}
    BY <1>2 DEF LedgerRow, Row
  <2> QED
    BY <2>1
<1>6. cookie \in [Browsers -> Token \cup {None}]
  <2>1. ASSUME NEW b \in Browsers PROVE cookie[b] \in Token \cup {None}
    BY <1>3
  <2> QED
    BY <2>1
<1>7. req \in [Requests -> Req]
  <2>1. ASSUME NEW r \in Requests PROVE req[r] \in Req
    <3>1. req[r] \in Request /\ req[r].tok \in Tok \cup {None}
      BY DEF Request
    <3>2. req[r].tok \in Token \cup {None}
      BY <1>3, <3>1
    <3> HIDE DEF IInv, Types, GensWithin
    <3> QED
      BY <3>1, <3>2 DEF Request, Req
  <2> QED
    BY <2>1
<1>8. gone \subseteq Token
  BY <1>3
<1> QED
  BY <1>4, <1>5, <1>6, <1>7, <1>8 DEF TypeOK
-----------------------------------------------------------------------------
\* Whatever a request holds is well typed, and no session's token is ever
\* refreshed more often than there are requests.
THEOREM TypesHold == ASSUME IsFiniteSet(Requests) PROVE Spec => []TypeOK
<1>1. Init => IInv /\ GensWithin(Cardinality(Spent))
  <2> SUFFICES ASSUME Init PROVE GensWithin(Cardinality(Spent))
    BY InitIInv
  <2>1. Spent = {}
    BY DEF Init, Idle, Spent
  <2>2. Cardinality(Spent) = 0
    BY <2>1, FS_EmptySet
  <2> QED
    BY <2>2 DEF Init, Idle, GensWithin
<1>2. IInv /\ GensWithin(Cardinality(Spent)) /\ [Next]_vars
        => (IInv /\ GensWithin(Cardinality(Spent)))'
  BY IsFiniteSet(Requests), NextIInv, GensKept
<1>3. IInv /\ GensWithin(Cardinality(Spent)) => TypeOK
  BY IsFiniteSet(Requests), BoundedTypes
<1> QED
  BY <1>1, <1>2, <1>3, PTL DEF Spec

\* A token whose sign-out was answered with every call done is never accepted
\* again, and no row of the ledger holds its hash.
THEOREM SignOutIsFinal == Spec => []SignedOutIsGone
<1>1. IInv => SignedOutIsGone
  BY DEF IInv
<1> QED
  BY <1>1, Invariant, PTL

\* A cookie that still refreshes has its session in the ledger, under the hash
\* by which a sign-out deletes it.
THEOREM DevicesAreListed == Spec => []ActiveDeviceIsListed
<1>1. IInv => ActiveDeviceIsListed
  BY DEF IInv
<1> QED
  BY <1>1, Invariant, PTL

\* A row of a dead session is one a revocation is about to delete, or one that
\* a failure or a request then recording it left behind.
THEOREM ListShowsLiveSessions == Spec => []ListedIsLive
<1>1. IInv => ListedIsLive
  BY DEF IInv
<1> QED
  BY <1>1, Invariant, PTL

\* No surface enters the ledger without its new-device audit.
THEOREM EveryDeviceIsAnnounced == Spec => []NewDeviceIsAlerted
<1>1. IInv => NewDeviceIsAlerted
  BY DEF IInv
<1> QED
  BY <1>1, Invariant, PTL

\* When a revocation, an eviction or a password change is answered, the
\* sessions it listed are dead, but for those whose deletion failed or whose
\* row had gone.
THEOREM RevocationIsDone == Spec => AnsweredMeansEvicted
<1> DEFINE
  Step == \A r \in Requests : (req[r].at = "revoking" /\ req'[r].at = "done") =>
            \A s \in batch[r].seen \ batch[r].spared : ~auth[s].live
<1>1. ASSUME IInv, [Next]_vars PROVE [Step]_vars
  <2> SUFFICES ASSUME Next PROVE Step
    BY <1>1
  <2>1. PICK r \in Requests : Arrive(r) \/ Proceed(r)
    BY DEF Next
  <2>2. Types /\ Tokens /\ Revocations
    BY <1>1 DEF IInv
  <2> QED
    BY <2>1, <2>2, AnswerStep
<1> QED
  BY <1>1, Invariant, PTL DEF Spec, AnsweredMeansEvicted

\* A setting changes only by the request that was asked to change it, or by
\* one whose read failed or was overtaken by another save.
THEOREM SettingsAreKept == Spec => SettingsLostOnlyToOverlap
<1> DEFINE
  Step == \A k \in Keys : Stored'[k] # Stored[k] =>
            \E r \in Requests : /\ req[r].at = "loaded" /\ req'[r].at = "done"
                                /\ upd[r].key = k \/ upd[r].dirty
<1>1. ASSUME IInv, [Next]_vars PROVE [Step]_vars
  <2> SUFFICES ASSUME Next PROVE Step
    BY <1>1
  <2>1. PICK r \in Requests : Arrive(r) \/ Proceed(r)
    BY DEF Next
  <2>2. Types /\ ReadOK
    BY <1>1 DEF IInv
  <2> QED
    BY <2>1, <2>2, SaveStep
<1> QED
  BY <1>1, Invariant, PTL DEF Spec, SettingsLostOnlyToOverlap
=============================================================================
