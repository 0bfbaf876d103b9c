--------------------------- MODULE OrgInvitesProofs ---------------------------
(***************************************************************************)
(* Proofs about OrgInvites for any addresses, applicants, invites, seats,  *)
(* calls of inviteMember and faults, and any finite set of acceptances.    *)
(***************************************************************************)
EXTENDS OrgInvites, FiniteSetTheorems, TLAPS

(* An acceptance that has found its invite keeps it; one that has not has  *)
(* nothing to undo.                                                        *)
Linked ==
  \A c \in Accepts :
    IF call[c].at = "idle" THEN call[c].invite = None /\ call[c].todo = {} /\ call[c].lost = {}
                           ELSE call[c].invite \in Existing

Asked == \A m \in Managers : asking[m].at # "idle" => asking[m].email \in Emails

(* The places an invite of each kind goes through, and what there is to    *)
(* undo where.                                                             *)
Placed ==
  \A c \in Accepts :
    /\ call[c].at \in {"counted", "joined"} => ForOrg(c)
    /\ call[c].at = "filed" => ~ForOrg(c)
    /\ call[c].todo # {} => call[c].at = "undoing"
    /\ call[c].lost # {} => call[c].at \in {"undoing", "failed"}
    /\ "application" \in call[c].todo \cup call[c].lost => ~ForOrg(c)

(* From the moment an acceptance has created its account until it undoes   *)
(* it, the address is its own ...                                          *)
Holding == {"created", "counted", "joined", "marked", "filed", "ok"}

Owned == \A c \in Accepts : call[c].at \in Holding => account[EmailOf(c)] = c

\* ... and it has left the account and the membership nowhere else.
MayHold(c) == \/ call[c].at \in Holding
              \/ "account" \in call[c].todo \cup call[c].lost

Traced ==
  /\ \A e \in Emails : account[e] # None => MayHold(account[e])
  /\ \A c \in members : MayHold(c)

Joined ==
  \A c \in Accepts :
    (call[c].at \in {"joined", "marked", "filed", "ok"} /\ ForOrg(c))
      => c \in members \cup removed

(* Whoever is seated or was told that there is a seat.                     *)
Admitted == members \cup {c \in Accepts : call[c].at = "counted"}

OpenCalls == {c \in Accepts : call[c].at \in Open}

Counted ==
  /\ InProgress <= peak
  /\ Cardinality(Admitted) + 1 <= Seats + peak - 1

(* Whoever may have written a status, and has not taken it back.           *)
Used(c) == call[c].at \in {"ok", "marked", "filed"} \/ "status" \in call[c].todo \cup call[c].lost
Filed(c) == call[c].at \in {"ok", "filed"} \/ "application" \in call[c].todo \cup call[c].lost

Attributed ==
  /\ \A i \in Existing : invite[i].status = "accepted" =>
       \E c \in Accepts : call[c].invite = i /\ Used(c)
  /\ \A e \in Applicants : application[e] = "invite_accepted" =>
       \E c \in Accepts : /\ call[c].at # "idle" /\ EmailOf(c) = e /\ ~ForOrg(c)
                          /\ Filed(c)

IInv == /\ TypeOK /\ Linked /\ Asked /\ Placed
        /\ Owned /\ Traced /\ Joined /\ Counted /\ Attributed
-----------------------------------------------------------------------------
(* Typing. *)

Places == {"idle", "ok", "failed"} \cup Open

LEMMA CallFields ==
  ASSUME TypeOK, NEW c \in Accepts
  PROVE  /\ call[c] \in Call /\ call[c].at \in Places
         /\ call[c].invite \in Invites \cup {None}
         /\ call[c].todo \subseteq Undos /\ call[c].lost \subseteq Undos
BY DEF TypeOK, Call, Places

\* One acceptance moves.
Turned(c, p, t, l) ==
  /\ call' \in [Accepts -> Call]
  /\ call'[c] = [at |-> p, invite |-> call[c].invite, todo |-> t, lost |-> l]
  /\ \A d \in Accepts \ {c} : call'[d] = call[d]

AllUndos(c) == IF ForOrg(c) THEN Undos \ {"application"} ELSE Undos

\* The ways in which a request changes: it goes on, starts its rollback, or
\* settles a call of that.
LEMMA AtStep ==
  ASSUME TypeOK, NEW c \in Accepts, NEW p \in Places, At(c, p)
  PROVE  Turned(c, p, call[c].todo, call[c].lost)
BY DEF TypeOK, Call, Places, At, Turned

LEMMA UndoStep ==
  ASSUME TypeOK, NEW c \in Accepts, Undo(c)
  PROVE  Turned(c, "undoing", AllUndos(c), call[c].lost)
<1>1. AllUndos(c) \in SUBSET Undos /\ "undoing" \in Open
  BY DEF AllUndos, Open
<1>2. call' = [call EXCEPT ![c].at = "undoing", ![c].todo = AllUndos(c)]
  BY DEF Undo, AllUndos
<1> QED
  BY <1>1, <1>2 DEF TypeOK, Call, Turned

LEMMA SettleStep ==
  ASSUME TypeOK, NEW c \in Accepts, NEW u \in Undos, NEW failed \in BOOLEAN,
         Settle(c, u, failed)
  PROVE  /\ u \in call[c].todo
         /\ Turned(c, IF call[c].todo = {u} THEN "failed" ELSE call[c].at,
                   call[c].todo \ {u},
                   IF failed THEN call[c].lost \cup {u} ELSE call[c].lost)
<1> DEFINE t == call[c].todo \ {u}
           l == IF failed THEN call[c].lost \cup {u} ELSE call[c].lost
           p == IF call[c].todo = {u} THEN "failed" ELSE call[c].at
<1>1. t \in SUBSET Undos /\ l \in SUBSET Undos /\ p \in Places
  BY CallFields DEF Places
<1>2. u \in call[c].todo /\ call' = [call EXCEPT ![c].todo = t, ![c].lost = l, ![c].at = p]
  BY DEF Settle, TypeOK, Call
<1> HIDE DEF t, l, p
<1>3. Turned(c, p, t, l)
  BY <1>1, <1>2 DEF TypeOK, Call, Places, Turned
<1> QED
  BY <1>2, <1>3 DEF t, l, p

(* Everybody but the acceptances.                                          *)
Staff ==
  \/ \E m \in Managers : \/ \E e \in Emails : CheckMember(m, e)
                         \/ CheckPending(m) \/ CheckSeats(m) \/ InsertFails(m)
                         \/ \E i \in Invites : Insert(m, i)
  \/ \E i \in Invites : Cancel(i) \/ Expire(i)
  \/ \E e \in Applicants : \/ Apply(e) \/ Review(e) \/ Approve(e)
                           \/ \E i \in Invites : InsertAccess(e, i)
  \/ \E c \in Accepts : Remove(c)

LEMMA NextCases == Next => Staff \/ \E c \in Accepts : Accepting(c)
BY DEF Next, Staff

\* An invite is for ever of its kind and for its address.
Fixed == \A i \in Existing : /\ i \in Existing' /\ invite'[i].kind = invite[i].kind
                             /\ invite'[i].email = invite[i].email

\* Who is not an acceptance never says that an invite was used.
Unused ==
  /\ \A i \in Existing' : invite'[i].status = "accepted" =>
       i \in Existing /\ invite[i].status = "accepted"
  /\ \A e \in Applicants : application'[e] = "invite_accepted" =>
       application[e] = "invite_accepted"

LEMMA NewRowType ==
  ASSUME NEW kind \in {"org", "access"}, NEW e \in Emails
  PROVE  NewRow(kind, e) \in Row /\ NewRow(kind, e).status = "pending"
BY DEF NewRow, Row, Statuses

\* One row is written: inserted where there was none, or changed in its status
\* or its expiry.
LEMMA InsertedRow ==
  ASSUME TypeOK, NEW i \in Invites, invite[i] = None, NEW r \in Row, r.status # "accepted",
         invite' = [invite EXCEPT ![i] = r]
  PROVE  /\ invite' \in [Invites -> Row \cup {None}] /\ Fixed
         /\ \A j \in Existing' : invite'[j].status = "accepted" =>
              j \in Existing /\ invite[j].status = "accepted"
BY DEF TypeOK, Fixed, Existing

LEMMA WrittenStatus ==
  ASSUME TypeOK, NEW i \in Existing, NEW st \in Statuses, SetStatus(i, st)
  PROVE  /\ invite' \in [Invites -> Row \cup {None}] /\ Fixed /\ Existing' = Existing
         /\ invite'[i].status = st
         /\ \A j \in Existing \ {i} : invite'[j] = invite[j]
<1>1. i \in Invites /\ invite[i] \in Row
  BY DEF Existing, TypeOK
<1>2. /\ [invite[i] EXCEPT !.status = st] \in Row
      /\ [invite[i] EXCEPT !.status = st].status = st
      /\ [invite[i] EXCEPT !.status = st].kind = invite[i].kind
      /\ [invite[i] EXCEPT !.status = st].email = invite[i].email
  BY <1>1 DEF Row
<1>3. None \notin Row
  BY Constants
<1> QED
  BY <1>1, <1>2, <1>3 DEF SetStatus, TypeOK, Fixed, Existing

LEMMA ExpiredRow ==
  ASSUME TypeOK, NEW i \in Existing, invite' = [invite EXCEPT ![i].expired = TRUE]
  PROVE  /\ invite' \in [Invites -> Row \cup {None}] /\ Fixed
         /\ \A j \in Existing' : invite'[j].status = "accepted" =>
              j \in Existing /\ invite[j].status = "accepted"
<1>1. i \in Invites /\ invite[i] \in Row
  BY DEF Existing, TypeOK
<1>2. /\ [invite[i] EXCEPT !.expired = TRUE] \in Row
      /\ [invite[i] EXCEPT !.expired = TRUE].status = invite[i].status
      /\ [invite[i] EXCEPT !.expired = TRUE].kind = invite[i].kind
      /\ [invite[i] EXCEPT !.expired = TRUE].email = invite[i].email
  BY <1>1 DEF Row
<1>3. None \notin Row
  BY Constants
<1> QED
  BY <1>1, <1>2, <1>3 DEF TypeOK, Fixed, Existing

LEMMA SameInvites == ASSUME UNCHANGED invite PROVE Fixed /\ Existing' = Existing
BY DEF Fixed, Existing

LEMMA StaffStep ==
  ASSUME TypeOK, Asked, Staff
  PROVE  /\ TypeOK' /\ Asked' /\ Fixed /\ Unused
         /\ UNCHANGED <<account, call, peak>>
         /\ members' \subseteq members /\ members \cup removed \subseteq members' \cup removed'
<1> DEFINE Goal == /\ TypeOK' /\ Asked' /\ Fixed /\ Unused
                   /\ UNCHANGED <<account, call, peak>>
                   /\ members' \subseteq members
                   /\ members \cup removed \subseteq members' \cup removed'
\* inviteMember up to its insert.
<1>1. ASSUME NEW m \in Managers, NEW a \in {"idle", "new", "free", "unseated"},
             NEW e \in Emails \cup {None}, a # "idle" => e \in Emails,
             asking' = [asking EXCEPT ![m] = [at |-> a, email |-> e]],
             UNCHANGED <<invite, application, account, members, call, approving, removed, peak>>
      PROVE  Goal
  <2>1. /\ asking' \in [Managers -> [at : {"idle", "new", "free", "unseated"},
                                   email : Emails \cup {None}]]
        /\ Asked'
    BY <1>1 DEF TypeOK, Asked
  <2> QED
    BY <1>1, <2>1 DEF TypeOK, Fixed, Unused, Existing
<1>2. ASSUME NEW m \in Managers,
             NEW a \in {"free", "unseated"}, NEW from \in {"new", "free"}, Move(m, from, a)
      PROVE  Goal
  <2>1. asking' = [asking EXCEPT ![m] = [at |-> a, email |-> asking[m].email]]
    <3>1. asking[m] \in [at : {"idle", "new", "free", "unseated"}, email : Emails \cup {None}]
      BY DEF TypeOK
    <3>2. [asking[m] EXCEPT !.at = a] = [at |-> a, email |-> asking[m].email]
      BY <3>1
    <3> QED
      BY <1>2, <3>2 DEF Move
  <2>2. asking[m].email \in Emails
    BY <1>2 DEF Move, Asked
  <2> QED
    BY <1>1, <1>2, <2>1, <2>2 DEF Move
<1>3. ASSUME NEW m \in Managers, NEW from, Refuse(m, from) PROVE Goal
  BY <1>1, <1>3 DEF Refuse, NotAsking
<1>4. ASSUME NEW m \in Managers,
             \/ \E e \in Emails : CheckMember(m, e)
             \/ CheckPending(m) \/ CheckSeats(m) \/ InsertFails(m)
      PROVE  Goal
  <2>1. ASSUME NEW e \in Emails, CheckMember(m, e) PROVE Goal
    BY <1>1, <2>1 DEF CheckMember
  <2> QED
    BY <1>2, <1>3, <1>4, <2>1 DEF CheckPending, CheckSeats, InsertFails
<1>5. ASSUME NEW m \in Managers, NEW i \in Invites, Insert(m, i) PROVE Goal
  <2>1. NewRow("org", asking[m].email) \in Row
        /\ NewRow("org", asking[m].email).status = "pending"
    BY <1>5, NewRowType DEF Insert, Asked
  <2>2. /\ invite' \in [Invites -> Row \cup {None}] /\ Fixed
        /\ \A j \in Existing' : invite'[j].status = "accepted" =>
             j \in Existing /\ invite[j].status = "accepted"
    BY <1>5, <2>1, InsertedRow DEF Insert
  <2>3. /\ asking' \in [Managers -> [at : {"idle", "new", "free", "unseated"},
                                   email : Emails \cup {None}]]
        /\ Asked'
    BY <1>5 DEF Insert, NotAsking, TypeOK, Asked
  <2> QED
    BY <1>5, <2>2, <2>3 DEF Insert, TypeOK, Unused
<1>6. ASSUME NEW i \in Invites, Cancel(i) PROVE Goal
  <2>1. i \in Existing /\ SetStatus(i, "cancelled")
    BY <1>6 DEF Cancel, OfKind, SetStatus
  <2>2. /\ invite' \in [Invites -> Row \cup {None}] /\ Fixed /\ Existing' = Existing
        /\ invite'[i].status = "cancelled"
        /\ \A j \in Existing \ {i} : invite'[j] = invite[j]
    BY <2>1, WrittenStatus DEF Statuses
  <2> QED
    BY <1>6, <2>2 DEF Cancel, staff, TypeOK, Asked, Unused
<1>7. ASSUME NEW i \in Invites, Expire(i) PROVE Goal
  BY <1>7, ExpiredRow DEF Expire, staff, TypeOK, Asked, Unused
<1>8. ASSUME NEW e \in Applicants, Apply(e) \/ Review(e) \/ Approve(e) PROVE Goal
  <2>1. /\ application' \in [Applicants -> Filings \cup {None}]
        /\ \A f \in Applicants : application'[f] = "invite_accepted" =>
             application[f] = "invite_accepted"
    BY <1>8 DEF Apply, Review, Approve, TypeOK, Filings
  <2>2. /\ approving' \subseteq Applicants
        /\ UNCHANGED <<invite, account, members, call, asking, removed, peak>>
    BY <1>8 DEF Apply, Review, Approve, staff, TypeOK
  <2> QED
    BY <2>1, <2>2, SameInvites DEF TypeOK, Asked, Unused
<1>9. ASSUME NEW e \in Applicants, NEW i \in Invites, InsertAccess(e, i) PROVE Goal
  <2>1. NewRow("access", e) \in Row /\ NewRow("access", e).status = "pending"
    BY Constants, NewRowType
  <2>2. /\ invite' \in [Invites -> Row \cup {None}] /\ Fixed
        /\ \A j \in Existing' : invite'[j].status = "accepted" =>
             j \in Existing /\ invite[j].status = "accepted"
    BY <1>9, <2>1, InsertedRow DEF InsertAccess
  <2> QED
    BY <1>9, <2>2 DEF InsertAccess, TypeOK, Asked, Unused
<1>10. ASSUME NEW c \in Accepts, Remove(c) PROVE Goal
  BY <1>10, SameInvites DEF Remove, staff, TypeOK, Asked, Unused
<1> QED
  BY <1>4, <1>5, <1>6, <1>7, <1>8, <1>9, <1>10 DEF Staff

-----------------------------------------------------------------------------
(* What each action of an acceptance does.                                 *)

LEMMA LinkedInvite ==
  ASSUME TypeOK, Linked, NEW c \in Accepts, call[c].at # "idle"
  PROVE  /\ call[c].invite \in Existing /\ call[c].invite \in Invites
         /\ EmailOf(c) \in Emails
BY DEF Linked, Existing, TypeOK, Row, EmailOf

LEMMA FindStep ==
  ASSUME TypeOK, Linked, NEW c \in Accepts, NEW i \in Invites, Find(c, i)
  PROVE  /\ TypeOK' /\ call[c].at = "idle" /\ i \in Existing
         /\ invite[i].status = "pending" /\ call' \in [Accepts -> Call]
         /\ call'[c] = [at |-> "found", invite |-> i, todo |-> {}, lost |-> {}]
         /\ \A d \in Accepts \ {c} : call'[d] = call[d]
         /\ InProgress < MaxOpen /\ peak' = IF InProgress = peak THEN peak + 1 ELSE peak
         /\ UNCHANGED <<invite, application, account, members, staff, removed>>
<1>1. /\ call[c] \in Call
      /\ call[c] = [at |-> "idle", invite |-> None, todo |-> {}, lost |-> {}]
  BY DEF Find, Linked, TypeOK, Call
<1>2. call' = [call EXCEPT ![c] = [at |-> "found", invite |-> i, todo |-> {}, lost |-> {}]]
  <2> DEFINE found == [call EXCEPT ![c].at = "found", ![c].invite = i]
  <2>1. /\ found \in [Accepts -> Call] /\ found[c].at = "found" /\ found[c].invite = i
        /\ found[c].todo = {} /\ found[c].lost = {}
        /\ \A d \in Accepts \ {c} : found[d] = call[d]
    <3>1. /\ call \in [Accepts -> Call] /\ "found" \in Open /\ call[c].todo = {}
          /\ call[c].lost = {}
      BY <1>1 DEF TypeOK, Open
    <3>2. found \in [Accepts -> Call]
      BY <3>1 DEF Call
    <3>3. found[c].at = "found" /\ found[c].invite = i
      BY <3>1 DEF Call
    <3>4. found[c].todo = {} /\ found[c].lost = {}
      BY <3>1 DEF Call
    <3> QED
      BY <3>1, <3>2, <3>3, <3>4
  <2>2. found[c] = [at |-> "found", invite |-> i, todo |-> {}, lost |-> {}]
    <3>1. found[c] \in Call
      BY <2>1
    <3> HIDE DEF found
    <3> QED
      BY <2>1, <3>1 DEF Call
  <2> QED
    BY <2>1, <2>2 DEF Find, TypeOK
<1>3. [at |-> "found", invite |-> i, todo |-> {}, lost |-> {}] \in Call
  BY DEF Call, Open
<1>4. call' \in [Accepts -> Call]
  BY <1>2, <1>3 DEF TypeOK
<1>5. peak' \in 1..MaxOpen
  BY Constants DEF Find, TypeOK
<1> QED
  BY <1>2, <1>4, <1>5 DEF Find, TypeOK, staff

LEMMA CreateStep ==
  ASSUME TypeOK, Linked, NEW c \in Accepts, CreateUser(c)
  PROVE  /\ TypeOK' /\ call[c].at = "found"
         /\ \/ /\ account[EmailOf(c)] = None /\ account' = [account EXCEPT ![EmailOf(c)] = c]
               /\ \/ Turned(c, "created", call[c].todo, call[c].lost)
                  \/ Turned(c, "failed", call[c].todo, {"account"})
            \/ UNCHANGED account /\ Turned(c, "failed", call[c].todo, call[c].lost)
         /\ UNCHANGED <<invite, application, members, staff, removed, peak>>
<1>1. EmailOf(c) \in Emails
  BY LinkedInvite DEF CreateUser
<1>2. ASSUME call' = [call EXCEPT ![c].at = "failed", ![c].lost = {"account"}]
      PROVE  Turned(c, "failed", call[c].todo, {"account"})
  BY <1>2 DEF TypeOK, Call, Turned, Undos
<1>3. "created" \in Places /\ "failed" \in Places
  BY DEF Places, Open
<1>4. \/ /\ account[EmailOf(c)] = None /\ account' = [account EXCEPT ![EmailOf(c)] = c]
         /\ \/ Turned(c, "created", call[c].todo, call[c].lost)
            \/ Turned(c, "failed", call[c].todo, {"account"})
      \/ UNCHANGED account /\ Turned(c, "failed", call[c].todo, call[c].lost)
  BY <1>2, <1>3, AtStep DEF CreateUser
<1>5. account' \in [Emails -> Accepts \cup {None}] /\ call' \in [Accepts -> Call]
  BY <1>4 DEF TypeOK, Turned
<1> QED
  BY <1>4, <1>5 DEF CreateUser, TypeOK, staff

LEMMA CountStep ==
  ASSUME TypeOK, NEW c \in Accepts, CountSeats(c)
  PROVE  /\ TypeOK' /\ call[c].at = "created" /\ ForOrg(c)
         /\ \/ Active < Seats /\ Turned(c, "counted", call[c].todo, call[c].lost)
            \/ Turned(c, "undoing", AllUndos(c), call[c].lost)
         /\ UNCHANGED <<invite, application, account, members, staff, removed, peak>>
<1>1. "counted" \in Places
  BY DEF Places, Open
<1>2. \/ Active < Seats /\ Turned(c, "counted", call[c].todo, call[c].lost)
      \/ Turned(c, "undoing", AllUndos(c), call[c].lost)
  BY <1>1, AtStep, UndoStep DEF CountSeats, Seated
<1> QED
  BY <1>2 DEF CountSeats, TypeOK, staff, Turned

LEMMA JoinStep ==
  ASSUME TypeOK, NEW c \in Accepts, Join(c)
  PROVE  /\ TypeOK' /\ call[c].at = "counted"
         /\ \/ members' = members \cup {c} /\ Turned(c, "joined", call[c].todo, call[c].lost)
            \/ /\ members' \in {members, members \cup {c}}
               /\ Turned(c, "undoing", AllUndos(c), call[c].lost)
         /\ UNCHANGED <<invite, application, account, staff, removed, peak>>
<1>1. "joined" \in Places
  BY DEF Places, Open
<1>2. \/ members' = members \cup {c} /\ Turned(c, "joined", call[c].todo, call[c].lost)
      \/ /\ members' \in {members, members \cup {c}}
         /\ Turned(c, "undoing", AllUndos(c), call[c].lost)
  BY <1>1, AtStep, UndoStep DEF Join, Write
<1> QED
  BY <1>2 DEF Join, Write, TypeOK, staff, Turned

LEMMA MarkStep ==
  ASSUME TypeOK, Linked, NEW c \in Accepts, Mark(c)
  PROVE  /\ TypeOK' /\ call[c].at = IF ForOrg(c) THEN "joined" ELSE "created"
         /\ \/ /\ SetStatus(call[c].invite, "accepted")
               /\ \/ Turned(c, "marked", call[c].todo, call[c].lost)
                  \/ Turned(c, "undoing", AllUndos(c), call[c].lost)
            \/ UNCHANGED invite /\ Turned(c, "undoing", AllUndos(c), call[c].lost)
         /\ UNCHANGED <<application, account, members, staff, removed, peak>>
<1>1. "marked" \in Places
  BY DEF Places, Open
<1>2. \/ /\ SetStatus(call[c].invite, "accepted")
         /\ \/ Turned(c, "marked", call[c].todo, call[c].lost)
            \/ Turned(c, "undoing", AllUndos(c), call[c].lost)
      \/ UNCHANGED invite /\ Turned(c, "undoing", AllUndos(c), call[c].lost)
  BY <1>1, AtStep, UndoStep DEF Mark, Write
<1>3. call[c].at = IF ForOrg(c) THEN "joined" ELSE "created"
  BY DEF Mark, Write
<1>4. call[c].invite \in Existing
  BY <1>3, LinkedInvite
<1>5. invite' \in [Invites -> Row \cup {None}]
  BY <1>2, <1>4, WrittenStatus DEF TypeOK, Statuses
<1> QED
  BY <1>2, <1>3, <1>5 DEF Mark, Write, TypeOK, staff, Turned

LEMMA SetApplicationStep ==
  ASSUME TypeOK, NEW c \in Accepts, NEW f \in Filings, SetApplication(c, f)
  PROVE  /\ application' \in [Applicants -> Filings \cup {None}]
         /\ \A e \in Applicants : application'[e] = IF e = EmailOf(c) THEN f ELSE application[e]
BY DEF TypeOK, SetApplication

LEMMA FileStep ==
  ASSUME TypeOK, NEW c \in Accepts, File(c)
  PROVE  /\ TypeOK' /\ call[c].at = "marked" /\ ~ForOrg(c)
         /\ \/ /\ SetApplication(c, "invite_accepted")
               /\ \/ Turned(c, "filed", call[c].todo, call[c].lost)
                  \/ Turned(c, "undoing", AllUndos(c), call[c].lost)
            \/ UNCHANGED application /\ Turned(c, "undoing", AllUndos(c), call[c].lost)
         /\ UNCHANGED <<invite, account, members, staff, removed, peak>>
<1>1. "filed" \in Places
  BY DEF Places, Open
<1>2. \/ /\ SetApplication(c, "invite_accepted")
         /\ \/ Turned(c, "filed", call[c].todo, call[c].lost)
            \/ Turned(c, "undoing", AllUndos(c), call[c].lost)
      \/ UNCHANGED application /\ Turned(c, "undoing", AllUndos(c), call[c].lost)
  BY <1>1, AtStep, UndoStep DEF File, Write
<1>3. application' \in [Applicants -> Filings \cup {None}]
  BY <1>2, SetApplicationStep DEF TypeOK, Filings
<1> QED
  BY <1>2, <1>3 DEF File, Write, TypeOK, staff, Turned

LEMMA AuditStep ==
  ASSUME TypeOK, NEW c \in Accepts, Audit(c)
  PROVE  /\ TypeOK' /\ call[c].at = IF ForOrg(c) THEN "marked" ELSE "filed"
         /\ \/ Turned(c, "ok", call[c].todo, call[c].lost)
            \/ Turned(c, "undoing", AllUndos(c), call[c].lost)
         /\ UNCHANGED <<invite, application, account, members, staff, removed, peak>>
<1>1. "ok" \in Places
  BY DEF Places
<1>2. \/ Turned(c, "ok", call[c].todo, call[c].lost)
      \/ Turned(c, "undoing", AllUndos(c), call[c].lost)
  BY <1>1, AtStep, UndoStep DEF Audit
<1> QED
  BY <1>2 DEF Audit, TypeOK, staff, Turned

\* A call of the rollback has settled.
Settled(c, u, l) ==
  /\ u \in call[c].todo
  /\ Turned(c, IF call[c].todo = {u} THEN "failed" ELSE call[c].at, call[c].todo \ {u}, l)

LEMMA DeleteStep ==
  ASSUME TypeOK, NEW c \in Accepts, DeleteUser(c)
  PROVE  /\ TypeOK'
         /\ \/ /\ Settled(c, "account", call[c].lost)
               /\ account' = [e \in Emails |-> IF account[e] = c THEN None ELSE account[e]]
               /\ members' = members \ {c}
            \/ /\ Settled(c, "account", call[c].lost \cup {"account"})
               /\ UNCHANGED <<account, members>>
         /\ UNCHANGED <<invite, application, staff, removed, peak>>
<1>1. \/ /\ Settled(c, "account", call[c].lost)
         /\ account' = [e \in Emails |-> IF account[e] = c THEN None ELSE account[e]]
         /\ members' = members \ {c}
      \/ /\ Settled(c, "account", call[c].lost \cup {"account"})
         /\ UNCHANGED <<account, members>>
  BY SettleStep DEF DeleteUser, Undos, Settled
<1>2. account' \in [Emails -> Accepts \cup {None}] /\ call' \in [Accepts -> Call]
  BY <1>1 DEF TypeOK, Settled, Turned
<1> QED
  BY <1>1, <1>2 DEF DeleteUser, TypeOK, staff

LEMMA RestoreStep ==
  ASSUME TypeOK, Linked, Placed, NEW c \in Accepts, Restore(c)
  PROVE  /\ TypeOK'
         /\ \/ /\ Settled(c, "status", call[c].lost)
               /\ SetStatus(call[c].invite, "pending")
            \/ /\ Settled(c, "status", call[c].lost \cup {"status"})
               /\ UNCHANGED invite
         /\ UNCHANGED <<application, account, members, staff, removed, peak>>
<1>1. \/ /\ Settled(c, "status", call[c].lost)
         /\ SetStatus(call[c].invite, "pending")
      \/ /\ Settled(c, "status", call[c].lost \cup {"status"})
         /\ UNCHANGED invite
  BY SettleStep DEF Restore, Undos, Settled
<1>2. call[c].invite \in Existing
  BY <1>1, LinkedInvite DEF Settled, Placed
<1>3. invite' \in [Invites -> Row \cup {None}] /\ call' \in [Accepts -> Call]
  BY <1>1, <1>2, WrittenStatus DEF TypeOK, Statuses, Settled, Turned
<1> QED
  BY <1>1, <1>3 DEF Restore, TypeOK, staff

LEMMA RefileStep ==
  ASSUME TypeOK, NEW c \in Accepts, Refile(c)
  PROVE  /\ TypeOK'
         /\ \/ /\ Settled(c, "application", call[c].lost)
               /\ SetApplication(c, "waitlist_submitted")
            \/ /\ Settled(c, "application", call[c].lost \cup {"application"})
               /\ UNCHANGED application
         /\ UNCHANGED <<invite, account, members, staff, removed, peak>>
<1>1. \/ /\ Settled(c, "application", call[c].lost)
         /\ SetApplication(c, "waitlist_submitted")
      \/ /\ Settled(c, "application", call[c].lost \cup {"application"})
         /\ UNCHANGED application
  BY SettleStep DEF Refile, Undos, Settled
<1>2. application' \in [Applicants -> Filings \cup {None}] /\ call' \in [Accepts -> Call]
  BY <1>1, SetApplicationStep DEF TypeOK, Filings, Settled, Turned
<1> QED
  BY <1>1, <1>2 DEF Refile, TypeOK, staff

-----------------------------------------------------------------------------
(* What a step leaves of the other parts of the invariant.                 *)

\* A request that has found its invite keeps it, with its address and kind.
Kin ==
  \A d \in Accepts : call[d].at # "idle" =>
    /\ call'[d].at # "idle" /\ call'[d].invite = call[d].invite
    /\ EmailOf(d)' = EmailOf(d) /\ ForOrg(d)' = ForOrg(d)

LEMMA Refers ==
  ASSUME Linked, Fixed, NEW d \in Accepts, call[d].at # "idle",
         call'[d].invite = call[d].invite
  PROVE  /\ EmailOf(d)' = EmailOf(d) /\ ForOrg(d)' = ForOrg(d)
         /\ call'[d].invite \in Existing'
<1>1. call[d].invite \in Existing
  BY DEF Linked
<1>2. /\ call[d].invite \in Existing'
      /\ invite'[call[d].invite].kind = invite[call[d].invite].kind
      /\ invite'[call[d].invite].email = invite[call[d].invite].email
  BY <1>1 DEF Fixed
<1> QED
  BY <1>1, <1>2 DEF EmailOf, ForOrg, OfKind

LEMMA KinTurned ==
  ASSUME Linked, Fixed, NEW c \in Accepts, call[c].at # "idle",
         NEW p \in Places \ {"idle"}, NEW t, NEW l, Turned(c, p, t, l)
  PROVE  Kin /\ Linked'
<1>1. ASSUME NEW d \in Accepts, call[d].at # "idle"
      PROVE  /\ call'[d].at # "idle" /\ call'[d].invite = call[d].invite
             /\ EmailOf(d)' = EmailOf(d) /\ ForOrg(d)' = ForOrg(d)
             /\ call'[d].invite \in Existing'
  <2>1. call'[d].at # "idle" /\ call'[d].invite = call[d].invite
    BY <1>1 DEF Turned
  <2> QED
    BY <1>1, <2>1, Refers
<1>2. Kin
  BY <1>1 DEF Kin
<1>3. ASSUME NEW d \in Accepts, call[d].at = "idle" PROVE call'[d] = call[d]
  BY <1>3 DEF Turned
<1> QED
  BY <1>1, <1>2, <1>3 DEF Linked

LEMMA UndosOf ==
  ASSUME NEW c \in Accepts
  PROVE  /\ "account" \in AllUndos(c) /\ "status" \in AllUndos(c)
         /\ "application" \in AllUndos(c) <=> ~ForOrg(c)
BY DEF AllUndos, Undos

LEMMA OpenIsFinite ==
  /\ IsFiniteSet(Accepts)
  /\ \A S \in SUBSET Accepts : IsFiniteSet(S) /\ Cardinality(S) \in Nat
BY Constants, FS_Subset, FS_CardinalityType

\* Nobody is admitted and no request begins.
LEMMA CountedKept ==
  ASSUME TypeOK, TypeOK', Counted, UNCHANGED peak, OpenCalls' \subseteq OpenCalls,
         Admitted' \subseteq Admitted
  PROVE  Counted'
<1>1. /\ Cardinality(OpenCalls') <= Cardinality(OpenCalls) /\ Cardinality(OpenCalls) \in Nat
      /\ Cardinality(OpenCalls') \in Nat
  <2>1. OpenCalls \subseteq Accepts
    BY DEF OpenCalls
  <2> QED
    BY <2>1, OpenIsFinite, FS_Subset
<1>2. /\ Cardinality(Admitted') <= Cardinality(Admitted) /\ Cardinality(Admitted) \in Nat
      /\ Cardinality(Admitted') \in Nat
  <2>1. Admitted \subseteq Accepts
    BY DEF Admitted, TypeOK
  <2> QED
    BY <2>1, OpenIsFinite, FS_Subset
<1>3. InProgress = Cardinality(OpenCalls) /\ InProgress' = Cardinality(OpenCalls')
  BY DEF InProgress, OpenCalls
<1>4. peak \in Nat /\ Seats \in Nat
  BY Constants DEF TypeOK
<1> QED
  BY <1>1, <1>2, <1>3, <1>4 DEF Counted

\* Nobody takes back a status, and nobody else writes one.
LEMMA AttributedKept ==
  ASSUME Linked, Attributed, Kin, Unused, NEW c,
         \A d \in Accepts \ {c} : call'[d] = call[d],
         call[c].at # "idle" => (Used(c) => Used(c)'),
         call[c].at # "idle" => (Filed(c) /\ ~ForOrg(c) => Filed(c)')
  PROVE  Attributed'
<1>1. ASSUME NEW d \in Accepts, call[d].at # "idle", Used(d) PROVE Used(d)'
  <2>1. CASE d = c
    BY <1>1, <2>1
  <2>2. CASE d # c
    BY <1>1, <2>2 DEF Used
  <2> QED
    BY <2>1, <2>2
<1>2. ASSUME NEW d \in Accepts, call[d].at # "idle", Filed(d), ~ForOrg(d) PROVE Filed(d)'
  <2>1. CASE d = c
    BY <1>2, <2>1
  <2>2. CASE d # c
    BY <1>2, <2>2 DEF Filed
  <2> QED
    BY <2>1, <2>2
<1>3. ASSUME NEW i \in Existing', invite'[i].status = "accepted"
      PROVE  \E d \in Accepts : call'[d].invite = i /\ Used(d)'
  <2>1. i \in Existing /\ invite[i].status = "accepted"
    BY <1>3 DEF Unused
  <2>2. PICK d \in Accepts : call[d].invite = i /\ Used(d)
    BY <2>1 DEF Attributed
  <2>3. call[d].at # "idle"
    BY <2>1, <2>2, Constants DEF Linked, Existing
  <2> QED
    BY <1>1, <2>2, <2>3 DEF Kin
<1>4. ASSUME NEW e \in Applicants, application'[e] = "invite_accepted"
      PROVE  \E d \in Accepts : /\ call'[d].at # "idle" /\ EmailOf(d)' = e /\ ~ForOrg(d)'
                                /\ Filed(d)'
  <2>1. application[e] = "invite_accepted"
    BY <1>4 DEF Unused
  <2>2. PICK d \in Accepts : /\ call[d].at # "idle" /\ EmailOf(d) = e /\ ~ForOrg(d)
                             /\ Filed(d)
    BY <2>1 DEF Attributed
  <2> QED
    BY <1>2, <2>2 DEF Kin
<1> QED
  BY <1>3, <1>4 DEF Attributed

-----------------------------------------------------------------------------
(* The invariant holds at the start and every step keeps it.               *)

LEMMA InitIInv == Init => IInv
<1> SUFFICES ASSUME Init PROVE IInv
  OBVIOUS
<1>1. TypeOK
  <2>1. [at |-> "idle", invite |-> None, todo |-> {}, lost |-> {}] \in Call
    BY DEF Call
  <2> QED
    BY <2>1, Constants DEF Init, TypeOK
<1>2. \A c \in Accepts : /\ call[c].at = "idle" /\ call[c].invite = None
                         /\ call[c].todo = {} /\ call[c].lost = {}
  BY DEF Init
<1>3. Existing = {}
  BY DEF Init, Existing
<1>4. Linked /\ Asked /\ Placed
  BY <1>2 DEF Init, Linked, Asked, Placed, NotAsking
<1>5. Owned /\ Traced /\ Joined
  BY <1>2 DEF Init, Owned, Traced, Joined, Holding
<1>6. Counted
  <2>1. OpenCalls = {} /\ Admitted = {}
    BY <1>2 DEF OpenCalls, Open, Admitted, Init
  <2>2. InProgress = Cardinality(OpenCalls)
    BY DEF InProgress, OpenCalls
  <2> QED
    BY <2>1, <2>2, FS_EmptySet, Constants DEF Counted, Init
<1>7. Attributed
  BY <1>3, Constants DEF Init, Attributed, Filings
<1> QED
  BY <1>1, <1>4, <1>5, <1>6, <1>7 DEF IInv

LEMMA StaffKeeps ==
  ASSUME IInv, Staff
  PROVE  IInv'
<1>1. /\ TypeOK' /\ Asked' /\ Fixed /\ Unused
      /\ UNCHANGED <<account, call, peak>>
      /\ members' \subseteq members /\ members \cup removed \subseteq members' \cup removed'
  BY StaffStep DEF IInv
<1>2. Kin
  BY <1>1, Refers DEF Kin, IInv
<1>3. Linked'
  BY <1>1, Refers DEF IInv, Linked
<1>4. \A d \in Accepts : call[d].at # "idle" => (ForOrg(d)' <=> ForOrg(d)) /\ EmailOf(d)' = EmailOf(d)
  BY <1>2 DEF Kin
<1>5. Placed'
  BY <1>1, <1>4 DEF IInv, Placed, Linked
<1>6. Owned' /\ Traced'
  BY <1>1, <1>4 DEF IInv, Owned, Traced, Holding, MayHold
<1>7. Joined'
  BY <1>1, <1>4 DEF IInv, Joined
<1>8. Counted'
  <2>1. OpenCalls' \subseteq OpenCalls /\ Admitted' \subseteq Admitted
    BY <1>1 DEF OpenCalls, Admitted
  <2> QED
    BY <1>1, <2>1, CountedKept DEF IInv
<1>9. Attributed'
  <2>1. (Used(None) => Used(None)') /\ (Filed(None) => Filed(None)')
    BY <1>1 DEF Used, Filed
  <2> QED
    BY <1>1, <1>2, <2>1, AttributedKept DEF IInv
<1> QED
  BY <1>1, <1>3, <1>5, <1>6, <1>7, <1>8, <1>9 DEF IInv

\* What is left to show, part by part, when one acceptance moves.
LEMMA PlacedTurned ==
  ASSUME Linked, Placed, Kin, NEW c \in Accepts, call[c].at # "idle",
         NEW p, NEW t, NEW l, Turned(c, p, t, l),
         p \in {"counted", "joined"} => ForOrg(c), p = "filed" => ~ForOrg(c),
         t # {} => p = "undoing", l # {} => p \in {"undoing", "failed"},
         "application" \in t \cup l => ~ForOrg(c)
  PROVE  Placed'
<1>1. ASSUME NEW d \in Accepts
      PROVE  /\ call'[d].at \in {"counted", "joined"} => ForOrg(d)'
             /\ call'[d].at = "filed" => ~ForOrg(d)'
             /\ call'[d].todo # {} => call'[d].at = "undoing"
             /\ call'[d].lost # {} => call'[d].at \in {"undoing", "failed"}
             /\ "application" \in call'[d].todo \cup call'[d].lost => ~ForOrg(d)'
  <2>1. CASE d = c
    <3>1. call'[d].at = p /\ call'[d].todo = t /\ call'[d].lost = l
      BY <2>1 DEF Turned
    <3>2. ForOrg(d)' = ForOrg(c)
      BY <2>1 DEF Kin
    <3> QED
      BY <3>1, <3>2
  <2>2. CASE d # c /\ call[d].at # "idle"
    <3>1. call'[d] = call[d]
      BY <2>2 DEF Turned
    <3>2. ForOrg(d)' = ForOrg(d)
      BY <2>2 DEF Kin
    <3> QED
      BY <3>1, <3>2 DEF Placed
  <2>3. CASE call[d].at = "idle"
    BY <2>3 DEF Turned, Linked
  <2> QED
    BY <2>1, <2>2, <2>3
<1> QED
  BY <1>1 DEF Placed

LEMMA OwnedTurned ==
  ASSUME TypeOK, Linked, Owned, Kin, NEW c \in Accepts, call[c].at # "idle",
         NEW p, NEW t, NEW l, Turned(c, p, t, l),
         p \in Holding => account'[EmailOf(c)] = c,
         \A e \in Emails : account[e] \in Accepts \ {c} => account'[e] = account[e]
  PROVE  Owned'
<1>1. ASSUME NEW d \in Accepts, call'[d].at \in Holding PROVE account'[EmailOf(d)'] = d
  <2>1. CASE d = c
    BY <1>1, <2>1 DEF Turned, Kin
  <2>2. CASE d # c
    <3>1. call[d].at \in Holding /\ call[d].at # "idle"
      BY <1>1, <2>2 DEF Turned, Holding
    <3>2. EmailOf(d) \in Emails /\ EmailOf(d)' = EmailOf(d)
      BY <3>1, LinkedInvite DEF Kin
    <3>3. account[EmailOf(d)] = d
      BY <3>1 DEF Owned
    <3> QED
      BY <2>2, <3>2, <3>3
  <2> QED
    BY <2>1, <2>2
<1> QED
  BY <1>1 DEF Owned

LEMMA TracedTurned ==
  ASSUME TypeOK, TypeOK', Traced, NEW c \in Accepts,
         NEW p, NEW t, NEW l, Turned(c, p, t, l),
         \A e \in Emails : account'[e] \in {None, c, account[e]},
         members' \subseteq members \cup {c},
         \/ p \in Holding \/ "account" \in t \cup l
         \/ c \notin members' /\ \A e \in Emails : account'[e] # c
  PROVE  Traced'
<1>1. \A d \in Accepts \ {c} : call'[d] = call[d]
  BY DEF Turned
<1>2. ASSUME NEW d \in Accepts \ {c}, MayHold(d) PROVE MayHold(d)'
  <2>1. call'[d] = call[d]
    BY <1>1
  <2> QED
    BY <1>2, <2>1 DEF MayHold
<1>3. \/ MayHold(c)'
      \/ c \notin members' /\ \A e \in Emails : account'[e] # c
  <2>1. call'[c].at = p /\ call'[c].todo = t /\ call'[c].lost = l
    BY DEF Turned
  <2> QED
    BY <2>1 DEF MayHold, Holding
<1>4. ASSUME NEW e \in Emails, account'[e] # None PROVE MayHold(account[e])'
  <2> DEFINE d == account[e]
  <2>1. CASE account'[e] = c
    <3>1. MayHold(c)'
      BY <1>3, <2>1
    <3> QED
      BY <2>1, <3>1 DEF MayHold
  <2>2. CASE account'[e] # c
    <3>1. account'[e] = d /\ d \in Accepts \ {c}
      BY <1>4, <2>2 DEF TypeOK
    <3>2. MayHold(d)
      BY <1>4, <3>1 DEF Traced
    <3>3. call'[account'[e]] = call[d]
      BY <1>1, <3>1
    <3> QED
      BY <3>2, <3>3 DEF MayHold
  <2> QED
    BY <2>1, <2>2
<1>5. ASSUME NEW d \in members' PROVE MayHold(d)'
  <2>1. CASE d = c
    BY <1>3, <1>5, <2>1
  <2>2. CASE d # c
    <3>1. d \in Accepts \ {c} /\ MayHold(d)
      BY <1>5, <2>2 DEF Traced, TypeOK
    <3> QED
      BY <1>2, <3>1
  <2> QED
    BY <2>1, <2>2
<1> QED
  BY <1>4, <1>5 DEF Traced

LEMMA JoinedTurned ==
  ASSUME Linked, Joined, Kin, NEW c \in Accepts, call[c].at # "idle",
         NEW p, NEW t, NEW l, Turned(c, p, t, l),
         members \ {c} \subseteq members', UNCHANGED removed,
         p \in {"joined", "marked", "filed", "ok"} /\ ForOrg(c) => c \in members' \cup removed
  PROVE  Joined'
<1>1. ASSUME NEW d \in Accepts, call'[d].at \in {"joined", "marked", "filed", "ok"}, ForOrg(d)'
      PROVE  d \in members' \cup removed'
  <2>1. CASE d = c
    <3>1. ForOrg(c) /\ call'[c].at = p
      BY <1>1, <2>1 DEF Kin, Turned
    <3> QED
      BY <1>1, <2>1, <3>1
  <2>2. CASE d # c
    <3>1. call'[d] = call[d]
      BY <2>2 DEF Turned
    <3>2. ForOrg(d)
      BY <1>1, <3>1 DEF Kin
    <3> QED
      BY <1>1, <2>2, <3>1, <3>2 DEF Joined
  <2> QED
    BY <2>1, <2>2
<1> QED
  BY <1>1 DEF Joined

LEMMA CountedTurned ==
  ASSUME TypeOK, TypeOK', Counted, UNCHANGED peak, NEW c \in Accepts, call[c].at \in Open,
         NEW p, NEW t, NEW l, Turned(c, p, t, l),
         p # "counted", members' \subseteq Admitted
  PROVE  Counted'
<1>1. OpenCalls' \subseteq OpenCalls
  BY DEF OpenCalls, Turned
<1>2. Admitted' \subseteq Admitted
  BY DEF Admitted, Turned
<1> QED
  BY <1>1, <1>2, CountedKept

LEMMA FindKeeps ==
  ASSUME IInv, NEW c \in Accepts, NEW i \in Invites, Find(c, i)
  PROVE  IInv'
<1>1. /\ TypeOK' /\ call[c].at = "idle" /\ i \in Existing
      /\ call' \in [Accepts -> Call]
      /\ call'[c] = [at |-> "found", invite |-> i, todo |-> {}, lost |-> {}]
      /\ \A d \in Accepts \ {c} : call'[d] = call[d]
      /\ peak' = IF InProgress = peak THEN peak + 1 ELSE peak
      /\ UNCHANGED <<invite, application, account, members, staff, removed>>
  BY FindStep DEF IInv
<1>2. /\ call'[c].at = "found" /\ call'[c].invite = i /\ call'[c].todo = {}
      /\ call'[c].lost = {}
  BY <1>1
<1>3. Fixed /\ Existing' = Existing /\ Unused
  BY <1>1, SameInvites DEF Unused
<1>4. \A d \in Accepts : call[d].at # "idle" => call'[d] = call[d]
  BY <1>1
<1>5. Kin
  BY <1>3, <1>4, Refers DEF Kin, IInv
<1>6. Linked'
  BY <1>1, <1>2, <1>3 DEF IInv, Linked
<1>7. Asked'
  BY <1>1 DEF IInv, Asked, staff
<1>8. \A d \in Accepts \ {c} : /\ call'[d] = call[d]
                             /\ call[d].at # "idle" =>
                                  (ForOrg(d)' <=> ForOrg(d)) /\ EmailOf(d)' = EmailOf(d)
  BY <1>1, <1>5 DEF Kin
<1>9. Placed'
  <2>1. ASSUME NEW d \in Accepts \ {c}
        PROVE  /\ call'[d].at \in {"counted", "joined"} => ForOrg(d)'
               /\ call'[d].at = "filed" => ~ForOrg(d)'
               /\ call'[d].todo # {} => call'[d].at = "undoing"
               /\ call'[d].lost # {} => call'[d].at \in {"undoing", "failed"}
               /\ "application" \in call'[d].todo \cup call'[d].lost => ~ForOrg(d)'
    <3>1. call'[d] = call[d]
      BY <1>1
    <3>2. CASE call[d].at = "idle"
      BY <3>1, <3>2 DEF IInv, Linked
    <3>3. CASE call[d].at # "idle"
      BY <1>8, <3>1, <3>3 DEF IInv, Placed
    <3> QED
      BY <3>2, <3>3
  <2> QED
    BY <1>2, <2>1 DEF Placed
<1>10. Owned'
  BY <1>1, <1>2, <1>8 DEF IInv, Owned, Holding
<1>11. Traced'
  <2>1. ~MayHold(c)
    BY <1>1 DEF IInv, MayHold, Holding, Linked
  <2>2. \A d \in Accepts \ {c} : MayHold(d)' <=> MayHold(d)
    BY <1>1 DEF MayHold
  <2> QED
    BY <1>1, <2>1, <2>2, Constants DEF IInv, Traced, TypeOK
<1>12. Joined'
  BY <1>1, <1>2, <1>8 DEF IInv, Joined
<1>13. Counted'
  <2>1. OpenCalls' = OpenCalls \cup {c} /\ c \notin OpenCalls
    BY <1>1, <1>2 DEF OpenCalls, Open
  <2>2. Admitted' = Admitted
    BY <1>1, <1>2 DEF Admitted
  <2>3. OpenCalls \subseteq Accepts /\ Admitted \subseteq Accepts
    BY DEF OpenCalls, Admitted, IInv, TypeOK
  <2>4. /\ Cardinality(OpenCalls') = Cardinality(OpenCalls) + 1
        /\ Cardinality(OpenCalls) \in Nat /\ Cardinality(Admitted) \in Nat
    BY <2>1, <2>3, OpenIsFinite, FS_AddElement
  <2>5. InProgress = Cardinality(OpenCalls) /\ InProgress' = Cardinality(OpenCalls')
    BY DEF InProgress, OpenCalls
  <2>6. peak \in Nat /\ Seats \in Nat
    BY Constants DEF IInv, TypeOK
  <2> QED
    BY <1>1, <2>2, <2>4, <2>5, <2>6 DEF IInv, Counted
<1>14. Attributed'
  BY <1>1, <1>3, <1>5, AttributedKept DEF IInv
<1> QED
  BY <1>1, <1>6, <1>7, <1>9, <1>10, <1>11, <1>12, <1>13, <1>14 DEF IInv

\* CreateUser takes an address that nobody has.
LEMMA CreateKeeps ==
  ASSUME IInv, NEW c \in Accepts, CreateUser(c)
  PROVE  IInv'
<1>1. /\ TypeOK' /\ call[c].at = "found"
      /\ UNCHANGED <<invite, application, members, staff, removed, peak>>
  BY CreateStep DEF IInv
<1>2. PICK p \in {"created", "failed"}, l \in {{}, {"account"}} :
        /\ Turned(c, p, {}, l) /\ (p = "created" => l = {})
        /\ \/ /\ account[EmailOf(c)] = None /\ account' = [account EXCEPT ![EmailOf(c)] = c]
              /\ p = "created" \/ "account" \in l
           \/ UNCHANGED account /\ p = "failed"
  <2>1. call[c].todo = {} /\ call[c].lost = {}
    BY <1>1 DEF IInv, Placed
  <2>2. \/ /\ account[EmailOf(c)] = None /\ account' = [account EXCEPT ![EmailOf(c)] = c]
           /\ Turned(c, "created", {}, {}) \/ Turned(c, "failed", {}, {"account"})
        \/ UNCHANGED account /\ Turned(c, "failed", {}, {})
    BY <2>1, CreateStep DEF IInv
  <2> QED
    BY <2>2
<1>3. EmailOf(c) \in Emails
  BY <1>1, LinkedInvite DEF IInv
<1>4. Fixed /\ Unused
  BY <1>1, SameInvites DEF Unused
<1>5. Kin /\ Linked'
  BY <1>1, <1>2, <1>4, KinTurned DEF IInv, Places, Open
<1>6. Asked'
  BY <1>1 DEF IInv, Asked, staff
<1>7. Placed'
  BY <1>1, <1>2, <1>5, PlacedTurned DEF IInv
<1>8. Owned'
  <2>1. p \in Holding => account'[EmailOf(c)] = c
    BY <1>2, <1>3 DEF Holding, IInv, TypeOK
  <2>2. \A e \in Emails : account[e] \in Accepts \ {c} => account'[e] = account[e]
    BY <1>2, Constants DEF IInv, TypeOK
  <2> QED
    BY <1>1, <1>2, <1>5, <2>1, <2>2, OwnedTurned DEF IInv
<1>9. Traced'
  <2>1. ~MayHold(c)
    BY <1>1 DEF IInv, Placed, MayHold, Holding
  <2>2. c \notin members /\ \A e \in Emails : account[e] # c
    BY <2>1, Constants DEF IInv, Traced
  <2>3. \A e \in Emails : account'[e] \in {None, c, account[e]}
    BY <1>2 DEF IInv, TypeOK
  <2>4. \/ p \in Holding \/ "account" \in {} \cup l
        \/ c \notin members' /\ \A e \in Emails : account'[e] # c
    BY <1>1, <1>2, <2>2 DEF Holding
  <2> QED
    BY <1>1, <1>2, <2>3, <2>4, TracedTurned DEF IInv
<1>10. Joined'
  BY <1>1, <1>2, <1>5, JoinedTurned DEF IInv
<1>11. Counted'
  BY <1>1, <1>2, CountedTurned DEF IInv, Open, Admitted
<1>12. Attributed'
  <2>1. ~Used(c) /\ ~Filed(c)
    BY <1>1 DEF IInv, Placed, Used, Filed
  <2> QED
    BY <1>2, <1>4, <1>5, <2>1, AttributedKept DEF IInv, Turned
<1> QED
  BY <1>1, <1>5, <1>6, <1>7, <1>8, <1>9, <1>10, <1>11, <1>12 DEF IInv

\* CountSeats admits one more, at a moment when there is a seat.
LEMMA CountKeeps ==
  ASSUME IInv, NEW c \in Accepts, CountSeats(c)
  PROVE  IInv'
<1>1. /\ TypeOK' /\ call[c].at = "created" /\ ForOrg(c)
      /\ UNCHANGED <<invite, application, account, members, staff, removed, peak>>
  BY CountStep DEF IInv
<1>2. PICK p \in {"counted", "undoing"}, t \in {{}, AllUndos(c)} :
        /\ Turned(c, p, t, {}) /\ (t = {} <=> p = "counted")
        /\ p = "counted" => Active < Seats
  <2>1. call[c].todo = {} /\ call[c].lost = {}
    BY <1>1 DEF IInv, Placed
  <2>2. \/ Active < Seats /\ Turned(c, "counted", {}, {})
        \/ Turned(c, "undoing", AllUndos(c), {})
    BY <2>1, CountStep DEF IInv
  <2> QED
    BY <2>2, UndosOf
<1>3. p = "undoing" => "account" \in t /\ "status" \in t
  BY <1>2, UndosOf
<1>4. "application" \notin t
  BY <1>1, <1>2, UndosOf
<1>5. Fixed /\ Unused
  BY <1>1, SameInvites DEF Unused
<1>6. Kin /\ Linked'
  BY <1>1, <1>2, <1>5, KinTurned DEF IInv, Places, Open
<1>7. Asked'
  BY <1>1 DEF IInv, Asked, staff
<1>8. Placed'
  BY <1>1, <1>2, <1>4, <1>6, PlacedTurned DEF IInv
<1>9. Owned'
  <2>1. account[EmailOf(c)] = c
    BY <1>1 DEF IInv, Owned, Holding
  <2> QED
    BY <1>1, <1>2, <1>6, <2>1, OwnedTurned DEF IInv
<1>10. Traced'
  BY <1>1, <1>2, <1>3, TracedTurned DEF IInv, Holding
<1>11. Joined'
  BY <1>1, <1>2, <1>6, JoinedTurned DEF IInv
<1>12. Counted'
  <2>1. CASE p # "counted"
    BY <1>1, <1>2, <2>1, CountedTurned DEF IInv, Open, Admitted
  <2>2. CASE p = "counted"
    <3> DEFINE K == {d \in Accepts : call'[d].at = "counted"}
    <3>1. K \subseteq OpenCalls /\ OpenCalls' = OpenCalls /\ Admitted' = members \cup K
      BY <1>1, <1>2, <2>2 DEF Turned, OpenCalls, Open, Admitted
    <3>2. /\ K \subseteq Accepts /\ OpenCalls \subseteq Accepts /\ members \subseteq Accepts
          /\ peak \in Nat /\ Seats \in Nat
      BY <3>1, Constants DEF OpenCalls, IInv, TypeOK
    <3>3. /\ IsFiniteSet(K) /\ IsFiniteSet(members) /\ IsFiniteSet(OpenCalls)
          /\ Cardinality(K) \in Nat /\ Cardinality(members) \in Nat
          /\ Cardinality(OpenCalls) \in Nat
      BY <3>2, OpenIsFinite
    <3> HIDE DEF K
    <3>4. Cardinality(K) <= Cardinality(OpenCalls)
      BY <3>1, <3>3, FS_Subset
    <3>5. /\ Cardinality(members \cup K)
               = Cardinality(members) + Cardinality(K) - Cardinality(members \cap K)
          /\ Cardinality(members \cap K) \in Nat
      <4>1. members \cap K \subseteq Accepts
        BY <3>2
      <4> QED
        BY <3>3, <4>1, OpenIsFinite, FS_Union
    <3>6. InProgress = Cardinality(OpenCalls) /\ InProgress' = Cardinality(OpenCalls')
      BY DEF InProgress, OpenCalls
    <3>7. Cardinality(members) + 1 < Seats
      BY <1>2, <2>2 DEF Active
    <3>8. InProgress <= peak
      BY DEF IInv, Counted
    <3>9. peak' = peak
      BY <1>1
    <3> QED
      BY <3>1, <3>2, <3>3, <3>4, <3>5, <3>6, <3>7, <3>8, <3>9 DEF Counted
  <2> QED
    BY <2>1, <2>2
<1>13. Attributed'
  <2>1. Used(c) => Used(c)'
    BY <1>1, <1>2, <1>3 DEF Used, Turned, IInv, Placed
  <2> QED
    BY <1>1, <1>2, <1>5, <1>6, <2>1, AttributedKept DEF IInv, Turned
<1> QED
  BY <1>1, <1>6, <1>7, <1>8, <1>9, <1>10, <1>11, <1>12, <1>13 DEF IInv

LEMMA JoinKeeps ==
  ASSUME IInv, NEW c \in Accepts, Join(c)
  PROVE  IInv'
<1>1. /\ TypeOK' /\ call[c].at = "counted" /\ ForOrg(c)
      /\ members' \in {members, members \cup {c}}
      /\ UNCHANGED <<invite, application, account, staff, removed, peak>>
  BY JoinStep DEF IInv, Placed
<1>2. PICK p \in {"joined", "undoing"}, t \in {{}, AllUndos(c)} :
        /\ Turned(c, p, t, {}) /\ (t = {} <=> p = "joined")
        /\ p = "joined" => c \in members'
  <2>1. call[c].todo = {} /\ call[c].lost = {}
    BY <1>1 DEF IInv, Placed
  <2>2. \/ members' = members \cup {c} /\ Turned(c, "joined", {}, {})
        \/ Turned(c, "undoing", AllUndos(c), {})
    BY <2>1, JoinStep DEF IInv
  <2> QED
    BY <2>2, UndosOf
<1>3. p = "undoing" => "account" \in t /\ "status" \in t
  BY <1>2, UndosOf
<1>4. "application" \notin t
  BY <1>1, <1>2, UndosOf
<1>5. Fixed /\ Unused
  BY <1>1, SameInvites DEF Unused
<1>6. Kin /\ Linked'
  BY <1>1, <1>2, <1>5, KinTurned DEF IInv, Places, Open
<1>7. Asked'
  BY <1>1 DEF IInv, Asked, staff
<1>8. Placed'
  BY <1>1, <1>2, <1>4, <1>6, PlacedTurned DEF IInv
<1>9. Owned'
  <2>1. account[EmailOf(c)] = c
    BY <1>1 DEF IInv, Owned, Holding
  <2> QED
    BY <1>1, <1>2, <1>6, <2>1, OwnedTurned DEF IInv
<1>10. Traced'
  BY <1>1, <1>2, <1>3, TracedTurned DEF IInv, Holding
<1>11. Joined'
  BY <1>1, <1>2, <1>6, JoinedTurned DEF IInv
<1>12. Counted'
  <2>1. c \in Admitted
    BY <1>1 DEF Admitted
  <2>2. members' \subseteq Admitted
    BY <1>1, <2>1 DEF Admitted
  <2> QED
    BY <1>1, <1>2, <2>2, CountedTurned DEF IInv, Open
<1>13. Attributed'
  <2>1. Used(c) => Used(c)'
    BY <1>1, <1>2, <1>3 DEF Used, Turned, IInv, Placed
  <2> QED
    BY <1>1, <1>2, <1>5, <1>6, <2>1, AttributedKept DEF IInv, Turned
<1> QED
  BY <1>1, <1>6, <1>7, <1>8, <1>9, <1>10, <1>11, <1>12, <1>13 DEF IInv

\* Mark writes the status of the invite and answers for it.
LEMMA MarkKeeps ==
  ASSUME IInv, NEW c \in Accepts, Mark(c)
  PROVE  IInv'
<1>1. /\ TypeOK' /\ call[c].at \in {"joined", "created"} /\ (ForOrg(c) => call[c].at = "joined")
      /\ UNCHANGED <<application, account, members, staff, removed, peak>>
  BY MarkStep DEF IInv
<1>2. PICK p \in {"marked", "undoing"}, t \in {{}, AllUndos(c)} :
        Turned(c, p, t, {}) /\ (t = {} <=> p = "marked")
  <2>1. call[c].todo = {} /\ call[c].lost = {}
    BY <1>1 DEF IInv, Placed
  <2>2. Turned(c, "marked", {}, {}) \/ Turned(c, "undoing", AllUndos(c), {})
    BY <2>1, MarkStep DEF IInv
  <2> QED
    BY <2>2, UndosOf
<1>3. /\ p = "undoing" => "account" \in t /\ "status" \in t
      /\ "application" \in t => ~ForOrg(c)
  BY <1>2, UndosOf
<1>4. call[c].invite \in Existing
  BY <1>1, LinkedInvite DEF IInv
<1>5. /\ Fixed /\ Existing' = Existing
      /\ \A j \in Existing \ {call[c].invite} : invite'[j] = invite[j]
  <2>1. SetStatus(call[c].invite, "accepted") \/ UNCHANGED invite
    BY MarkStep DEF IInv
  <2>2. CASE UNCHANGED invite
    BY <2>2, SameInvites
  <2>3. CASE SetStatus(call[c].invite, "accepted")
    BY <1>4, <2>3, WrittenStatus DEF IInv, Statuses
  <2> QED
    BY <2>1, <2>2, <2>3
<1>6. Kin /\ Linked'
  BY <1>1, <1>2, <1>5, KinTurned DEF IInv, Places, Open
<1>7. Asked'
  BY <1>1 DEF IInv, Asked, staff
<1>8. Placed'
  BY <1>1, <1>2, <1>3, <1>6, PlacedTurned DEF IInv
<1>9. Owned'
  <2>1. account[EmailOf(c)] = c
    BY <1>1 DEF IInv, Owned, Holding
  <2> QED
    BY <1>1, <1>2, <1>6, <2>1, OwnedTurned DEF IInv
<1>10. Traced'
  BY <1>1, <1>2, <1>3, TracedTurned DEF IInv, Holding
<1>11. Joined'
  <2>1. ForOrg(c) => c \in members' \cup removed
    BY <1>1 DEF IInv, Joined
  <2> QED
    BY <1>1, <1>2, <1>6, <2>1, JoinedTurned DEF IInv
<1>12. Counted'
  BY <1>1, <1>2, CountedTurned DEF IInv, Open, Admitted
<1>13. Attributed'
  <2>1. call'[c].invite = call[c].invite /\ Used(c)' /\ ~Filed(c)
    BY <1>1, <1>2, <1>3 DEF Used, Filed, Turned, IInv, Placed
  <2>2. ASSUME NEW i \in Existing', invite'[i].status = "accepted"
        PROVE  \E d \in Accepts : call'[d].invite = i /\ Used(d)'
    <3>1. CASE i = call[c].invite
      BY <2>1, <3>1
    <3>2. CASE i # call[c].invite
      <4>1. i \in Existing /\ invite[i].status = "accepted"
        BY <1>5, <2>2, <3>2
      <4>2. PICK d \in Accepts : call[d].invite = i /\ Used(d)
        BY <4>1 DEF IInv, Attributed
      <4>3. call'[d] = call[d]
        BY <1>2, <3>2, <4>2 DEF Turned
      <4> QED
        BY <4>2, <4>3 DEF Used
    <3> QED
      BY <3>1, <3>2
  <2>3. ASSUME NEW e \in Applicants, application'[e] = "invite_accepted"
        PROVE  \E d \in Accepts : /\ call'[d].at # "idle" /\ EmailOf(d)' = e /\ ~ForOrg(d)'
                                  /\ Filed(d)'
    <3>1. PICK d \in Accepts : call[d].at # "idle" /\ EmailOf(d) = e /\ ~ForOrg(d) /\ Filed(d)
      BY <1>1, <2>3 DEF IInv, Attributed
    <3>2. call'[d] = call[d]
      BY <1>2, <2>1, <3>1 DEF Turned
    <3> QED
      BY <1>6, <3>1, <3>2 DEF Kin, Filed
  <2> QED
    BY <2>2, <2>3 DEF Attributed
<1> QED
  BY <1>1, <1>6, <1>7, <1>8, <1>9, <1>10, <1>11, <1>12, <1>13 DEF IInv

\* File writes the status of the application and answers for it.
LEMMA FileKeeps ==
  ASSUME IInv, NEW c \in Accepts, File(c)
  PROVE  IInv'
<1>1. /\ TypeOK' /\ call[c].at = "marked" /\ ~ForOrg(c)
      /\ UNCHANGED <<invite, account, members, staff, removed, peak>>
  BY FileStep DEF IInv
<1>2. PICK p \in {"filed", "undoing"}, t \in {{}, AllUndos(c)} :
        Turned(c, p, t, {}) /\ (t = {} <=> p = "filed")
  <2>1. call[c].todo = {} /\ call[c].lost = {}
    BY <1>1 DEF IInv, Placed
  <2>2. Turned(c, "filed", {}, {}) \/ Turned(c, "undoing", AllUndos(c), {})
    BY <2>1, FileStep DEF IInv
  <2> QED
    BY <2>2, UndosOf
<1>3. p = "undoing" => "account" \in t /\ "status" \in t /\ "application" \in t
  BY <1>1, <1>2, UndosOf
<1>4. \A e \in Applicants : e # EmailOf(c) => application'[e] = application[e]
  <2>1. SetApplication(c, "invite_accepted") \/ UNCHANGED application
    BY FileStep DEF IInv
  <2> QED
    BY <2>1, SetApplicationStep DEF IInv, Filings
<1>5. Fixed
  BY <1>1, SameInvites
<1>6. Kin /\ Linked'
  BY <1>1, <1>2, <1>5, KinTurned DEF IInv, Places, Open
<1>7. Asked'
  BY <1>1 DEF IInv, Asked, staff
<1>8. Placed'
  BY <1>1, <1>2, <1>6, PlacedTurned DEF IInv
<1>9. Owned'
  <2>1. account[EmailOf(c)] = c
    BY <1>1 DEF IInv, Owned, Holding
  <2> QED
    BY <1>1, <1>2, <1>6, <2>1, OwnedTurned DEF IInv
<1>10. Traced'
  BY <1>1, <1>2, <1>3, TracedTurned DEF IInv, Holding
<1>11. Joined'
  BY <1>1, <1>2, <1>6, JoinedTurned DEF IInv
<1>12. Counted'
  BY <1>1, <1>2, CountedTurned DEF IInv, Open, Admitted
<1>13. Attributed'
  <2>1. Used(c)' /\ Filed(c)'
    BY <1>2, <1>3 DEF Used, Filed, Turned
  <2>2. ASSUME NEW i \in Existing', invite'[i].status = "accepted"
        PROVE  \E d \in Accepts : call'[d].invite = i /\ Used(d)'
    <3>1. PICK d \in Accepts : call[d].invite = i /\ Used(d)
      BY <1>1, <2>2 DEF IInv, Attributed, Existing
    <3>2. call'[d].invite = i
      BY <1>2, <3>1 DEF Turned
    <3>3. Used(d)'
      <4>1. CASE d = c
        BY <2>1, <4>1
      <4>2. CASE d # c
        BY <1>2, <3>1, <4>2 DEF Turned, Used
      <4> QED
        BY <4>1, <4>2
    <3> QED
      BY <3>2, <3>3
  <2>3. ASSUME NEW e \in Applicants, application'[e] = "invite_accepted"
        PROVE  \E d \in Accepts : /\ call'[d].at # "idle" /\ EmailOf(d)' = e /\ ~ForOrg(d)'
                                  /\ Filed(d)'
    <3>1. CASE e = EmailOf(c)
      BY <1>1, <1>6, <2>1, <3>1 DEF Kin
    <3>2. CASE e # EmailOf(c)
      <4>1. PICK d \in Accepts : call[d].at # "idle" /\ EmailOf(d) = e /\ ~ForOrg(d) /\ Filed(d)
        BY <1>4, <2>3, <3>2 DEF IInv, Attributed
      <4>2. call'[d] = call[d]
        BY <1>2, <3>2, <4>1 DEF Turned
      <4> QED
        BY <1>6, <4>1, <4>2 DEF Kin, Filed
    <3> QED
      BY <3>1, <3>2
  <2> QED
    BY <2>2, <2>3 DEF Attributed
<1> QED
  BY <1>1, <1>6, <1>7, <1>8, <1>9, <1>10, <1>11, <1>12, <1>13 DEF IInv

LEMMA AuditKeeps ==
  ASSUME IInv, NEW c \in Accepts, Audit(c)
  PROVE  IInv'
<1>1. /\ TypeOK' /\ call[c].at = IF ForOrg(c) THEN "marked" ELSE "filed"
      /\ UNCHANGED <<invite, application, account, members, staff, removed, peak>>
  BY AuditStep DEF IInv
<1>2. PICK p \in {"ok", "undoing"}, t \in {{}, AllUndos(c)} :
        Turned(c, p, t, {}) /\ (t = {} <=> p = "ok")
  <2>1. call[c].todo = {} /\ call[c].lost = {}
    BY <1>1 DEF IInv, Placed
  <2>2. Turned(c, "ok", {}, {}) \/ Turned(c, "undoing", AllUndos(c), {})
    BY <2>1, AuditStep DEF IInv
  <2> QED
    BY <2>2, UndosOf
<1>3. /\ p = "undoing" => "account" \in t /\ "status" \in t
      /\ p = "undoing" => ("application" \in t <=> ~ForOrg(c))
      /\ "application" \in t => ~ForOrg(c)
  BY <1>2, UndosOf
<1>4. call[c].at \in {"marked", "filed"}
  BY <1>1
<1>5. Fixed /\ Unused
  BY <1>1, SameInvites DEF Unused
<1>6. Kin /\ Linked'
  BY <1>2, <1>4, <1>5, KinTurned DEF IInv, Places, Open
<1>7. Asked'
  BY <1>1 DEF IInv, Asked, staff
<1>8. Placed'
  BY <1>2, <1>3, <1>4, <1>6, PlacedTurned DEF IInv
<1>9. Owned'
  <2>1. account[EmailOf(c)] = c
    BY <1>4 DEF IInv, Owned, Holding
  <2> QED
    BY <1>1, <1>2, <1>4, <1>6, <2>1, OwnedTurned DEF IInv
<1>10. Traced'
  BY <1>1, <1>2, <1>3, TracedTurned DEF IInv, Holding
<1>11. Joined'
  <2>1. ForOrg(c) => c \in members' \cup removed
    BY <1>1 DEF IInv, Joined
  <2> QED
    BY <1>1, <1>2, <1>4, <1>6, <2>1, JoinedTurned DEF IInv
<1>12. Counted'
  BY <1>1, <1>2, <1>4, CountedTurned DEF IInv, Open, Admitted
<1>13. Attributed'
  <2>1. Used(c)' /\ (~ForOrg(c) => Filed(c)')
    BY <1>2, <1>3 DEF Used, Filed, Turned
  <2> QED
    BY <1>2, <1>5, <1>6, <2>1, AttributedKept DEF IInv, Turned
<1> QED
  BY <1>1, <1>6, <1>7, <1>8, <1>9, <1>10, <1>11, <1>12, <1>13 DEF IInv

\* A call of the rollback settles.
LEMMA SettledPlace ==
  ASSUME IInv, NEW c \in Accepts, NEW u \in Undos, NEW l, Settled(c, u, l),
         l \in {call[c].lost, call[c].lost \cup {u}}
  PROVE  /\ call[c].at = "undoing" /\ u \in call[c].todo
         /\ "application" \in (call[c].todo \ {u}) \cup l => ~ForOrg(c)
         /\ \E p \in {"undoing", "failed"} :
              /\ Turned(c, p, call[c].todo \ {u}, l)
              /\ p = "failed" <=> call[c].todo = {u}
<1>1. call[c].at = "undoing" /\ u \in call[c].todo
  BY DEF Settled, IInv, Placed
<1>2. "application" \in (call[c].todo \ {u}) \cup l => ~ForOrg(c)
  BY <1>1 DEF IInv, Placed
<1> DEFINE p == IF call[c].todo = {u} THEN "failed" ELSE "undoing"
<1>3. Turned(c, p, call[c].todo \ {u}, l)
  BY <1>1 DEF Settled
<1>4. p \in {"undoing", "failed"} /\ (p = "failed" <=> call[c].todo = {u})
  OBVIOUS
<1> HIDE DEF p
<1> QED
  BY <1>1, <1>2, <1>3, <1>4

\* DeleteUser takes away the account and the membership of this request only.
LEMMA DeleteKeeps ==
  ASSUME IInv, NEW c \in Accepts, DeleteUser(c)
  PROVE  IInv'
<1>1. /\ TypeOK' /\ UNCHANGED <<invite, application, staff, removed, peak>>
  BY DeleteStep DEF IInv
<1>2. PICK l \in {call[c].lost, call[c].lost \cup {"account"}} :
        /\ Settled(c, "account", l)
        /\ \/ /\ account' = [e \in Emails |-> IF account[e] = c THEN None ELSE account[e]]
              /\ members' = members \ {c}
           \/ "account" \in l /\ UNCHANGED <<account, members>>
  BY DeleteStep DEF IInv
<1>3. /\ call[c].at = "undoing" /\ "account" \in call[c].todo
      /\ "application" \in (call[c].todo \ {"account"}) \cup l => ~ForOrg(c)
  BY <1>2, SettledPlace DEF Undos
<1>4. PICK p \in {"undoing", "failed"} :
        /\ Turned(c, p, call[c].todo \ {"account"}, l)
        /\ p = "failed" <=> call[c].todo = {"account"}
  BY <1>2, SettledPlace DEF Undos
<1>5. p \notin Holding /\ p \in Places \ {"idle"} /\ p # "counted"
  BY DEF Holding, Places, Open
<1>6. /\ Fixed /\ Unused
      /\ \A e \in Emails : account'[e] \in {None, account[e]}
      /\ \A e \in Emails : account[e] # c => account'[e] = account[e]
      /\ members' \subseteq members /\ members \ {c} \subseteq members'
  BY <1>1, <1>2, SameInvites DEF Unused
<1>7. Kin /\ Linked'
  BY <1>3, <1>4, <1>5, <1>6, KinTurned DEF IInv
<1>8. Asked'
  BY <1>1 DEF IInv, Asked, staff
<1>9. Placed'
  BY <1>3, <1>4, <1>7, PlacedTurned DEF IInv
<1>10. Owned'
  <2>1. \A e \in Emails : account[e] \in Accepts \ {c} => account'[e] = account[e]
    BY <1>6
  <2> QED
    BY <1>3, <1>4, <1>5, <1>7, <2>1, OwnedTurned DEF IInv
<1>11. Traced'
  <2>1. \/ p \in Holding \/ "account" \in (call[c].todo \ {"account"}) \cup l
        \/ c \notin members' /\ \A e \in Emails : account'[e] # c
    BY <1>2, Constants
  <2>2. /\ \A e \in Emails : account'[e] \in {None, c, account[e]}
        /\ members' \subseteq members \cup {c}
    BY <1>6
  <2> QED
    BY <1>1, <1>4, <2>1, <2>2, TracedTurned DEF IInv
<1>12. Joined'
  BY <1>1, <1>6, <1>3, <1>4, <1>7, JoinedTurned DEF IInv
<1>13. Counted'
  BY <1>1, <1>6, <1>3, <1>4, CountedTurned DEF IInv, Open, Admitted
<1>14. Attributed'
  <2>1. (Used(c) => Used(c)') /\ (Filed(c) => Filed(c)')
    BY <1>3, <1>4 DEF Used, Filed, Turned
  <2> QED
    BY <1>4, <1>6, <1>7, <2>1, AttributedKept DEF IInv, Turned
<1> QED
  BY <1>1, <1>7, <1>8, <1>9, <1>10, <1>11, <1>12, <1>13, <1>14 DEF IInv

\* Restore takes back the status of the invite.
LEMMA RestoreKeeps ==
  ASSUME IInv, NEW c \in Accepts, Restore(c)
  PROVE  IInv'
<1>1. /\ TypeOK' /\ UNCHANGED <<application, account, members, staff, removed, peak>>
  BY RestoreStep DEF IInv
<1>2. PICK l \in {call[c].lost, call[c].lost \cup {"status"}} :
        /\ Settled(c, "status", l)
        /\ \/ SetStatus(call[c].invite, "pending")
           \/ "status" \in l /\ UNCHANGED invite
  BY RestoreStep DEF IInv
<1>3. /\ call[c].at = "undoing" /\ "status" \in call[c].todo
      /\ "application" \in (call[c].todo \ {"status"}) \cup l => ~ForOrg(c)
  BY <1>2, SettledPlace DEF Undos
<1>4. PICK p \in {"undoing", "failed"} :
        /\ Turned(c, p, call[c].todo \ {"status"}, l)
        /\ p = "failed" <=> call[c].todo = {"status"}
  BY <1>2, SettledPlace DEF Undos
<1>5. p \notin Holding /\ p \in Places \ {"idle"} /\ p # "counted"
  BY DEF Holding, Places, Open
<1>6. /\ Fixed /\ Existing' = Existing
      /\ \A i \in Existing : invite'[i].status = "accepted" =>
           /\ invite[i].status = "accepted"
           /\ i = call[c].invite => "status" \in l
  <2>1. CASE "status" \in l /\ UNCHANGED invite
    BY <2>1, SameInvites
  <2>2. CASE SetStatus(call[c].invite, "pending")
    <3>1. call[c].invite \in Existing
      BY <1>3, LinkedInvite DEF IInv
    <3>2. /\ Fixed /\ Existing' = Existing /\ invite'[call[c].invite].status = "pending"
          /\ \A j \in Existing \ {call[c].invite} : invite'[j] = invite[j]
      BY <2>2, <3>1, WrittenStatus DEF IInv, Statuses
    <3> QED
      BY <3>2
  <2> QED
    BY <1>2, <2>1, <2>2
<1>7. Kin /\ Linked'
  BY <1>3, <1>4, <1>5, <1>6, KinTurned DEF IInv
<1>8. Asked'
  BY <1>1 DEF IInv, Asked, staff
<1>9. Placed'
  BY <1>3, <1>4, <1>7, PlacedTurned DEF IInv
<1>10. Owned'
  BY <1>1, <1>3, <1>4, <1>5, <1>7, OwnedTurned DEF IInv
<1>11. Traced'
  <2>1. \/ "account" \in call[c].todo \cup call[c].lost
        \/ c \notin members /\ \A e \in Emails : account[e] # c
    <3>1. CASE ~MayHold(c)
      BY <3>1, Constants DEF IInv, Traced
    <3>2. CASE MayHold(c)
      BY <1>3, <3>2 DEF MayHold, Holding
    <3> QED
      BY <3>1, <3>2
  <2>2. \/ p \in Holding \/ "account" \in (call[c].todo \ {"status"}) \cup l
        \/ c \notin members' /\ \A e \in Emails : account'[e] # c
    BY <1>1, <2>1
  <2> QED
    BY <1>1, <1>4, <2>2, TracedTurned DEF IInv
<1>12. Joined'
  BY <1>1, <1>3, <1>4, <1>7, JoinedTurned DEF IInv
<1>13. Counted'
  BY <1>1, <1>3, <1>4, CountedTurned DEF IInv, Open, Admitted
<1>14. Attributed'
  <2>1. Filed(c) => Filed(c)'
    BY <1>3, <1>4 DEF Filed, Turned
  <2>2. "status" \in l => Used(c)'
    BY <1>4 DEF Used, Turned
  <2>3. ASSUME NEW i \in Existing', invite'[i].status = "accepted"
        PROVE  \E d \in Accepts : call'[d].invite = i /\ Used(d)'
    <3>1. PICK d \in Accepts : call[d].invite = i /\ Used(d)
      BY <1>6, <2>3 DEF IInv, Attributed
    <3>2. call'[d].invite = i
      BY <1>4, <3>1 DEF Turned
    <3>3. Used(d)'
      <4>1. CASE d = c
        BY <1>6, <2>2, <2>3, <3>1, <4>1
      <4>2. CASE d # c
        BY <1>4, <3>1, <4>2 DEF Turned, Used
      <4> QED
        BY <4>1, <4>2
    <3> QED
      BY <3>2, <3>3
  <2>4. ASSUME NEW e \in Applicants, application'[e] = "invite_accepted"
        PROVE  \E d \in Accepts : /\ call'[d].at # "idle" /\ EmailOf(d)' = e /\ ~ForOrg(d)'
                                  /\ Filed(d)'
    <3>1. PICK d \in Accepts : call[d].at # "idle" /\ EmailOf(d) = e /\ ~ForOrg(d) /\ Filed(d)
      BY <1>1, <2>4 DEF IInv, Attributed
    <3>2. Filed(d)'
      <4>1. CASE d = c
        BY <2>1, <3>1, <4>1
      <4>2. CASE d # c
        BY <1>4, <3>1, <4>2 DEF Turned, Filed
      <4> QED
        BY <4>1, <4>2
    <3> QED
      BY <1>7, <3>1, <3>2 DEF Kin
  <2> QED
    BY <2>3, <2>4 DEF Attributed
<1> QED
  BY <1>1, <1>7, <1>8, <1>9, <1>10, <1>11, <1>12, <1>13, <1>14 DEF IInv

\* Refile takes back the status of the application.
LEMMA RefileKeeps ==
  ASSUME IInv, NEW c \in Accepts, Refile(c)
  PROVE  IInv'
<1>1. /\ TypeOK' /\ UNCHANGED <<invite, account, members, staff, removed, peak>>
  BY RefileStep DEF IInv
<1>2. PICK l \in {call[c].lost, call[c].lost \cup {"application"}} :
        /\ Settled(c, "application", l)
        /\ \/ SetApplication(c, "waitlist_submitted")
           \/ "application" \in l /\ UNCHANGED application
  BY RefileStep DEF IInv
<1>3. /\ call[c].at = "undoing" /\ "application" \in call[c].todo
      /\ "application" \in (call[c].todo \ {"application"}) \cup l => ~ForOrg(c)
  BY <1>2, SettledPlace DEF Undos
<1>4. PICK p \in {"undoing", "failed"} :
        /\ Turned(c, p, call[c].todo \ {"application"}, l)
        /\ p = "failed" <=> call[c].todo = {"application"}
  BY <1>2, SettledPlace DEF Undos
<1>5. p \notin Holding /\ p \in Places \ {"idle"} /\ p # "counted"
  BY DEF Holding, Places, Open
<1>6. /\ Fixed
      /\ \A e \in Applicants : application'[e] = "invite_accepted" =>
           /\ application[e] = "invite_accepted"
           /\ e = EmailOf(c) => "application" \in l
  <2>1. Fixed
    BY <1>1, SameInvites
  <2>2. CASE "application" \in l /\ UNCHANGED application
    BY <2>1, <2>2
  <2>3. CASE SetApplication(c, "waitlist_submitted")
    <3>1. \A e \in Applicants : application'[e]
             = IF e = EmailOf(c) THEN "waitlist_submitted" ELSE application[e]
      BY <2>3, SetApplicationStep DEF IInv, Filings
    <3> QED
      BY <2>1, <3>1
  <2> QED
    BY <1>2, <2>2, <2>3
<1>7. Kin /\ Linked'
  BY <1>3, <1>4, <1>5, <1>6, KinTurned DEF IInv
<1>8. Asked'
  BY <1>1 DEF IInv, Asked, staff
<1>9. Placed'
  BY <1>3, <1>4, <1>7, PlacedTurned DEF IInv
<1>10. Owned'
  BY <1>1, <1>3, <1>4, <1>5, <1>7, OwnedTurned DEF IInv
<1>11. Traced'
  <2>1. \/ "account" \in call[c].todo \cup call[c].lost
        \/ c \notin members /\ \A e \in Emails : account[e] # c
    <3>1. CASE ~MayHold(c)
      BY <3>1, Constants DEF IInv, Traced
    <3>2. CASE MayHold(c)
      BY <1>3, <3>2 DEF MayHold, Holding
    <3> QED
      BY <3>1, <3>2
  <2>2. \/ p \in Holding \/ "account" \in (call[c].todo \ {"application"}) \cup l
        \/ c \notin members' /\ \A e \in Emails : account'[e] # c
    BY <1>1, <2>1
  <2> QED
    BY <1>1, <1>4, <2>2, TracedTurned DEF IInv
<1>12. Joined'
  BY <1>1, <1>3, <1>4, <1>7, JoinedTurned DEF IInv
<1>13. Counted'
  BY <1>1, <1>3, <1>4, CountedTurned DEF IInv, Open, Admitted
<1>14. Attributed'
  <2>1. Used(c) => Used(c)'
    BY <1>3, <1>4 DEF Used, Turned
  <2>2. "application" \in l => Filed(c)'
    BY <1>4 DEF Filed, Turned
  <2>3. ASSUME NEW i \in Existing', invite'[i].status = "accepted"
        PROVE  \E d \in Accepts : call'[d].invite = i /\ Used(d)'
    <3>1. PICK d \in Accepts : call[d].invite = i /\ Used(d)
      BY <1>1, <2>3 DEF IInv, Attributed, Existing
    <3>2. call'[d].invite = i
      BY <1>4, <3>1 DEF Turned
    <3>3. Used(d)'
      <4>1. CASE d = c
        BY <2>1, <3>1, <4>1
      <4>2. CASE d # c
        BY <1>4, <3>1, <4>2 DEF Turned, Used
      <4> QED
        BY <4>1, <4>2
    <3> QED
      BY <3>2, <3>3
  <2>4. ASSUME NEW e \in Applicants, application'[e] = "invite_accepted"
        PROVE  \E d \in Accepts : /\ call'[d].at # "idle" /\ EmailOf(d)' = e /\ ~ForOrg(d)'
                                  /\ Filed(d)'
    <3>1. PICK d \in Accepts : call[d].at # "idle" /\ EmailOf(d) = e /\ ~ForOrg(d) /\ Filed(d)
      BY <1>6, <2>4 DEF IInv, Attributed
    <3>2. Filed(d)'
      <4>1. CASE d = c
        BY <1>6, <2>2, <2>4, <3>1, <4>1
      <4>2. CASE d # c
        BY <1>4, <3>1, <4>2 DEF Turned, Filed
      <4> QED
        BY <4>1, <4>2
    <3> QED
      BY <1>7, <3>1, <3>2 DEF Kin
  <2> QED
    BY <2>3, <2>4 DEF Attributed
<1> QED
  BY <1>1, <1>7, <1>8, <1>9, <1>10, <1>11, <1>12, <1>13, <1>14 DEF IInv

-----------------------------------------------------------------------------
LEMMA NextIInv == IInv /\ [Next]_vars => IInv'
<1>1. ASSUME IInv, UNCHANGED vars PROVE IInv'
  <2>1. TypeOK' /\ Linked' /\ Asked' /\ Placed'
    BY <1>1 DEF IInv, vars, staff, TypeOK, Linked, Asked, Placed, ForOrg, OfKind, Existing
  <2>2. Owned' /\ Traced' /\ Joined'
    BY <1>1 DEF IInv, vars, Owned, Traced, Joined, MayHold, EmailOf, ForOrg, OfKind, Existing
  <2>3. Counted'
    BY <1>1 DEF IInv, vars, Counted, InProgress, Admitted
  <2>4. Attributed'
    BY <1>1 DEF IInv, vars, Attributed, Used, Filed, EmailOf, ForOrg, OfKind, Existing
  <2> QED
    BY <2>1, <2>2, <2>3, <2>4 DEF IInv
<1>2. ASSUME IInv, NEW c \in Accepts, Accepting(c) PROVE IInv'
  BY <1>2, FindKeeps, CreateKeeps, CountKeeps, JoinKeeps, MarkKeeps, FileKeeps,
     AuditKeeps, DeleteKeeps, RestoreKeeps, RefileKeeps DEF Accepting
<1> QED
  BY <1>1, <1>2, NextCases, StaffKeeps

\* What holds of every reachable state: types, what the invites and accounts of
\* the requests are, and who answers for what was written.
LEMMA Invariant == Spec => []IInv
<1> QED
  BY InitIInv, NextIInv, PTL DEF Spec

\* The rows, accounts, memberships and requests stay what they are declared to
\* be: the update of an invite by a request always finds its row.
THEOREM TypesHold == Spec => []TypeOK
<1>1. IInv => TypeOK
  BY DEF IInv
<1> QED
  BY <1>1, Invariant, PTL

\* What acceptInvite told the invitee stays true, for any number of requests,
\* invites and faults.
THEOREM SuccessHolds == Spec => []SuccessIsKept
<1>1. IInv => SuccessIsKept
  BY DEF IInv, SuccessIsKept, Owned, Joined, Holding
<1> QED
  BY <1>1, Invariant, PTL

\* The seat check reads before it writes; the members exceed the seats by less
\* than the most acceptances that were ever in progress together.
THEOREM OverrunHolds == Spec => []OverrunIsBounded
<1>1. IInv => OverrunIsBounded
  <2> SUFFICES ASSUME IInv PROVE OverrunIsBounded
    OBVIOUS
  <2>1. members \subseteq Admitted /\ Admitted \subseteq Accepts
    BY DEF IInv, TypeOK, Admitted
  <2>2. /\ Cardinality(members) <= Cardinality(Admitted)
        /\ Cardinality(members) \in Nat /\ Cardinality(Admitted) \in Nat
    <3>1. IsFiniteSet(Admitted) /\ members \subseteq Accepts
      BY <2>1, OpenIsFinite
    <3> QED
      BY <2>1, <3>1, OpenIsFinite, FS_Subset
  <2>3. peak \in Nat /\ Seats \in Nat
    BY Constants DEF IInv, TypeOK
  <2> QED
    BY <2>2, <2>3 DEF IInv, Counted, OverrunIsBounded, Active
<1> QED
  BY <1>1, Invariant, PTL

\* The rollback of acceptInvite leaves neither account nor member, unless the
\* call that had to delete them failed.
THEOREM NoTraceHolds == Spec => []FailedLeavesNoTrace
<1>1. IInv => FailedLeavesNoTrace
  <2> SUFFICES ASSUME IInv, NEW c \in Accepts, call[c].at = "failed",
                      "account" \notin call[c].lost
               PROVE  c \notin members /\ \A e \in Emails : account[e] # c
    BY DEF FailedLeavesNoTrace
  <2>1. ~MayHold(c)
    BY DEF IInv, Placed, MayHold, Holding
  <2> QED
    BY <2>1, Constants DEF IInv, Traced
<1> QED
  BY <1>1, Invariant, PTL

\* Every status that says that an invite was used has a request that used it, or
\* whose attempt to take it back failed.
THEOREM AcceptedHolds == Spec => []AcceptedByOne
<1>1. IInv => AcceptedByOne
  <2> SUFFICES ASSUME IInv PROVE AcceptedByOne
    OBVIOUS
  <2>1. ASSUME NEW c \in Accepts, Used(c)
        PROVE  call[c].at \in {"ok", "marked", "filed", "undoing"} \/ "status" \in call[c].lost
    BY <2>1 DEF IInv, Placed, Used
  <2>2. ASSUME NEW c \in Accepts, Filed(c)
        PROVE  call[c].at \in {"ok", "filed", "undoing"} \/ "application" \in call[c].lost
    BY <2>2 DEF IInv, Placed, Filed
  <2>3. ASSUME NEW c \in Accepts, call[c].at # "idle" PROVE call[c].invite # None
    BY <2>3, LinkedInvite, Constants DEF IInv
  <2>4. ASSUME NEW i \in Existing, invite[i].status = "accepted"
        PROVE  \E c \in Accepts :
                 /\ call[c].invite = i
                 /\ \/ call[c].at \in {"ok", "marked", "filed", "undoing"}
                    \/ "status" \in call[c].lost
    BY <2>1, <2>4 DEF IInv, Attributed
  <2>5. ASSUME NEW e \in Applicants, application[e] = "invite_accepted"
        PROVE  \E c \in Accepts :
                 /\ call[c].invite # None /\ EmailOf(c) = e /\ ~ForOrg(c)
                 /\ \/ call[c].at \in {"ok", "filed", "undoing"}
                    \/ "application" \in call[c].lost
    BY <2>2, <2>3, <2>5 DEF IInv, Attributed
  <2> QED
    BY <2>4, <2>5 DEF AcceptedByOne
<1> QED
  BY <1>1, Invariant, PTL
=============================================================================
