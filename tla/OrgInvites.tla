------------------------------ MODULE OrgInvites ------------------------------
(***************************************************************************)
(* The two ways into an account, which share the auth service's one        *)
(* account per address: workspace invites (inviteMember, cancelInvite and  *)
(* removeMember, backend/src/organization/organization.service.ts) and     *)
(* waitlist applications with their access invites (createApplication,     *)
(* reviewWaitlistApplication and createInvite,                             *)
(* backend/src/waitlist/waitlist.service.ts and admin/admin.service.ts),   *)
(* against the acceptance of either by its token (acceptInvite and         *)
(* acceptOrganizationInvite, backend/src/auth/auth.service.ts), for one    *)
(* workspace. No call holds a lock or a transaction: every database or     *)
(* auth call is an action, and calls interleave between them.              *)
(*                                                                         *)
(* An account is named after the acceptance that created it. The database  *)
(* has no unique index on the pending invites of an email; deleting an     *)
(* account deletes its memberships (0005_organization.sql).                *)
(***************************************************************************)
EXTENDS Naturals, FiniteSets

CONSTANTS
  Emails,     \* addresses that are invited
  Applicants, \* those that may apply to the waitlist
  Invites,    \* invite rows, of either table, that can be inserted
  Accepts,    \* acceptances that can be requested
  Managers,   \* inviteMember calls that can be in progress
  Seats,      \* organizations.seats, the owner's included
  MaxOpen,    \* bound on the acceptances in progress
  Faults,     \* what may go wrong, among FaultKinds
  None        \* no value

Statuses == {"pending", "accepted", "cancelled"}
Row == [kind : {"org", "access"}, email : Emails,
        status : Statuses, expired : BOOLEAN]

\* under_review, rejected and deferred are written alike and read by nothing:
\* "rejected" stands for the three.
Filings == {"waitlist_submitted", "approved", "rejected", "invite_accepted"}

\* error: a call fails and does nothing; lost: a call is done but reported as
\* failed; undo: a call of the rollback fails.
FaultKinds == {"error", "lost", "undo"}

ASSUME Constants ==
  /\ Applicants \subseteq Emails
  /\ Seats \in Nat \ {0}
  /\ MaxOpen \in Nat \ {0}
  /\ Faults \subseteq FaultKinds
  /\ IsFiniteSet(Accepts)
  /\ None \notin Emails \cup Invites \cup Accepts
  /\ None \notin Row \cup Filings

VARIABLES
  invite,      \* organization_invites and access_invites
  application, \* the status of each applicant's waitlist application
  account,     \* the auth account of each email
  members,     \* active members, by account, without the owner
  call,        \* the acceptances
  asking,      \* the inviteMember calls
  approving,   \* applications whose createInvite is about to approve them
  removed,     \* history: accounts removed from the workspace
  peak         \* history: the most acceptances in progress at once

staff == <<asking, approving>>

vars == <<invite, application, account, members, call, staff, removed, peak>>
-----------------------------------------------------------------------------
NewRow(kind, e) == [kind |-> kind, email |-> e,
                    status |-> "pending", expired |-> FALSE]

\* What the rollback has to undo: the account, the status of the invite and
\* that of the application.
Undos == {"account", "status", "application"}
Open == {"found", "created", "counted", "joined", "marked", "filed", "undoing"}
Call == [at : {"idle", "ok", "failed"} \cup Open, invite : Invites \cup {None},
         todo : SUBSET Undos, lost : SUBSET Undos]

TypeOK ==
  /\ invite \in [Invites -> Row \cup {None}]
  /\ application \in [Applicants -> Filings \cup {None}]
  /\ account \in [Emails -> Accepts \cup {None}]
  /\ members \subseteq Accepts
  /\ call \in [Accepts -> Call]
  /\ asking \in [Managers -> [at : {"idle", "new", "free", "unseated"},
                              email : Emails \cup {None}]]
  /\ approving \subseteq Applicants
  /\ removed \subseteq Accepts
  /\ peak \in 1..MaxOpen

Init ==
  /\ invite = [i \in Invites |-> None]
  /\ application = [e \in Applicants |-> None]
  /\ account = [e \in Emails |-> None]
  /\ members = {}
  /\ call = [c \in Accepts |-> [at |-> "idle", invite |-> None,
                                todo |-> {}, lost |-> {}]]
  /\ asking = [m \in Managers |-> [at |-> "idle", email |-> None]]
  /\ approving = {}
  /\ removed = {}
  /\ peak = 1

Existing == {i \in Invites : invite[i] # None}
OfKind(i, kind) == i \in Existing /\ invite[i].kind = kind
Pending(e) == {i \in Existing : /\ OfKind(i, "org")
                                /\ invite[i].email = e
                                /\ invite[i].status = "pending"}

\* countActiveMembers: the owner is active and cannot be removed.
Active == Cardinality(members) + 1

EmailOf(c) == invite[call[c].invite].email
ForOrg(c) == OfKind(call[c].invite, "org")
-----------------------------------------------------------------------------
(* inviteMember: three reads, each of which may refuse, and the insert.    *)

NotAsking == [at |-> "idle", email |-> None]

Move(m, from, to) ==
  /\ asking[m].at = from
  /\ asking' = [asking EXCEPT ![m].at = to]
  /\ UNCHANGED <<invite, application, account, members, call, approving, removed,
                 peak>>

Refuse(m, from) ==
  /\ asking[m].at = from
  /\ asking' = [asking EXCEPT ![m] = NotAsking]
  /\ UNCHANGED <<invite, application, account, members, call, approving, removed,
                 peak>>

\* findMemberByEmail compares with the address of the members' profiles, which
\* a profile has from its owner's first sign-in on: a member may be missed.
\* One that is found refuses the call, which changes nothing.
CheckMember(m, e) ==
  /\ asking[m].at = "idle"
  /\ asking' = [asking EXCEPT ![m] = [at |-> "new", email |-> e]]
  /\ UNCHANGED <<invite, application, account, members, call, approving, removed,
                 peak>>

\* One pending row refuses the call, an expired one too. Several make
\* maybeSingle fail, and a failed read finds nothing: its error is ignored.
CheckPending(m) ==
  \/ /\ Cardinality(Pending(asking[m].email)) # 1 \/ "error" \in Faults
     /\ Move(m, "new", "free")
  \/ /\ Cardinality(Pending(asking[m].email)) = 1
     /\ Refuse(m, "new")

CheckSeats(m) ==
  \/ Active < Seats /\ Move(m, "free", "unseated")
  \/ (Active >= Seats \/ "error" \in Faults) /\ Refuse(m, "free")

InsertFails(m) == "error" \in Faults /\ Refuse(m, "unseated")

Insert(m, i) ==
  /\ asking[m].at = "unseated"
  /\ invite[i] = None
  /\ invite' = [invite EXCEPT ![i] = NewRow("org", asking[m].email)]
  /\ asking' = [asking EXCEPT ![m] = NotAsking]
  /\ UNCHANGED <<application, account, members, call, approving, removed, peak>>

\* Bug variant of Cancel: a spelling the column's CHECK does not list.
CancelMisspelt(i) ==
  /\ OfKind(i, "org")
  /\ invite' = [invite EXCEPT ![i].status = "canceled"]
  /\ UNCHANGED <<application, account, members, call, staff, removed, peak>>

\* cancelInvite updates whatever status the row has.
Cancel(i) ==
  /\ OfKind(i, "org")
  /\ invite' = [invite EXCEPT ![i].status = "cancelled"]
  /\ UNCHANGED <<application, account, members, call, staff, removed, peak>>

\* removeMember deletes the membership and keeps the account.
Remove(c) ==
  /\ c \in members
  /\ members' = members \ {c}
  /\ removed' = removed \cup {c}
  /\ UNCHANGED <<invite, application, account, call, staff, peak>>

\* expires_at passes; no code writes the status for it.
Expire(i) ==
  /\ i \in Existing
  /\ ~invite[i].expired
  /\ invite' = [invite EXCEPT ![i].expired = TRUE]
  /\ UNCHANGED <<application, account, members, call, staff, removed, peak>>

-----------------------------------------------------------------------------
(* The waitlist: an application and what an administrator does with it.    *)

\* createApplication; the unique address refuses a second one.
Apply(e) ==
  /\ application[e] = None
  /\ application' = [application EXCEPT ![e] = "waitlist_submitted"]
  /\ UNCHANGED <<invite, account, members, call, staff, removed, peak>>

\* reviewWaitlistApplication writes whatever status the row has.
Review(e) ==
  /\ application[e] # None
  /\ \E verdict \in {"approved", "rejected"} :
       application' = [application EXCEPT ![e] = verdict]
  /\ UNCHANGED <<invite, account, members, call, staff, removed, peak>>

\* createInvite inserts the invite, whatever the application's status and
\* whatever invites it has. Bound: one call at a time for an application.
InsertAccess(e, i) ==
  /\ application[e] # None
  /\ invite[i] = None
  /\ e \notin approving
  /\ invite' = [invite EXCEPT ![i] = NewRow("access", e)]
  /\ approving' = approving \cup {e}
  /\ UNCHANGED <<application, account, members, call, asking, removed, peak>>

\* ... and then approves the application; the result is not looked at.
Approve(e) ==
  /\ e \in approving
  /\ approving' = approving \ {e}
  /\ \/ application' = [application EXCEPT ![e] = "approved"]
     \/ "error" \in Faults /\ UNCHANGED application
  /\ UNCHANGED <<invite, account, members, call, asking, removed, peak>>
-----------------------------------------------------------------------------
(* Accepting an invite.                                                    *)

At(c, place) == call' = [call EXCEPT ![c].at = place]

\* Bug variant of Undo: the catch block only restores the status.
UndoStatusOnly(c) ==
  call' = [call EXCEPT ![c].at = "undoing", ![c].todo = {"status"}]

\* Bug variant of Undo: the catch block only deletes the account.
UndoAccountOnly(c) ==
  call' = [call EXCEPT ![c].at = "undoing", ![c].todo = {"account"}]

\* The catch block: the calls are started together, none waits for another.
Undo(c) ==
  call' = [call EXCEPT ![c].at = "undoing",
                       ![c].todo = IF ForOrg(c) THEN Undos \ {"application"}
                                   ELSE Undos]

InProgress == Cardinality({c \in Accepts : call[c].at \in Open})

\* The row of the token, in either table: pending and not expired.
Find(c, i) ==
  /\ call[c].at = "idle"
  /\ InProgress < MaxOpen
  /\ i \in Existing
  /\ invite[i].status = "pending"
  /\ ~invite[i].expired
  /\ call' = [call EXCEPT ![c].at = "found", ![c].invite = i]
  /\ peak' = IF InProgress = peak THEN peak + 1 ELSE peak
  /\ UNCHANGED <<invite, application, account, members, staff, removed>>

\* Bug variant of CreateUser: an address that is taken goes on with the account
\* it has.
CreateUserAdopting(c) ==
  /\ call[c].at = "found"
  /\ account' = [account EXCEPT ![EmailOf(c)] = IF @ = None THEN c ELSE @]
  /\ At(c, "created")
  /\ UNCHANGED <<invite, application, members, staff, removed, peak>>

\* createUser comes before the try block: its failure is not rolled back.
CreateUser(c) ==
  /\ call[c].at = "found"
  /\ \/ /\ account[EmailOf(c)] = None
        /\ account' = [account EXCEPT ![EmailOf(c)] = c]
        /\ \/ At(c, "created")
           \/ /\ "lost" \in Faults
              /\ call' = [call EXCEPT ![c].at = "failed",
                                      ![c].lost = {"account"}]
     \/ /\ account[EmailOf(c)] # None \/ "error" \in Faults
        /\ UNCHANGED account
        /\ At(c, "failed")
  /\ UNCHANGED <<invite, application, members, staff, removed, peak>>

\* Bug variant of Seated: off by one.
SeatedInclusive == Active <= Seats

Seated == Active < Seats

CountSeats(c) ==
  /\ call[c].at = "created"
  /\ ForOrg(c)
  /\ \/ Seated /\ At(c, "counted")
     \/ (~Seated \/ "error" \in Faults) /\ Undo(c)
  /\ UNCHANGED <<invite, application, account, members, staff, removed, peak>>

\* A write of the try block, from one place to the next: done; failed; or
\* done and reported as failed.
Write(c, from, to, done, undone) ==
  /\ call[c].at = from
  /\ \/ done /\ At(c, to)
     \/ "lost" \in Faults /\ done /\ Undo(c)
     \/ "error" \in Faults /\ undone /\ Undo(c)
  /\ UNCHANGED <<account, staff, removed, peak>>

Join(c) ==
  /\ Write(c, "counted", "joined",
           members' = members \cup {c}, UNCHANGED members)
  /\ UNCHANGED <<invite, application>>

SetStatus(i, status) == invite' = [invite EXCEPT ![i].status = status]

Mark(c) ==
  /\ Write(c, IF ForOrg(c) THEN "joined" ELSE "created", "marked",
           SetStatus(call[c].invite, "accepted"), UNCHANGED invite)
  /\ UNCHANGED <<application, members>>

SetApplication(c, status) ==
  application' = [application EXCEPT ![EmailOf(c)] = status]

\* An access invite also settles the application it was created for.
File(c) ==
  /\ ~ForOrg(c)
  /\ Write(c, "marked", "filed",
           SetApplication(c, "invite_accepted"), UNCHANGED application)
  /\ UNCHANGED <<invite, members>>

\* The audit row is required: its failure fails the call.
Audit(c) ==
  /\ call[c].at = IF ForOrg(c) THEN "marked" ELSE "filed"
  /\ \/ At(c, "ok")
     \/ Faults \cap {"error", "lost"} # {} /\ Undo(c)
  /\ UNCHANGED <<invite, application, account, members, staff, removed, peak>>

\* One of the calls of the rollback settles, and the request fails when all
\* have: Promise.allSettled ignores how they did.
Settle(c, undo, failed) ==
  /\ undo \in call[c].todo
  /\ call' = [call EXCEPT
       ![c].todo = @ \ {undo},
       ![c].lost = IF failed THEN @ \cup {undo} ELSE @,
       ![c].at = IF call[c].todo = {undo} THEN "failed" ELSE @]

\* deleteUser of the account the request created, with its membership.
DeleteUser(c) ==
  /\ \/ /\ Settle(c, "account", FALSE)
        /\ account' = [e \in Emails |-> IF account[e] = c THEN None ELSE account[e]]
        /\ members' = members \ {c}
     \/ /\ "undo" \in Faults
        /\ Settle(c, "account", TRUE)
        /\ UNCHANGED <<account, members>>
  /\ UNCHANGED <<invite, application, staff, removed, peak>>

\* The status is written by id, whatever it has become.
Restore(c) ==
  /\ \/ /\ Settle(c, "status", FALSE)
        /\ SetStatus(call[c].invite, "pending")
     \/ /\ "undo" \in Faults
        /\ Settle(c, "status", TRUE)
        /\ UNCHANGED invite
  /\ UNCHANGED <<application, account, members, staff, removed, peak>>

\* Back to waiting, also when the application had been approved or rejected.
Refile(c) ==
  /\ \/ /\ Settle(c, "application", FALSE)
        /\ SetApplication(c, "waitlist_submitted")
     \/ /\ "undo" \in Faults
        /\ Settle(c, "application", TRUE)
        /\ UNCHANGED application
  /\ UNCHANGED <<invite, account, members, staff, removed, peak>>

Accepting(c) ==
  \/ \E i \in Invites : Find(c, i)
  \/ CreateUser(c) \/ CountSeats(c) \/ Join(c) \/ Mark(c) \/ File(c)
  \/ Audit(c) \/ DeleteUser(c) \/ Restore(c) \/ Refile(c)

Next ==
  \/ \E m \in Managers : \/ \E e \in Emails : CheckMember(m, e)
                         \/ CheckPending(m) \/ CheckSeats(m) \/ InsertFails(m)
                         \/ \E i \in Invites : Insert(m, i)
  \/ \E i \in Invites : Cancel(i) \/ Expire(i)
  \/ \E e \in Applicants : \/ Apply(e) \/ Review(e) \/ Approve(e)
                           \/ \E i \in Invites : InsertAccess(e, i)
  \/ \E c \in Accepts : Remove(c) \/ Accepting(c)

Spec == Init /\ [][Next]_vars
-----------------------------------------------------------------------------
\* What the invitee was told stays true: once a request answers "Your account
\* is ready to sign in", its account exists and, for a workspace invite, is a
\* member until it is removed, whatever other requests for the same link, the
\* same address or the other kind of invite do; and no other request for that
\* address ever succeeds.
SuccessIsKept ==
  \A c \in Accepts : call[c].at = "ok" =>
    /\ account[EmailOf(c)] = c
    /\ ForOrg(c) => c \in members \cup removed

\* Two requests for one link, or an acceptance and an invitation, may both
\* pass the seat check; the seats are overrun by no more than the
\* acceptances that were once in progress together, so never by requests that
\* come one after the other.
OverrunIsBounded == Active <= Seats + peak - 1

\* A request that failed leaves neither account nor member behind, unless the
\* call that had to delete them failed.
FailedLeavesNoTrace ==
  \A c \in Accepts : (call[c].at = "failed" /\ "account" \notin call[c].lost) =>
    /\ c \notin members
    /\ \A e \in Emails : account[e] # c

\* What says that an invite was used, its own status and the application's,
\* has somebody who used it: a request that succeeded or is still running, or
\* whose restore of that status failed.
AcceptedByOne ==
  /\ \A i \in Existing : invite[i].status = "accepted" =>
       \E c \in Accepts :
         /\ call[c].invite = i
         /\ call[c].at \in {"ok", "marked", "filed", "undoing"}
            \/ "status" \in call[c].lost
  /\ \A e \in Applicants : application[e] = "invite_accepted" =>
       \E c \in Accepts :
         /\ call[c].invite # None /\ EmailOf(c) = e /\ ~ForOrg(c)
         /\ call[c].at \in {"ok", "filed", "undoing"}
            \/ "application" \in call[c].lost
=============================================================================
