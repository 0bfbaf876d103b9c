------------------------------ MODULE ScanIntake ------------------------------
(***************************************************************************)
(* How one user's scans are admitted and metered: ScansService.initiateScan*)
(* with its Idempotency-Key (backend/src/scans/scans.service.ts), the quota*)
(* gate, the monthly cycle with its rollover and the unit ledger of        *)
(* BillingService (backend/src/billing/billing.service.ts), and the two    *)
(* partial unique indexes that back them (migrations 0019 and 0024).       *)
(*                                                                         *)
(* Nothing is reserved when a scan is admitted: units are deducted when it *)
(* completes. Between the two, other requests are decided on a ledger that *)
(* does not know the admitted scan yet. Every await of a handler is a step.*)
(*                                                                         *)
(* What happens between admission and completion is ScanContract's: here a *)
(* submitted scan completes or fails. A scan row is named by the request   *)
(* that inserted it (scanId is a fresh UUID of that request).              *)
(***************************************************************************)
EXTENDS VuRates, FiniteSets

CONSTANTS
  Ops,         \* uploads the user makes: one file, submitted once
  Upload,      \* Upload[o]: its depth, size in MiB and megapixels
  Keyed,       \* the uploads whose requests carry an Idempotency-Key
  Requests,    \* calls of POST /scans, a retry is one more call
  OpOf,        \* the upload a call is for
  Readers,     \* calls of GET /billing
  Allowance,   \* vuAllowanceForPlan of the user's plan
  MaxOpen,     \* uploads the client keeps unsettled at the same time
  MaxCycle,    \* bound: the number of billing cycles
  Faulty       \* whether database and storage calls may fail

ASSUME Constants ==
  /\ Upload \in [Ops -> [depth : Depths, mib : Nat, mp : Nat]]
  /\ IsFiniteSet(Ops)
  /\ Keyed \subseteq Ops
  /\ OpOf \in [Requests -> Ops]
  /\ Requests \cap Readers = {}
  /\ Allowance \in Nat \ {0}
  /\ MaxOpen \in Nat
  /\ MaxCycle \in Nat \ {0}
  /\ Faulty \in BOOLEAN

VARIABLES
  cycle,     \* the current billing month
  spent,     \* spent[c]: units of the package rows of month c in vu_ledger
  rollover,  \* rollover[c]: units of the rollover row of month c, 0 for none
  row,       \* row[r]: the scan row request r inserted
  call       \* call[c]: a handler in progress, with the values it read

vars == <<cycle, spent, rollover, row, call>>

Calls  == Requests \cup Readers
Cycles == 0..MaxCycle       \* month 0 is the one before the user's first
-----------------------------------------------------------------------------
\* The gate's reserve, and what the ledger is charged: no dimensions.
Cost(o) == VuCost(Upload[o].depth, Upload[o].mib, 0)

\* vu_units of the completed row: with the dimensions of the image.
Meter(o) == VuCost(Upload[o].depth, Upload[o].mib, Upload[o].mp)

\* "absent" until inserted; "settled" once the ledger write was tried. vu is
\* the row's vu_units, charged the units of its ledger row, month the one its
\* charge is stamped with.
RowStates == {"absent", "awaiting_upload", "processing", "complete",
              "settled", "failed"}

NoRow == [status |-> "absent", vu |-> 0, charged |-> 0, month |-> 0]

\* lookup: about to look the key up; used, prior: about to sum the ledger for
\* this and for the previous month; find, bank: about to look for and to
\* insert the rollover row; decide; insert; winner: about to look the key up
\* again; sign: about to mint the upload URL.
Pcs == {"new", "lookup", "used", "prior", "find", "bank", "decide", "insert",
        "winner", "sign", "answered", "refused", "error"}

Idle == [pc |-> "new", month |-> 0, used |-> 0, carried |-> 0, got |-> {}]

TypeOK ==
  /\ cycle \in 1..MaxCycle
  /\ spent \in [Cycles -> Nat]
  /\ rollover \in [Cycles -> 0..Allowance]
  /\ row \in [Requests -> [status : RowStates, vu : Nat, charged : Nat,
                           month : Cycles]]
  /\ call \in [Calls -> [pc : Pcs, month : Cycles, used : Nat,
                         carried : 0..Allowance, got : SUBSET Requests]]

Init ==
  /\ cycle = 1
  /\ spent = [c \in Cycles |-> 0]
  /\ rollover = [c \in Cycles |-> 0]
  /\ row = [r \in Requests |-> NoRow]
  /\ call = [c \in Calls |-> Idle]

\* The rows findScanByIdempotencyKey selects: the key's, awaiting upload.
Reserved(o) == {r \in Requests : /\ OpOf[r] = o
                                 /\ row[r].status = "awaiting_upload"}

Goto(c, pc) == call' = [call EXCEPT ![c].pc = pc]

\* resolveUsage captures "now" before its first await.
EnterGate(c) == call' = [call EXCEPT ![c].pc = "used", ![c].month = cycle]

\* The handler is past the gate; only the scan it answered with remains.
End(c, pc, got) == call' = [call EXCEPT ![c] = [Idle EXCEPT !.pc = pc, !.got = got]]

Answer(c, r) == call' = [call EXCEPT ![c] = [Idle EXCEPT !.pc = "sign", !.got = {r}]]
-----------------------------------------------------------------------------
(* The client: it keeps at most MaxOpen uploads going, may send a request  *)
(* of one again at any time, and submits one scan per upload.              *)

Live == {"awaiting_upload", "processing", "complete"}

Going(o) ==
  /\ \E r \in Requests :
       /\ OpOf[r] = o
       /\ \/ call[r].pc \notin {"new", "refused", "error"}
          \/ row[r].status \in Live
  /\ \A r \in Requests : OpOf[r] = o => row[r].status \notin {"settled", "failed"}

\* initiateScan up to its first await: without a key the gate comes first.
Start(r) ==
  /\ call[r].pc = "new"
  /\ Cardinality({o \in Ops : Going(o)} \cup {OpOf[r]}) <= MaxOpen
  /\ IF OpOf[r] \in Keyed THEN Goto(r, "lookup") ELSE EnterGate(r)
  /\ UNCHANGED <<cycle, spent, rollover, row>>

\* getBilling
StartReader(b) ==
  /\ call[b].pc = "new"
  /\ EnterGate(b)
  /\ UNCHANGED <<cycle, spent, rollover, row>>
-----------------------------------------------------------------------------
(* resolveUsage: four awaits on values of one captured "now".              *)

\* findScanByIdempotencyKey: the original reservation, or on to the gate.
Lookup(r) ==
  LET found == Reserved(OpOf[r]) IN
  /\ call[r].pc = "lookup"
  /\ \/ \E w \in found : Answer(r, w)
     \/ found = {} /\ EnterGate(r)
  /\ UNCHANGED <<cycle, spent, rollover, row>>

\* Bug variant of UsedSince: rollover credits are counted as usage.
UsedSinceWithCredits(month) ==
  spent[month] + rollover[month] +
    IF month < MaxCycle THEN spent[month + 1] ELSE 0

\* countCycleUnits with no end: rows of the captured month and of a month
\* that began since (MonthTurns keeps a call within two months).
UsedSince(month) ==
  spent[month] + IF month < MaxCycle THEN spent[month + 1] ELSE 0

ReadUsed(c) ==
  /\ call[c].pc = "used"
  /\ call' = [call EXCEPT ![c].pc = "prior", ![c].used = UsedSince(call[c].month)]
  /\ UNCHANGED <<cycle, spent, rollover, row>>

\* Bug variant of UsedBefore: the window has no end.
UsedBeforeOpenEnded(month) == UsedSince(month - 1)

\* countCycleUnits over [previous month, this month).
UsedBefore(month) == spent[month - 1]

\* computeCarriedOver, and recordRollover's early return.
ReadPrior(c) ==
  LET carried == CarriedOver(Allowance, UsedBefore(call[c].month)) IN
  /\ call[c].pc = "prior"
  /\ call' = [call EXCEPT ![c].pc = IF carried > 0 THEN "find" ELSE "decide",
                          ![c].carried = carried]
  /\ UNCHANGED <<cycle, spent, rollover, row>>

\* recordRollover: look for this month's row.
FindRollover(c) ==
  /\ call[c].pc = "find"
  /\ Goto(c, IF rollover[call[c].month] > 0 THEN "decide" ELSE "bank")
  /\ UNCHANGED <<cycle, spent, rollover, row>>

\* The insert: a second row for the month is rejected by the unique index,
\* and any error is only logged.
BankRollover(c) ==
  LET m == call[c].month IN
  /\ call[c].pc = "bank"
  /\ \/ rollover' = [rollover EXCEPT ![m] = IF @ = 0 THEN call[c].carried ELSE @]
     \/ Faulty /\ UNCHANGED rollover
  /\ Goto(c, "decide")
  /\ UNCHANGED <<cycle, spent, row>>

\* Bug variant of Covered: refuse only when nothing at all remains.
CoveredByAnything(c) == call[c].used < Allowance + call[c].carried

\* assertScanQuota: remaining > 0 and the reserve fits in it.
Covered(c) ==
  LET remaining == Allowance + call[c].carried - call[c].used IN
  remaining > 0 /\ Cost(OpOf[c]) <= remaining

Decide(r) ==
  /\ call[r].pc = "decide"
  /\ \/ Covered(r) /\ End(r, "insert", {})
     \/ ~Covered(r) /\ End(r, "refused", {})
  /\ UNCHANGED <<cycle, spent, rollover, row>>

Report(b) ==
  /\ call[b].pc = "decide"
  /\ End(b, "answered", {})
  /\ UNCHANGED <<cycle, spent, rollover, row>>
-----------------------------------------------------------------------------
(* initiateScan after the gate                                             *)

InsertRow(r) == row' = [row EXCEPT ![r].status = "awaiting_upload"]

\* Bug variant of Insert: without the partial unique index of 0019.
InsertWithoutIndex(r) ==
  /\ call[r].pc = "insert"
  /\ InsertRow(r) /\ Answer(r, r)
  /\ UNCHANGED <<cycle, spent, rollover>>

\* The insert; 23505 when the key already has a row awaiting upload.
Insert(r) ==
  LET o == OpOf[r] IN
  /\ call[r].pc = "insert"
  /\ IF o \in Keyed /\ Reserved(o) # {}
     THEN Goto(r, "winner") /\ UNCHANGED row
     ELSE \/ InsertRow(r) /\ Answer(r, r)
          \/ Faulty /\ InsertRow(r) /\ End(r, "error", {})
  /\ UNCHANGED <<cycle, spent, rollover>>

\* The lookup after 23505: the winner may have been submitted meanwhile.
Winner(r) ==
  LET found == Reserved(OpOf[r]) IN
  /\ call[r].pc = "winner"
  /\ \/ \E w \in found : Answer(r, w)
     \/ found = {} /\ End(r, "error", {})
  /\ UNCHANGED <<cycle, spent, rollover, row>>

\* createSignedUploadUrl
Sign(r) ==
  /\ call[r].pc = "sign"
  /\ End(r, "answered", call[r].got)
  /\ UNCHANGED <<cycle, spent, rollover, row>>

\* Any of these calls to the database or the storage may fail: 503.
Abort(c) ==
  /\ Faulty
  /\ call[c].pc \in {"lookup", "used", "prior", "insert", "winner", "sign"}
  /\ End(c, "error", {})
  /\ UNCHANGED <<cycle, spent, rollover, row>>
-----------------------------------------------------------------------------
(* After admission                                                         *)

\* The client submits the scan it was given, once per upload.
Submit(r) ==
  /\ row[r].status = "awaiting_upload"
  /\ \E q \in Requests : call[q].pc = "answered" /\ r \in call[q].got
  /\ \A q \in Requests : OpOf[q] = OpOf[r] =>
                            row[q].status \in {"absent", "awaiting_upload"}
  /\ row' = [row EXCEPT ![r].status = "processing"]
  /\ UNCHANGED <<cycle, spent, rollover, call>>

Fail(r) ==
  /\ row[r].status = "processing"
  /\ row' = [row EXCEPT ![r].status = "failed"]
  /\ UNCHANGED <<cycle, spent, rollover, call>>

\* The completion write with the row's meter; completedAt is taken right
\* after it and stamps the ledger row.
Complete(r) ==
  /\ row[r].status = "processing"
  /\ row' = [row EXCEPT ![r].status = "complete", ![r].vu = Meter(OpOf[r]),
                        ![r].month = cycle]
  /\ UNCHANGED <<cycle, spent, rollover, call>>

\* recordScanUsage: best-effort, in the month of completedAt.
Charge(r) ==
  LET units == Cost(OpOf[r]) IN
  /\ row[r].status = "complete"
  /\ \/ /\ spent' = [spent EXCEPT ![row[r].month] = @ + units]
        /\ row' = [row EXCEPT ![r].status = "settled", ![r].charged = units]
     \/ /\ Faulty
        /\ row' = [row EXCEPT ![r].status = "settled"]
        /\ UNCHANGED spent
  /\ UNCHANGED <<cycle, rollover, call>>

\* A month begins. No call of resolveUsage lasts for a whole month.
MonthTurns ==
  /\ cycle < MaxCycle
  /\ \A c \in Calls : call[c].month \in {0, cycle}
  /\ cycle' = cycle + 1
  /\ UNCHANGED <<spent, rollover, row, call>>
-----------------------------------------------------------------------------
Next ==
  \/ \E r \in Requests :
       \/ Start(r) \/ Lookup(r) \/ Decide(r) \/ Insert(r) \/ Winner(r)
       \/ Sign(r) \/ Submit(r) \/ Fail(r) \/ Complete(r) \/ Charge(r)
  \/ \E b \in Readers : StartReader(b) \/ Report(b)
  \/ \E c \in Calls : \/ ReadUsed(c) \/ ReadPrior(c) \/ FindRollover(c)
                      \/ BankRollover(c) \/ Abort(c)
  \/ MonthTurns

Spec == Init /\ [][Next]_vars
-----------------------------------------------------------------------------
Carry(c) == CarriedOver(Allowance, spent[c - 1])

\* The gate is a hard stop: no month is charged more than its allowance and
\* carry. Deducting on completion, possibly in a later month with a smaller
\* carry than the one that admitted the scan, is no way around it for a client
\* that settles an upload before it starts the next.
WithinLimit ==
  \A c \in 1..MaxCycle : spent[c] <= Allowance + Carry(c)

\* A retry with the same key gets the original reservation: two answers to one
\* keyed upload never name two scans that both await their file.
SameReservation ==
  \A q, r \in Requests : \A v \in call[q].got, w \in call[r].got :
    (/\ OpOf[q] = OpOf[r] /\ OpOf[q] \in Keyed
     /\ row[v].status = "awaiting_upload"
     /\ row[w].status = "awaiting_upload") => v = w

\* A refusal is justified by the ledger at the moment it is given: what the
\* month the request was made in leaves, less what has been charged to the
\* month that may have begun since, does not cover the file.
RefusedOnlyWhenShort ==
  [][\A r \in Requests :
       (call[r].pc = "decide" /\ call'[r].pc = "refused") =>
         LET m == call[r].month IN
         spent[m] + (IF cycle > m THEN spent[cycle] ELSE 0) + Cost(OpOf[r])
           > Allowance + Carry(m)]_vars

\* The rollover row is written on the first look at a month and never again,
\* while the limit is computed afresh every time: the row may only err on the
\* side of the user.
RolloverNeverUnderstates ==
  \A c \in 1..MaxCycle : rollover[c] > 0 => rollover[c] >= Carry(c)
=============================================================================
