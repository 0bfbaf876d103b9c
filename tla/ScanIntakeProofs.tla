--------------------------- MODULE ScanIntakeProofs ---------------------------
(***************************************************************************)
(* Proofs about ScanIntake for any uploads, retries, readers, allowance    *)
(* and number of months, with and without failing calls; WithinLimit for   *)
(* any client that keeps at most one upload going.                         *)
(***************************************************************************)
EXTENDS ScanIntake, FiniteSetTheorems, TLAPS

Gate == {"used", "prior", "find", "bank", "decide"}

\* A request has not inserted its row yet.
Before == Gate \cup {"new", "lookup", "insert", "winner"}

(* A call of the gate is at most one month late, has read no more usage    *)
(* than there is now and no less carry; what it answers with is its own.   *)
CallOK(c) ==
  /\ call[c].pc \in Gate => /\ call[c].month \in 1..MaxCycle
                            /\ call[c].month \in {cycle, cycle - 1}
  /\ call[c].pc \in {"prior", "find", "bank", "decide"} =>
       call[c].used <= UsedSince(call[c].month)
  /\ call[c].pc \in {"find", "bank", "decide"} => call[c].carried >= Carry(call[c].month)
  /\ \A w \in call[c].got : c \in Requests /\ OpOf[w] = OpOf[c]
  /\ (c \in Requests /\ call[c].pc \in Before) => row[c].status = "absent"

(* Nothing is charged to a month before it begins, and a row is charged no *)
(* more than it was metered.                                               *)
Ledger ==
  /\ \A m \in Cycles : m > cycle => spent[m] = 0
  /\ \A r \in Requests :
       /\ row[r].month <= cycle
       /\ row[r].status # "settled" => row[r].charged = 0
       /\ row[r].status = "complete" => row[r].month \in 1..MaxCycle /\ row[r].vu = Meter(OpOf[r])

(* The partial unique index of migration 0019.                             *)
UniqueReservation == \A o \in Keyed : \A v, w \in Reserved(o) : v = w

(* The ledger row of a scan never exceeds what its result shows.           *)
ChargedWithinMeter == \A r \in Requests : row[r].charged <= row[r].vu

IInv == /\ TypeOK /\ (\A c \in Calls : CallOK(c)) /\ Ledger
        /\ UniqueReservation /\ RolloverNeverUnderstates /\ ChargedWithinMeter
-----------------------------------------------------------------------------
(* The client that keeps one upload going at a time.                       *)

Submitted == {"processing", "complete", "settled", "failed"}

Unsettled(o) == \A r \in Requests : OpOf[r] = o => row[r].status \notin {"settled", "failed"}

OneGoing == \A o, p \in Ops : Going(o) /\ Going(p) => o = p

OnceSubmitted ==
  \A q, r \in Requests :
    (/\ OpOf[q] = OpOf[r]
     /\ row[q].status \in Submitted /\ row[r].status \in Submitted) => q = r

(* What a request of a pending upload read is what the ledger says.        *)
Fresh ==
  \A r \in Requests : Unsettled(OpOf[r]) =>
    /\ call[r].pc \in {"prior", "find", "bank", "decide"} =>
         call[r].used = UsedSince(call[r].month)
    /\ call[r].pc \in {"find", "bank", "decide"} => call[r].carried = Carry(call[r].month)

Fits(o, m) == spent[m] + Cost(o) <= Allowance + Carry(m)

(* An upload that was admitted fits into every month it may complete in.   *)
AdmittedFits ==
  \A r \in Requests :
    (Unsettled(OpOf[r]) /\ (call[r].pc = "insert" \/ row[r].status \in {"awaiting_upload", "processing"}))
      => \A m \in cycle..MaxCycle : Fits(OpOf[r], m)

DueFits ==
  \A r \in Requests : row[r].status = "complete" =>
    /\ Fits(OpOf[r], row[r].month)
    /\ \A m \in Cycles : m > row[r].month => spent[m] = 0

SerialInv == /\ OneGoing /\ OnceSubmitted /\ Fresh /\ AdmittedFits /\ DueFits /\ WithinLimit
-----------------------------------------------------------------------------
(* The rate card. *)

LEMMA TwiceSizeMultiplierType ==
  ASSUME NEW mib \in Nat
  PROVE  TwiceSizeMultiplier(mib) \in 2..12
<1> DEFINE Highest(t) == /\ t.min <= mib
                        /\ \A u \in SizeTiers : u.min <= mib => u.min <= t.min
<1>1. \E t \in SizeTiers : Highest(t)
  <2>1. CASE mib >= 100
    BY <2>1 DEF SizeTiers
  <2>2. CASE 20 <= mib /\ mib < 100
    BY <2>2 DEF SizeTiers
  <2>3. CASE 5 <= mib /\ mib < 20
    BY <2>3 DEF SizeTiers
  <2>4. CASE 1 <= mib /\ mib < 5
    BY <2>4 DEF SizeTiers
  <2>5. CASE mib < 1
    BY <2>5 DEF SizeTiers
  <2> QED
    BY <2>1, <2>2, <2>3, <2>4, <2>5
<1>2. \A t \in SizeTiers : t.twice \in 2..12
  BY DEF SizeTiers
<1> DEFINE top == CHOOSE t \in SizeTiers : Highest(t)
<1>3. top \in SizeTiers
  BY <1>1
<1>4. TwiceSizeMultiplier(mib) = top.twice
  BY DEF TwiceSizeMultiplier
<1> QED
  BY <1>2, <1>3, <1>4

LEMMA ResolutionType ==
  ASSUME NEW mp \in Nat
  PROVE  Resolution24(mp) \in 24..72 /\ Resolution24(0) = 24
BY DEF Resolution24

\* A scan costs at least one unit, and never more for want of its dimensions.
LEMMA VuCostBounds ==
  ASSUME NEW d \in Depths, NEW mib \in Nat, NEW mp \in Nat
  PROVE  /\ VuCost(d, mib, mp) \in Nat \ {0}
         /\ VuCost(d, mib, 0) <= VuCost(d, mib, mp)
<1> DEFINE n == BaseCost[d]  t == TwiceSizeMultiplier(mib)  q == Resolution24(mp)
<1>1. n \in {1, 10, 100}
  BY DEF Depths, BaseCost
<1>2. t \in 2..12 /\ q \in 24..72
  BY TwiceSizeMultiplierType, ResolutionType
<1>3. /\ VuCost(d, mib, mp) = (n * t * q + 47) \div 48
      /\ VuCost(d, mib, 0) = (n * t * 24 + 47) \div 48
  BY <1>1, <1>2, ResolutionType DEF VuCost, CeilDiv
<1> HIDE DEF n, t, q
<1>4. n * t \in Nat /\ n * t >= 2
  BY <1>1, <1>2
<1> DEFINE m == n * t
<1>5. m * q \in Nat /\ m * q >= m * 24 /\ m * q >= 48
  <2> HIDE DEF m
  <2>1. \E k \in 0..48 : q = 24 + k
    <3>1. q - 24 \in 0..48 /\ q = 24 + (q - 24)
      BY <1>2
    <3> QED
      BY <3>1
  <2>2. PICK k \in 0..48 : q = 24 + k
    BY <2>1
  <2>3. m \in Nat /\ m >= 2
    BY <1>4 DEF m
  <2>4. m * q = m * 24 + m * k /\ m * k \in Nat
    BY <2>2, <2>3
  <2> QED
    BY <2>3, <2>4
<1>6. \A a, b \in Nat : a <= b => a \div 48 <= b \div 48
  OBVIOUS
<1>7. \A a \in Nat : a >= 48 => a \div 48 \in Nat \ {0}
  OBVIOUS
<1>8. m * 24 \in Nat /\ m \in Nat
  BY <1>4
<1> HIDE DEF m
<1>9. (m * q + 47) \div 48 \in Nat \ {0}
  BY <1>5, <1>7
<1>10. (m * 24 + 47) \div 48 <= (m * q + 47) \div 48
  BY <1>5, <1>6, <1>8
<1> QED
  BY <1>3, <1>9, <1>10 DEF m

\* What is carried over is between nothing and an allowance, and shrinks as
\* the usage it was computed from grows.
LEMMA CarriedOverBounds ==
  ASSUME NEW a \in Nat, NEW x \in Nat
  PROVE  /\ CarriedOver(a, x) \in 0..a
         /\ \A y \in Nat : x <= y => CarriedOver(a, y) <= CarriedOver(a, x)
BY DEF CarriedOver

LEMMA CostType ==
  ASSUME NEW o \in Ops
  PROVE  Cost(o) \in Nat \ {0} /\ Meter(o) \in Nat /\ Cost(o) <= Meter(o)
<1>1. Upload[o].depth \in Depths /\ Upload[o].mib \in Nat /\ Upload[o].mp \in Nat
  BY Constants
<1>2. /\ VuCost(Upload[o].depth, Upload[o].mib, 0) \in Nat \ {0}
      /\ VuCost(Upload[o].depth, Upload[o].mib, Upload[o].mp) \in Nat
      /\ VuCost(Upload[o].depth, Upload[o].mib, 0)
           <= VuCost(Upload[o].depth, Upload[o].mib, Upload[o].mp)
  BY <1>1, VuCostBounds
<1> QED
  BY <1>2 DEF Cost, Meter
-----------------------------------------------------------------------------
(* What the actions do to a call. *)

CallRow == [pc : Pcs, month : Cycles, used : Nat, carried : 0..Allowance,
            got : SUBSET Requests]

\* Call c goes on with the given values, the others stay.
Now(c, p, m, u, k, g) ==
  /\ call' \in [Calls -> CallRow]
  /\ call'[c].pc = p /\ call'[c].month = m /\ call'[c].used = u
  /\ call'[c].carried = k /\ call'[c].got = g
  /\ \A d \in Calls \ {c} : call'[d] = call[d]

LEMMA CallType ==
  ASSUME TypeOK, NEW c \in Calls
  PROVE  /\ call[c] \in CallRow /\ call \in [Calls -> CallRow]
         /\ call[c].month \in Cycles /\ call[c].used \in Nat
         /\ call[c].carried \in 0..Allowance /\ call[c].got \in SUBSET Requests
BY DEF TypeOK, CallRow

LEMMA GotoStep ==
  ASSUME TypeOK, NEW c \in Calls, NEW p \in Pcs, Goto(c, p)
  PROVE  Now(c, p, call[c].month, call[c].used, call[c].carried, call[c].got)
BY CallType DEF Goto, Now, CallRow

LEMMA EnterStep ==
  ASSUME TypeOK, NEW c \in Calls, EnterGate(c)
  PROVE  Now(c, "used", cycle, call[c].used, call[c].carried, call[c].got)
<1>1. "used" \in Pcs /\ cycle \in Cycles
  BY Constants DEF Pcs, TypeOK, Cycles
<1> QED
  BY <1>1, CallType DEF EnterGate, Now, CallRow

LEMMA EndStep ==
  ASSUME TypeOK, NEW c \in Calls, NEW p \in Pcs, NEW g \in SUBSET Requests, End(c, p, g)
  PROVE  Now(c, p, 0, 0, 0, g)
<1> DEFINE k == [Idle EXCEPT !.pc = p, !.got = g]
<1>1. k \in CallRow /\ k.pc = p /\ k.month = 0 /\ k.used = 0 /\ k.carried = 0 /\ k.got = g
  <2>1. /\ Idle \in CallRow /\ Idle.month = 0 /\ Idle.used = 0 /\ Idle.carried = 0
    BY Constants DEF Idle, CallRow, Cycles, Pcs
  <2> QED
    BY <2>1 DEF CallRow
<1> HIDE DEF k
<1>2. call' = [call EXCEPT ![c] = k]
  BY DEF End, k
<1> QED
  BY <1>1, <1>2, CallType DEF Now

LEMMA AnswerStep ==
  ASSUME TypeOK, NEW c \in Calls, NEW w \in Requests, Answer(c, w)
  PROVE  Now(c, "sign", 0, 0, 0, {w})
<1>1. End(c, "sign", {w})
  BY DEF Answer, End
<1> QED
  BY <1>1, EndStep DEF Pcs

LEMMA UsageTypes ==
  ASSUME TypeOK, NEW m \in 1..MaxCycle
  PROVE  /\ UsedSince(m) \in Nat /\ UsedBefore(m) \in Nat
         /\ m \in Cycles /\ m - 1 \in Cycles /\ spent[m] \in Nat
         /\ Carry(m) \in 0..Allowance
         /\ Carry(m) = CarriedOver(Allowance, UsedBefore(m))
<1>1. m \in Cycles /\ m - 1 \in Cycles /\ (m < MaxCycle => m + 1 \in Cycles)
  BY Constants DEF Cycles
<1>2. spent[m] \in Nat /\ spent[m - 1] \in Nat /\ (m < MaxCycle => spent[m + 1] \in Nat)
  BY <1>1 DEF TypeOK
<1>3. Carry(m) \in 0..Allowance
  BY <1>2, Constants, CarriedOverBounds DEF Carry
<1> QED
  BY <1>1, <1>2, <1>3 DEF UsedSince, UsedBefore, Carry

\* A step that writes nothing but a call and the rollover row.
Quiet == UNCHANGED <<cycle, spent, row>>

LEMMA GateStep ==
  ASSUME TypeOK, NEW c \in Calls, CallOK(c),
         \/ ReadUsed(c) \/ ReadPrior(c) \/ FindRollover(c) \/ BankRollover(c) \/ Abort(c)
  PROVE  /\ Quiet
         /\ \/ /\ ReadUsed(c) /\ call[c].pc = "used" /\ UNCHANGED rollover
               /\ Now(c, "prior", call[c].month, UsedSince(call[c].month), call[c].carried,
                      call[c].got)
            \/ /\ ReadPrior(c) /\ call[c].pc = "prior" /\ UNCHANGED rollover
               /\ \E p \in {"find", "decide"} :
                    Now(c, p, call[c].month, call[c].used, Carry(call[c].month), call[c].got)
            \/ /\ FindRollover(c) /\ call[c].pc = "find" /\ UNCHANGED rollover
               /\ \E p \in {"bank", "decide"} :
                    Now(c, p, call[c].month, call[c].used, call[c].carried, call[c].got)
            \/ /\ BankRollover(c) /\ call[c].pc = "bank"
               /\ \/ UNCHANGED rollover
                  \/ rollover' = [rollover EXCEPT ![call[c].month]
                                     = IF @ = 0 THEN call[c].carried ELSE @]
               /\ Now(c, "decide", call[c].month, call[c].used, call[c].carried, call[c].got)
            \/ /\ Abort(c) /\ UNCHANGED rollover
               /\ Now(c, "error", 0, 0, 0, {})
<1>1. CASE ReadUsed(c)
  <2>1. call[c].month \in 1..MaxCycle
    BY <1>1 DEF ReadUsed, CallOK, Gate
  <2>2. UsedSince(call[c].month) \in Nat /\ "prior" \in Pcs
    BY <2>1, UsageTypes DEF Pcs
  <2>3. Now(c, "prior", call[c].month, UsedSince(call[c].month), call[c].carried, call[c].got)
    BY <1>1, <2>2, CallType DEF ReadUsed, Now, CallRow
  <2> QED
    BY <1>1, <2>3 DEF ReadUsed, Quiet
<1>2. CASE ReadPrior(c)
  <2>1. call[c].month \in 1..MaxCycle
    BY <1>2 DEF ReadPrior, CallOK, Gate
  <2>2. /\ Carry(call[c].month) \in 0..Allowance
        /\ Carry(call[c].month) = CarriedOver(Allowance, UsedBefore(call[c].month))
    BY <2>1, UsageTypes
  <2>3. PICK p \in {"find", "decide"} :
          call' = [call EXCEPT ![c].pc = p, ![c].carried = Carry(call[c].month)]
    BY <1>2, <2>2 DEF ReadPrior
  <2>4. p \in Pcs
    BY DEF Pcs
  <2>5. Now(c, p, call[c].month, call[c].used, Carry(call[c].month), call[c].got)
    BY <2>2, <2>3, <2>4, CallType DEF Now, CallRow
  <2> QED
    BY <1>2, <2>5 DEF ReadPrior, Quiet
<1>3. CASE FindRollover(c)
  <2>1. PICK p \in {"bank", "decide"} : Goto(c, p)
    BY <1>3 DEF FindRollover
  <2>2. p \in Pcs
    BY DEF Pcs
  <2> QED
    BY <1>3, <2>1, <2>2, GotoStep DEF FindRollover, Quiet
<1>4. CASE BankRollover(c)
  BY <1>4, GotoStep DEF BankRollover, Quiet, Pcs
<1>5. CASE Abort(c)
  BY <1>5, EndStep DEF Abort, Quiet, Pcs
<1> QED
  BY <1>1, <1>2, <1>3, <1>4, <1>5

LEMMA StartStep ==
  ASSUME TypeOK, NEW r \in Requests, Start(r)
  PROVE  /\ Quiet /\ UNCHANGED rollover /\ call[r].pc = "new"
         /\ \/ Now(r, "lookup", call[r].month, call[r].used, call[r].carried, call[r].got)
            \/ Now(r, "used", cycle, call[r].used, call[r].carried, call[r].got)
BY GotoStep, EnterStep DEF Start, Quiet, Calls, Pcs

LEMMA LookupStep ==
  ASSUME TypeOK, NEW r \in Requests, Lookup(r)
  PROVE  /\ Quiet /\ UNCHANGED rollover /\ call[r].pc = "lookup"
         /\ \/ \E w \in Reserved(OpOf[r]) : Now(r, "sign", 0, 0, 0, {w})
            \/ Now(r, "used", cycle, call[r].used, call[r].carried, call[r].got)
<1>1. Reserved(OpOf[r]) \subseteq Requests /\ r \in Calls
  BY DEF Reserved, Calls
<1>2. ASSUME NEW w \in Reserved(OpOf[r]), Answer(r, w) PROVE Now(r, "sign", 0, 0, 0, {w})
  BY <1>1, <1>2, AnswerStep
<1>3. ASSUME EnterGate(r)
      PROVE  Now(r, "used", cycle, call[r].used, call[r].carried, call[r].got)
  BY <1>1, <1>3, EnterStep
<1> QED
  BY <1>2, <1>3 DEF Lookup, Quiet

LEMMA DecideStep ==
  ASSUME TypeOK, NEW r \in Requests, Decide(r)
  PROVE  /\ Quiet /\ UNCHANGED rollover /\ call[r].pc = "decide"
         /\ \/ Covered(r) /\ Now(r, "insert", 0, 0, 0, {})
            \/ ~Covered(r) /\ Now(r, "refused", 0, 0, 0, {})
BY EndStep DEF Decide, Quiet, Calls, Pcs

LEMMA ReportStep ==
  ASSUME TypeOK, NEW b \in Readers, StartReader(b) \/ Report(b)
  PROVE  /\ Quiet /\ UNCHANGED rollover
         /\ \/ /\ call[b].pc = "new"
               /\ Now(b, "used", cycle, call[b].used, call[b].carried, call[b].got)
            \/ call[b].pc = "decide" /\ Now(b, "answered", 0, 0, 0, {})
BY EnterStep, EndStep DEF StartReader, Report, Quiet, Calls, Pcs

LEMMA InsertRowStep ==
  ASSUME TypeOK, NEW r \in Requests, InsertRow(r)
  PROVE  /\ row' \in [Requests -> [status : RowStates, vu : Nat, charged : Nat, month : Cycles]]
         /\ row'[r].status = "awaiting_upload" /\ row'[r].vu = row[r].vu
         /\ row'[r].charged = row[r].charged /\ row'[r].month = row[r].month
         /\ \A q \in Requests \ {r} : row'[q] = row[q]
BY DEF TypeOK, InsertRow, RowStates

LEMMA InsertStep ==
  ASSUME TypeOK, NEW r \in Requests, Insert(r)
  PROVE  /\ UNCHANGED <<cycle, spent, rollover>> /\ call[r].pc = "insert"
         /\ \/ /\ UNCHANGED row
               /\ Now(r, "winner", call[r].month, call[r].used, call[r].carried, call[r].got)
            \/ /\ InsertRow(r) /\ (OpOf[r] \in Keyed => Reserved(OpOf[r]) = {})
               /\ \/ Now(r, "sign", 0, 0, 0, {r})
                  \/ Now(r, "error", 0, 0, 0, {})
<1>1. r \in Calls /\ "winner" \in Pcs /\ "error" \in Pcs
  BY DEF Calls, Pcs
<1>2. Goto(r, "winner") =>
        Now(r, "winner", call[r].month, call[r].used, call[r].carried, call[r].got)
  BY <1>1, GotoStep
<1>3. Answer(r, r) => Now(r, "sign", 0, 0, 0, {r})
  BY <1>1, AnswerStep
<1>4. End(r, "error", {}) => Now(r, "error", 0, 0, 0, {})
  BY <1>1, EndStep
<1> QED
  BY <1>2, <1>3, <1>4 DEF Insert

LEMMA WinnerStep ==
  ASSUME TypeOK, NEW r \in Requests, Winner(r)
  PROVE  /\ Quiet /\ UNCHANGED rollover /\ call[r].pc = "winner"
         /\ \/ \E w \in Reserved(OpOf[r]) : Now(r, "sign", 0, 0, 0, {w})
            \/ Now(r, "error", 0, 0, 0, {})
<1>1. Reserved(OpOf[r]) \subseteq Requests /\ r \in Calls /\ "error" \in Pcs
  BY DEF Reserved, Calls, Pcs
<1>2. ASSUME NEW w \in Reserved(OpOf[r]), Answer(r, w) PROVE Now(r, "sign", 0, 0, 0, {w})
  BY <1>1, <1>2, AnswerStep
<1>3. End(r, "error", {}) => Now(r, "error", 0, 0, 0, {})
  BY <1>1, EndStep
<1> QED
  BY <1>2, <1>3 DEF Winner, Quiet

LEMMA SignStep ==
  ASSUME TypeOK, NEW r \in Requests, Sign(r)
  PROVE  /\ Quiet /\ UNCHANGED rollover /\ call[r].pc = "sign"
         /\ Now(r, "answered", 0, 0, 0, call[r].got)
<1>1. r \in Calls /\ "answered" \in Pcs /\ call[r].got \in SUBSET Requests
  BY CallType DEF Calls, Pcs
<1> QED
  BY <1>1, EndStep DEF Sign, Quiet

\* Row r becomes the given one, the others stay.
Became(r, st, vu, ch, m) ==
  /\ row' \in [Requests -> [status : RowStates, vu : Nat, charged : Nat, month : Cycles]]
  /\ row'[r].status = st /\ row'[r].vu = vu /\ row'[r].charged = ch /\ row'[r].month = m
  /\ \A q \in Requests \ {r} : row'[q] = row[q]

LEMMA SubmitStep ==
  ASSUME TypeOK, NEW r \in Requests, Submit(r)
  PROVE  /\ row[r].status = "awaiting_upload" /\ UNCHANGED <<cycle, spent, rollover, call>>
         /\ \A q \in Requests : OpOf[q] = OpOf[r] => row[q].status \in {"absent", "awaiting_upload"}
         /\ Became(r, "processing", row[r].vu, row[r].charged, row[r].month)
<1>1. Became(r, "processing", row[r].vu, row[r].charged, row[r].month)
  BY DEF TypeOK, Submit, Became, RowStates
<1> QED
  BY <1>1 DEF Submit

LEMMA FailStep ==
  ASSUME TypeOK, NEW r \in Requests, Fail(r)
  PROVE  /\ row[r].status = "processing" /\ UNCHANGED <<cycle, spent, rollover, call>>
         /\ Became(r, "failed", row[r].vu, row[r].charged, row[r].month)
BY DEF TypeOK, Fail, Became, RowStates

LEMMA OpOfType == ASSUME NEW r \in Requests PROVE OpOf[r] \in Ops
BY Constants

LEMMA CompleteStep ==
  ASSUME TypeOK, NEW r \in Requests, Complete(r)
  PROVE  /\ row[r].status = "processing" /\ UNCHANGED <<cycle, spent, rollover, call>>
         /\ Became(r, "complete", Meter(OpOf[r]), row[r].charged, cycle)
<1>1. Meter(OpOf[r]) \in Nat /\ cycle \in Cycles
  BY OpOfType, CostType, Constants DEF TypeOK, Cycles
<1>2. Became(r, "complete", Meter(OpOf[r]), row[r].charged, cycle)
  BY <1>1 DEF TypeOK, Complete, Became, RowStates
<1> QED
  BY <1>2 DEF Complete

LEMMA ChargeStep ==
  ASSUME TypeOK, NEW r \in Requests, Charge(r)
  PROVE  /\ row[r].status = "complete" /\ UNCHANGED <<cycle, rollover, call>>
         /\ \/ /\ spent' = [spent EXCEPT ![row[r].month] = @ + Cost(OpOf[r])]
               /\ Became(r, "settled", row[r].vu, Cost(OpOf[r]), row[r].month)
            \/ /\ UNCHANGED spent
               /\ Became(r, "settled", row[r].vu, row[r].charged, row[r].month)
<1>1. Cost(OpOf[r]) \in Nat
  BY OpOfType, CostType
<1>2. ASSUME row' = [row EXCEPT ![r].status = "settled", ![r].charged = Cost(OpOf[r])]
      PROVE  Became(r, "settled", row[r].vu, Cost(OpOf[r]), row[r].month)
  BY <1>1, <1>2 DEF TypeOK, Became, RowStates
<1>3. ASSUME row' = [row EXCEPT ![r].status = "settled"]
      PROVE  Became(r, "settled", row[r].vu, row[r].charged, row[r].month)
  BY <1>3 DEF TypeOK, Became, RowStates
<1> QED
  BY <1>2, <1>3 DEF Charge
-----------------------------------------------------------------------------
(* The general invariant.                                                  *)

LEMMA InitIInv == Init => IInv
<1> SUFFICES ASSUME Init PROVE IInv
  OBVIOUS
<1>1. TypeOK
  <2>1. Idle \in CallRow /\ NoRow \in [status : RowStates, vu : Nat, charged : Nat, month : Cycles]
    BY Constants DEF Idle, CallRow, NoRow, Cycles, Pcs, RowStates
  <2>2. 1 \in 1..MaxCycle /\ 0 \in 0..Allowance
    BY Constants
  <2> QED
    BY <2>1, <2>2 DEF Init, TypeOK, CallRow
<1>2. \A c \in Calls : CallOK(c)
  BY DEF Init, CallOK, Idle, Gate, NoRow
<1>3. Ledger /\ UniqueReservation /\ ChargedWithinMeter
  BY DEF Init, Ledger, NoRow, UniqueReservation, Reserved, ChargedWithinMeter
<1>4. RolloverNeverUnderstates
  BY DEF Init, RolloverNeverUnderstates, Cycles
<1> QED
  BY <1>1, <1>2, <1>3, <1>4 DEF IInv

LEMMA CallsKept ==
  ASSUME \A d \in Calls : CallOK(d), Quiet,
         NEW c \in Calls, NEW p, NEW m, NEW u, NEW k, NEW g, Now(c, p, m, u, k, g),
         p \in Gate => m \in 1..MaxCycle /\ m \in {cycle, cycle - 1},
         p \in {"prior", "find", "bank", "decide"} => u <= UsedSince(m),
         p \in {"find", "bank", "decide"} => k >= Carry(m),
         \A w \in g : c \in Requests /\ OpOf[w] = OpOf[c],
         c \in Requests /\ p \in Before => call[c].pc \in Before
  PROVE  \A d \in Calls : CallOK(d)'
<1>1. \A x : UsedSince(x)' = UsedSince(x) /\ Carry(x)' = Carry(x)
  BY DEF UsedSince, Carry, Quiet
<1>2. ASSUME NEW d \in Calls, d # c PROVE CallOK(d)'
  <2>1. call'[d] = call[d]
    BY <1>2 DEF Now
  <2>2. CallOK(d)
    OBVIOUS
  <2> QED
    BY <2>1, <2>2 DEF CallOK, Gate, Before, UsedSince, Carry, Quiet
<1>3. CallOK(c)'
  <2>1. /\ call'[c].pc = p /\ call'[c].month = m /\ call'[c].used = u
        /\ call'[c].carried = k /\ call'[c].got = g
    BY DEF Now
  <2> QED
    BY <2>1 DEF CallOK, Gate, Before, UsedSince, Carry, Quiet
<1> QED
  BY <1>2, <1>3

\* A step of one call that leaves ledger and rows alone.
LEMMA QuietKeeps ==
  ASSUME IInv, Quiet, call' \in [Calls -> CallRow], \A d \in Calls : CallOK(d)',
         \/ UNCHANGED rollover
         \/ \E m \in 1..MaxCycle, k \in 0..Allowance :
              k >= Carry(m) /\ rollover' = [rollover EXCEPT ![m] = IF @ = 0 THEN k ELSE @]
  PROVE  IInv'
<1>1. rollover' \in [Cycles -> 0..Allowance]
  BY DEF IInv, TypeOK
<1>2. TypeOK'
  BY <1>1 DEF IInv, TypeOK, Quiet, CallRow
<1>3. Ledger' /\ UniqueReservation' /\ ChargedWithinMeter'
  BY DEF IInv, Quiet, Ledger, UniqueReservation, Reserved, ChargedWithinMeter
<1>4. RolloverNeverUnderstates'
  <2>1. \A m \in 1..MaxCycle : m \in Cycles /\ Carry(m)' = Carry(m)
    BY Constants DEF Carry, Quiet, Cycles
  <2> QED
    BY <2>1 DEF IInv, RolloverNeverUnderstates, TypeOK
<1> QED
  BY <1>2, <1>3, <1>4 DEF IInv

LEMMA CycleType ==
  ASSUME TypeOK
  PROVE  cycle \in 1..MaxCycle /\ cycle \in Nat /\ MaxCycle \in Nat /\ cycle \in Cycles
BY Constants DEF TypeOK, Cycles

LEMMA GateKeeps ==
  ASSUME IInv, NEW c \in Calls,
         \/ ReadUsed(c) \/ ReadPrior(c) \/ FindRollover(c) \/ BankRollover(c) \/ Abort(c)
  PROVE  IInv'
<1> DEFINE m == call[c].month
<1>1. TypeOK /\ (\A d \in Calls : CallOK(d)) /\ CallOK(c)
  BY DEF IInv
<1>2. Quiet /\ UNCHANGED <<cycle, spent>>
  BY <1>1, GateStep DEF Quiet
<1>3. call[c].pc \in Gate => m \in 1..MaxCycle /\ m \in {cycle, cycle - 1}
  BY <1>1 DEF CallOK
<1>4. \A w \in call[c].got : c \in Requests /\ OpOf[w] = OpOf[c]
  BY <1>1 DEF CallOK
<1>5. m \in 1..MaxCycle => UsedSince(m) \in Nat /\ Carry(m) \in 0..Allowance
  BY <1>1, UsageTypes
<1>6. ASSUME call[c].pc = "used", UNCHANGED rollover,
             Now(c, "prior", m, UsedSince(m), call[c].carried, call[c].got)
      PROVE  IInv'
  <2>1. \A d \in Calls : CallOK(d)'
    BY <1>1, <1>2, <1>3, <1>4, <1>5, <1>6, CallsKept DEF Gate, Before
  <2> QED
    BY <1>2, <1>6, <2>1, QuietKeeps DEF Now
<1>7. ASSUME call[c].pc = "prior", UNCHANGED rollover, NEW p \in {"find", "decide"},
             Now(c, p, m, call[c].used, Carry(m), call[c].got)
      PROVE  IInv'
  <2>1. call[c].used <= UsedSince(m)
    BY <1>1, <1>7 DEF CallOK
  <2>2. Carry(m) >= Carry(m)
    BY <1>3, <1>5, <1>7 DEF Gate
  <2>3. \A d \in Calls : CallOK(d)'
    BY <1>1, <1>2, <1>3, <1>4, <1>7, <2>1, <2>2, CallsKept DEF Gate, Before
  <2> QED
    BY <1>2, <1>7, <2>3, QuietKeeps DEF Now
<1>8. ASSUME NEW pc \in {"find", "bank"}, call[c].pc = pc, NEW p \in {"bank", "decide"},
             Now(c, p, m, call[c].used, call[c].carried, call[c].got),
             \/ UNCHANGED rollover
             \/ rollover' = [rollover EXCEPT ![m] = IF @ = 0 THEN call[c].carried ELSE @]
      PROVE  IInv'
  <2>1. call[c].used <= UsedSince(m) /\ call[c].carried >= Carry(m) /\ m \in 1..MaxCycle
    BY <1>1, <1>8 DEF CallOK, Gate
  <2>2. \A d \in Calls : CallOK(d)'
    BY <1>1, <1>2, <1>3, <1>4, <1>8, <2>1, CallsKept DEF Gate, Before
  <2>3. call[c].carried \in 0..Allowance
    BY <1>1, CallType
  <2> QED
    BY <1>2, <1>8, <2>1, <2>2, <2>3, QuietKeeps DEF Now
<1>9. ASSUME UNCHANGED rollover, Now(c, "error", 0, 0, 0, {})
      PROVE  IInv'
  <2>1. \A d \in Calls : CallOK(d)'
    BY <1>1, <1>2, <1>9, CallsKept DEF Gate, Before
  <2> QED
    BY <1>2, <1>9, <2>1, QuietKeeps DEF Now
<1> QED
  BY <1>1, <1>6, <1>7, <1>8, <1>9, GateStep

\* The steps of a request or a reader that write no row.
LEMMA HandlerKeeps ==
  ASSUME IInv, NEW c \in Calls, Quiet, UNCHANGED rollover,
         NEW p \in Pcs, NEW m, NEW u, NEW k, NEW g, Now(c, p, m, u, k, g),
         p \in Gate => p = "used" /\ m = cycle,
         \A w \in g : c \in Requests /\ OpOf[w] = OpOf[c],
         c \in Requests /\ p \in Before => call[c].pc \in Before
  PROVE  IInv'
<1>1. cycle \in 1..MaxCycle
  BY CycleType DEF IInv
<1>2. (\A d \in Calls : CallOK(d)) /\ UNCHANGED <<cycle, spent>>
  BY DEF IInv, Quiet
<1>3. /\ p \in Gate => m \in 1..MaxCycle /\ m \in {cycle, cycle - 1}
      /\ p \notin {"prior", "find", "bank", "decide"}
  BY <1>1 DEF Gate
<1>4. \A d \in Calls : CallOK(d)'
  BY <1>2, <1>3, CallsKept
<1> QED
  BY <1>4, QuietKeeps DEF Now

LEMMA AdmissionKeeps ==
  ASSUME IInv, NEW r \in Requests,
         Start(r) \/ Lookup(r) \/ Decide(r) \/ Winner(r) \/ Sign(r)
  PROVE  IInv'
<1>1. TypeOK /\ r \in Calls /\ CallOK(r)
  BY DEF IInv, Calls
<1>2. \A w \in call[r].got : r \in Requests /\ OpOf[w] = OpOf[r]
  BY <1>1 DEF CallOK
<1>3. ASSUME Start(r) PROVE IInv'
  <2>1. "lookup" \in Pcs \ Gate /\ "used" \in Pcs
    BY DEF Pcs, Gate, Before
  <2> QED
    BY <1>1, <1>2, <1>3, <2>1, StartStep, HandlerKeeps DEF Before
<1>4. ASSUME NEW w \in Reserved(OpOf[r]), Now(r, "sign", 0, 0, 0, {w}), Quiet, UNCHANGED rollover
      PROVE  IInv'
  <2>1. "sign" \in Pcs \ Gate
    BY DEF Pcs, Gate, Before
  <2>2. \A v \in {w} : r \in Requests /\ OpOf[v] = OpOf[r]
    BY DEF Reserved
  <2> QED
    BY <1>1, <1>4, <2>1, <2>2, HandlerKeeps DEF Before
<1>5. ASSUME Lookup(r) PROVE IInv'
  <2>1. "used" \in Pcs
    BY DEF Pcs
  <2>2. ASSUME Now(r, "used", cycle, call[r].used, call[r].carried, call[r].got) PROVE IInv'
    BY <1>1, <1>2, <1>5, <2>1, <2>2, LookupStep, HandlerKeeps DEF Before
  <2> QED
    BY <1>1, <1>4, <1>5, <2>2, LookupStep
<1>6. ASSUME NEW p \in {"insert", "refused", "error"}, Now(r, p, 0, 0, 0, {}), Quiet,
             UNCHANGED rollover, call[r].pc \in Before
      PROVE  IInv'
  <2>1. p \in Pcs \ Gate
    BY DEF Pcs, Gate, Before
  <2> QED
    BY <1>1, <1>6, <2>1, HandlerKeeps DEF Before
<1>7. ASSUME Decide(r) PROVE IInv'
  BY <1>1, <1>6, <1>7, DecideStep DEF Before, Gate
<1>8. ASSUME Winner(r) PROVE IInv'
  BY <1>1, <1>4, <1>6, <1>8, WinnerStep DEF Before
<1>9. ASSUME Sign(r) PROVE IInv'
  <2>1. "answered" \in Pcs \ Gate
    BY DEF Pcs, Gate, Before
  <2> QED
    BY <1>1, <1>2, <1>9, <2>1, SignStep, HandlerKeeps DEF Before
<1> QED
  BY <1>3, <1>5, <1>7, <1>8, <1>9

LEMMA ReaderKeeps ==
  ASSUME IInv, NEW b \in Readers, StartReader(b) \/ Report(b)
  PROVE  IInv'
<1>1. TypeOK /\ b \in Calls /\ CallOK(b) /\ "used" \in Pcs /\ "answered" \in Pcs \ Gate
  BY DEF IInv, Calls, Pcs, Gate
<1>2. \A w \in call[b].got : b \in Requests /\ OpOf[w] = OpOf[b]
  BY <1>1 DEF CallOK
<1>3. ASSUME Now(b, "used", cycle, call[b].used, call[b].carried, call[b].got) PROVE IInv'
  BY <1>1, <1>2, <1>3, ReportStep, HandlerKeeps DEF Before
<1>4. ASSUME Now(b, "answered", 0, 0, 0, {}) PROVE IInv'
  BY <1>1, <1>4, ReportStep, HandlerKeeps DEF Before
<1> QED
  BY <1>1, <1>3, <1>4, ReportStep

\* The rest of the invariant does not look at rows that await their file.
LEMMA InsertKeeps ==
  ASSUME IInv, NEW r \in Requests, Insert(r)
  PROVE  IInv'
<1>1. TypeOK /\ r \in Calls /\ CallOK(r) /\ Ledger
  BY DEF IInv, Calls
<1>2. row[r].status = "absent" /\ call[r].pc = "insert"
  BY <1>1, InsertStep DEF CallOK, Before
<1>3. CASE UNCHANGED row
  <2>1. Quiet /\ UNCHANGED rollover
    BY <1>1, <1>3, InsertStep DEF Quiet
  <2>2. \A w \in call[r].got : r \in Requests /\ OpOf[w] = OpOf[r]
    BY <1>1 DEF CallOK
  <2>3. "winner" \in Pcs \ Gate /\ "sign" \in Pcs \ Gate /\ "error" \in Pcs \ Gate
    BY DEF Pcs, Gate
  <2>4. \A w \in {r} : r \in Requests /\ OpOf[w] = OpOf[r]
    OBVIOUS
  <2>5. ASSUME Now(r, "winner", call[r].month, call[r].used, call[r].carried, call[r].got)
        PROVE  IInv'
    BY <1>1, <1>2, <2>1, <2>2, <2>3, <2>5, HandlerKeeps DEF Before
  <2>6. ASSUME Now(r, "sign", 0, 0, 0, {r}) PROVE IInv'
    BY <1>1, <2>1, <2>3, <2>4, <2>6, HandlerKeeps DEF Before, Gate
  <2>7. ASSUME Now(r, "error", 0, 0, 0, {}) PROVE IInv'
    BY <1>1, <2>1, <2>3, <2>7, HandlerKeeps DEF Before, Gate
  <2> QED
    BY <1>1, <2>5, <2>6, <2>7, InsertStep
<1>4. CASE InsertRow(r) /\ (OpOf[r] \in Keyed => Reserved(OpOf[r]) = {})
  <2>1. PICK p \in {"sign", "error"}, g \in {{}, {r}} : Now(r, p, 0, 0, 0, g)
    <3>1. row'[r].status # row[r].status
      BY <1>1, <1>2, <1>4, InsertRowStep
    <3>2. Now(r, "sign", 0, 0, 0, {r}) \/ Now(r, "error", 0, 0, 0, {})
      BY <1>1, <3>1, InsertStep
    <3>3. CASE Now(r, "sign", 0, 0, 0, {r})
      BY <3>3
    <3>4. CASE Now(r, "error", 0, 0, 0, {})
      BY <3>4
    <3> QED
      BY <3>2, <3>3, <3>4
  <2>2. UNCHANGED <<cycle, spent, rollover>>
    BY <1>1, InsertStep
  <2>3. /\ row' \in [Requests -> [status : RowStates, vu : Nat, charged : Nat, month : Cycles]]
        /\ row'[r].status = "awaiting_upload" /\ row'[r].vu = row[r].vu
        /\ row'[r].charged = row[r].charged /\ row'[r].month = row[r].month
        /\ \A q \in Requests \ {r} : row'[q] = row[q]
    BY <1>1, <1>4, InsertRowStep
  <2>4. TypeOK'
    BY <1>1, <2>1, <2>2, <2>3 DEF TypeOK, Now, CallRow
  <2>5. ASSUME NEW d \in Calls PROVE CallOK(d)'
    <3>1. CASE d = r
      BY <2>1, <3>1 DEF Now, CallOK, Gate, Before
    <3>2. CASE d # r
      <4>1. call'[d] = call[d] /\ CallOK(d) /\ (d \in Requests => row'[d] = row[d])
        BY <2>1, <2>3, <3>2 DEF Now, IInv
      <4> QED
        BY <2>2, <4>1 DEF CallOK, Gate, Before, UsedSince, Carry
    <3> QED
      BY <3>1, <3>2
  <2>6. Ledger'
    BY <1>1, <1>2, <2>2, <2>3 DEF Ledger
  <2>7. UniqueReservation'
    <3>1. ASSUME NEW o \in Keyed, NEW v \in Reserved(o)', NEW w \in Reserved(o)' PROVE v = w
      <4>1. CASE o = OpOf[r]
        <5>1. \A q \in Reserved(o)' : q = r
          BY <1>4, <2>3, <4>1 DEF Reserved
        <5> QED
          BY <5>1
      <4>2. CASE o # OpOf[r]
        <5>1. \A q \in Reserved(o)' : q \in Reserved(o)
          BY <2>3, <4>2 DEF Reserved
        <5> QED
          BY <5>1 DEF IInv, UniqueReservation
      <4> QED
        BY <4>1, <4>2
    <3> QED
      BY <3>1 DEF UniqueReservation
  <2>8. RolloverNeverUnderstates' /\ ChargedWithinMeter'
    BY <2>2, <2>3 DEF IInv, RolloverNeverUnderstates, ChargedWithinMeter, Carry
  <2> QED
    BY <2>4, <2>5, <2>6, <2>7, <2>8 DEF IInv
<1> QED
  BY <1>1, <1>3, <1>4, InsertStep

\* Charging only ever adds to a month: its usage grows and the carry of the
\* next one shrinks.
Grown == spent' \in [Cycles -> Nat] /\ \A m \in Cycles : spent[m] <= spent'[m]

UsedSinceNext(x) == spent'[x] + IF x < MaxCycle THEN spent'[x + 1] ELSE 0
CarryNext(x) == CarriedOver(Allowance, spent'[x - 1])

LEMMA GrownLedger ==
  ASSUME TypeOK, Grown, NEW x \in 1..MaxCycle
  PROVE  /\ UsedSinceNext(x) \in Nat /\ UsedSince(x) <= UsedSinceNext(x)
         /\ CarryNext(x) \in Nat /\ CarryNext(x) <= Carry(x)
<1>1. x \in Cycles /\ x - 1 \in Cycles /\ (x < MaxCycle => x + 1 \in Cycles) /\ x \in Nat
  BY Constants DEF Cycles
<1>2. /\ spent[x] \in Nat /\ spent'[x] \in Nat /\ spent[x - 1] \in Nat /\ spent'[x - 1] \in Nat
      /\ x < MaxCycle => spent[x + 1] \in Nat /\ spent'[x + 1] \in Nat
  BY <1>1 DEF TypeOK, Grown
<1>3. /\ spent[x] <= spent'[x] /\ spent[x - 1] <= spent'[x - 1]
      /\ x < MaxCycle => spent[x + 1] <= spent'[x + 1]
  BY <1>1 DEF Grown
<1>4. UsedSinceNext(x) \in Nat /\ UsedSince(x) <= UsedSinceNext(x)
  BY <1>2, <1>3, Constants DEF UsedSince, UsedSinceNext
<1>5. CarryNext(x) \in Nat /\ CarryNext(x) <= Carry(x)
  <2>1. /\ CarriedOver(Allowance, spent'[x - 1]) \in 0..Allowance
        /\ CarriedOver(Allowance, spent'[x - 1]) <= CarriedOver(Allowance, spent[x - 1])
    BY <1>2, <1>3, Constants, CarriedOverBounds
  <2> QED
    BY <2>1, Constants DEF Carry, CarryNext
<1> QED
  BY <1>4, <1>5

\* A row goes on from its place behind the reservation; the ledger may grow.
LEMMA RowKeeps ==
  ASSUME IInv, UNCHANGED <<cycle, rollover, call>>, Grown,
         \A x \in Cycles : x > cycle => spent'[x] = 0,
         NEW r \in Requests, row[r].status # "absent",
         NEW st \in RowStates \ {"absent", "awaiting_upload"}, NEW vu \in Nat, NEW ch \in Nat,
         NEW m \in Cycles, Became(r, st, vu, ch, m), m <= cycle, ch <= vu,
         st # "settled" => ch = 0, st = "complete" => m \in 1..MaxCycle /\ vu = Meter(OpOf[r])
  PROVE  IInv'
<1>1. TypeOK'
  BY DEF IInv, TypeOK, Became, Grown
<1>2. ASSUME NEW d \in Calls PROVE CallOK(d)'
  <2> DEFINE k == call[d]
  <2>1. CallOK(d) /\ k.used \in Nat /\ k.carried \in Nat
    BY CallType, Constants DEF IInv
  <2>2. k.pc \in Gate => k.month \in 1..MaxCycle /\ k.month \in {cycle, cycle - 1}
    BY <2>1 DEF CallOK
  <2>3. k.pc \in {"prior", "find", "bank", "decide"} => k.used <= UsedSinceNext(k.month)
    <3> SUFFICES ASSUME k.pc \in {"prior", "find", "bank", "decide"}
                 PROVE  k.used <= UsedSinceNext(k.month)
      OBVIOUS
    <3>1. k.month \in 1..MaxCycle /\ k.used <= UsedSince(k.month)
      BY <2>1 DEF CallOK, Gate
    <3>2. UsedSince(k.month) \in Nat
      BY <3>1, UsageTypes DEF IInv
    <3> QED
      BY <2>1, <3>1, <3>2, GrownLedger DEF IInv
  <2>4. k.pc \in {"find", "bank", "decide"} => k.carried >= CarryNext(k.month)
    <3> SUFFICES ASSUME k.pc \in {"find", "bank", "decide"}
                 PROVE  k.carried >= CarryNext(k.month)
      OBVIOUS
    <3>1. k.month \in 1..MaxCycle /\ k.carried >= Carry(k.month)
      BY <2>1 DEF CallOK, Gate
    <3>2. Carry(k.month) \in Nat
      BY <3>1, UsageTypes, Constants DEF IInv
    <3> QED
      BY <2>1, <3>1, <3>2, GrownLedger DEF IInv
  <2>5. \A w \in k.got : d \in Requests /\ OpOf[w] = OpOf[d]
    BY <2>1 DEF CallOK
  <2>6. (d \in Requests /\ k.pc \in Before) => row'[d].status = "absent"
    <3>1. (d \in Requests /\ k.pc \in Before) => row[d].status = "absent"
      BY <2>1 DEF CallOK
    <3>2. d \in Requests /\ row[d].status = "absent" => row'[d] = row[d]
      BY DEF Became
    <3> QED
      BY <3>1, <3>2
  <2>7. UNCHANGED <<call, cycle>>
    OBVIOUS
  <2> QED
    BY <2>2, <2>3, <2>4, <2>5, <2>6, <2>7
    DEF CallOK, Gate, Before, UsedSince, Carry, UsedSinceNext, CarryNext
<1>3. Ledger'
  BY DEF IInv, Ledger, Became
<1>4. UniqueReservation'
  <2>1. \A o \in Keyed : Reserved(o)' \subseteq Reserved(o)
    BY DEF Reserved, Became
  <2> QED
    BY <2>1 DEF IInv, UniqueReservation
<1>5. RolloverNeverUnderstates'
  <2>1. ASSUME NEW x \in 1..MaxCycle, rollover[x] > 0 PROVE rollover[x] >= CarryNext(x)
    <3>1. rollover[x] \in Nat /\ Carry(x) \in Nat /\ rollover[x] >= Carry(x)
      BY <2>1, UsageTypes, Constants DEF IInv, TypeOK, RolloverNeverUnderstates, Cycles
    <3> QED
      BY <3>1, GrownLedger DEF IInv
  <2> QED
    BY <2>1 DEF RolloverNeverUnderstates, Carry, CarryNext
<1>6. ChargedWithinMeter'
  BY DEF IInv, ChargedWithinMeter, Became
<1> QED
  BY <1>1, <1>2, <1>3, <1>4, <1>5, <1>6 DEF IInv

LEMMA RowTypes ==
  ASSUME TypeOK, NEW r \in Requests
  PROVE  row[r].vu \in Nat /\ row[r].charged \in Nat /\ row[r].month \in Cycles
BY DEF TypeOK

\* What a charge does to the ledger.
LEMMA ChargeGrows ==
  ASSUME IInv, NEW r \in Requests, row[r].status = "complete",
         \/ UNCHANGED spent
         \/ spent' = [spent EXCEPT ![row[r].month] = @ + Cost(OpOf[r])]
  PROVE  Grown /\ \A x \in Cycles : x > cycle => spent'[x] = 0
<1>1. Cost(OpOf[r]) \in Nat /\ row[r].month \in Cycles /\ row[r].month <= cycle
  BY OpOfType, CostType, RowTypes DEF IInv, Ledger
<1>2. spent \in [Cycles -> Nat] /\ \A x \in Cycles : x > cycle => spent[x] = 0
  BY DEF IInv, TypeOK, Ledger
<1>3. CASE UNCHANGED spent
  BY <1>2, <1>3 DEF Grown
<1>4. CASE spent' = [spent EXCEPT ![row[r].month] = @ + Cost(OpOf[r])]
  <2>1. Grown
    BY <1>1, <1>2, <1>4 DEF Grown
  <2>2. ASSUME NEW x \in Cycles, x > cycle PROVE spent'[x] = 0
    <3>1. x # row[r].month
      BY <1>1, <2>2, CycleType DEF IInv, Cycles
    <3> QED
      BY <1>2, <1>4, <2>2, <3>1
  <2> QED
    BY <2>1, <2>2
<1> QED
  BY <1>3, <1>4

LEMMA ScanKeeps ==
  ASSUME IInv, NEW r \in Requests, Submit(r) \/ Fail(r) \/ Complete(r) \/ Charge(r)
  PROVE  IInv'
<1>1. TypeOK /\ Ledger /\ ChargedWithinMeter
  BY DEF IInv
<1>2. /\ row[r].vu \in Nat /\ row[r].charged \in Nat /\ row[r].month \in Cycles
      /\ row[r].month <= cycle /\ row[r].charged <= row[r].vu
      /\ row[r].status # "settled" => row[r].charged = 0
  BY <1>1, RowTypes DEF Ledger, ChargedWithinMeter
<1>3. cycle \in 1..MaxCycle /\ cycle \in Cycles /\ cycle <= cycle
  BY <1>1, CycleType
<1>4. UNCHANGED spent => Grown /\ \A x \in Cycles : x > cycle => spent'[x] = 0
  BY <1>1 DEF TypeOK, Grown, Ledger
<1>5. {"processing", "failed", "complete", "settled"} \subseteq RowStates \ {"absent", "awaiting_upload"}
  BY DEF RowStates
<1>6. CASE Submit(r)
  BY <1>1, <1>2, <1>4, <1>5, <1>6, SubmitStep, RowKeeps
<1>7. CASE Fail(r)
  BY <1>1, <1>2, <1>4, <1>5, <1>7, FailStep, RowKeeps
<1>8. CASE Complete(r)
  <2>1. Meter(OpOf[r]) \in Nat /\ row[r].charged = 0
    BY <1>1, <1>2, <1>8, CompleteStep, OpOfType, CostType
  <2>2. row[r].charged <= Meter(OpOf[r])
    BY <2>1
  <2> QED
    BY <1>1, <1>2, <1>3, <1>4, <1>5, <1>8, <2>1, <2>2, CompleteStep, RowKeeps
<1>9. CASE Charge(r)
  <2>1. /\ row[r].status = "complete" /\ UNCHANGED <<cycle, rollover, call>>
        /\ Grown /\ \A x \in Cycles : x > cycle => spent'[x] = 0
    BY <1>1, <1>9, ChargeStep, ChargeGrows
  <2>2. Cost(OpOf[r]) \in Nat /\ Cost(OpOf[r]) <= row[r].vu
    BY <1>1, <2>1, OpOfType, CostType DEF Ledger
  <2>3. PICK ch \in {Cost(OpOf[r]), row[r].charged} :
          Became(r, "settled", row[r].vu, ch, row[r].month)
    BY <1>1, <1>9, ChargeStep
  <2>4. ch \in Nat /\ ch <= row[r].vu
    BY <1>2, <2>2, <2>3
  <2> QED
    BY <1>2, <1>5, <2>1, <2>3, <2>4, RowKeeps
<1> QED
  BY <1>6, <1>7, <1>8, <1>9

LEMMA MonthKeeps ==
  ASSUME IInv, MonthTurns
  PROVE  IInv'
<1>1. /\ cycle < MaxCycle /\ cycle' = cycle + 1 /\ UNCHANGED <<spent, rollover, row, call>>
      /\ \A c \in Calls : call[c].month \in {0, cycle}
  BY DEF MonthTurns
<1>2. cycle \in Nat /\ MaxCycle \in Nat /\ cycle' \in 1..MaxCycle
  BY <1>1, CycleType DEF IInv
<1>3. TypeOK'
  BY <1>1, <1>2 DEF IInv, TypeOK
<1>4. ASSUME NEW c \in Calls PROVE CallOK(c)'
  <2>1. CallOK(c) /\ call[c].month \in {0, cycle}
    BY <1>1 DEF IInv
  <2>2. call[c].pc \in Gate => call[c].month \in 1..MaxCycle /\ call[c].month = cycle' - 1
    BY <1>1, <1>2, <2>1 DEF CallOK
  <2> QED
    BY <1>1, <2>1, <2>2 DEF CallOK, Gate, Before, UsedSince, Carry
<1>5. Ledger'
  <2>1. \A r \in Requests : row[r].month \in Nat
    BY RowTypes DEF IInv, Cycles
  <2> QED
    BY <1>1, <1>2, <2>1 DEF IInv, Ledger, Cycles
<1>6. UniqueReservation' /\ RolloverNeverUnderstates' /\ ChargedWithinMeter'
  BY <1>1 DEF IInv, UniqueReservation, Reserved, RolloverNeverUnderstates, Carry,
              ChargedWithinMeter
<1> QED
  BY <1>3, <1>4, <1>5, <1>6 DEF IInv

LEMMA NextIInv == IInv /\ [Next]_vars => IInv'
<1>1. ASSUME IInv, UNCHANGED vars PROVE IInv'
  <2>1. Quiet /\ UNCHANGED <<rollover, call>> /\ call' \in [Calls -> CallRow]
    BY <1>1 DEF vars, Quiet, IInv, TypeOK, CallRow
  <2>2. \A d \in Calls : CallOK(d)'
    BY <1>1 DEF vars, IInv, CallOK, Gate, Before, UsedSince, Carry
  <2> QED
    BY <1>1, <2>1, <2>2, QuietKeeps
<1> QED
  BY <1>1, AdmissionKeeps, InsertKeeps, ScanKeeps, ReaderKeeps, GateKeeps, MonthKeeps DEF Next

\* What holds of every reachable state, for any client.
LEMMA Invariant == Spec => []IInv
<1> QED
  BY InitIInv, NextIInv, PTL DEF Spec
-----------------------------------------------------------------------------
\* Whatever is read, carried or charged stays a number of units of a month.
THEOREM TypesHold == Spec => []TypeOK
<1>1. IInv => TypeOK
  BY DEF IInv
<1> QED
  BY <1>1, Invariant, PTL

\* Retries of one keyed upload, however they overlap in initiateScan, are
\* answered with one reservation.
THEOREM RetriesShareOneScan == Spec => []SameReservation
<1>1. IInv => SameReservation
  <2> SUFFICES ASSUME IInv, NEW q \in Requests, NEW r \in Requests,
                      NEW v \in call[q].got, NEW w \in call[r].got,
                      OpOf[q] = OpOf[r], OpOf[q] \in Keyed,
                      row[v].status = "awaiting_upload", row[w].status = "awaiting_upload"
               PROVE  v = w
    BY DEF SameReservation
  <2>1. q \in Calls /\ r \in Calls
    BY DEF Calls
  <2>2. /\ CallOK(q) /\ CallOK(r) /\ v \in Requests /\ w \in Requests
    BY <2>1, CallType DEF IInv
  <2>3. OpOf[v] = OpOf[q] /\ OpOf[w] = OpOf[r]
    BY <2>2 DEF CallOK
  <2>4. v \in Reserved(OpOf[q]) /\ w \in Reserved(OpOf[q])
    BY <2>2, <2>3 DEF Reserved
  <2> QED
    BY <2>4 DEF IInv, UniqueReservation
<1> QED
  BY <1>1, Invariant, PTL

\* recordRollover writes a month's row once, from a sum that may only grow
\* afterwards: the row never shows less than the gate will grant.
THEOREM RolloverHolds == Spec => []RolloverNeverUnderstates
<1>1. IInv => RolloverNeverUnderstates
  BY DEF IInv
<1> QED
  BY <1>1, Invariant, PTL

\* recordScanUsage leaves the dimensions out: a scan is never charged more than
\* the units its result shows.
THEOREM ChargesAreMetered == Spec => []ChargedWithinMeter
<1>1. IInv => ChargedWithinMeter
  BY DEF IInv
<1> QED
  BY <1>1, Invariant, PTL

\* A refusal is decided on no more usage and no less carry than the ledger has
\* at that moment.
LEMMA RefusalStep ==
  ASSUME IInv, [Next]_vars, NEW r \in Requests, call[r].pc = "decide", call'[r].pc = "refused"
  PROVE  spent[call[r].month] + (IF cycle > call[r].month THEN spent[cycle] ELSE 0)
           + Cost(OpOf[r]) > Allowance + Carry(call[r].month)
<1>1. Decide(r)
  <2>1. ASSUME NEW q \in Requests, Start(q) \/ Lookup(q) \/ Insert(q) \/ Winner(q) \/ Sign(q)
        PROVE  call'[r].pc # "refused"
    <3>1. CASE q = r
      BY <2>1, <3>1 DEF Start, Lookup, Insert, Winner, Sign
    <3>2. CASE q # r
      <4>1. call'[r] = call[r]
        BY <2>1, <3>2, StartStep, LookupStep, InsertStep, WinnerStep, SignStep
        DEF Now, Calls, IInv
      <4> QED
        BY <4>1
    <3> QED
      BY <3>1, <3>2
  <2>2. ASSUME NEW b \in Readers, StartReader(b) \/ Report(b) PROVE call'[r].pc # "refused"
    <3>1. b \in Calls /\ r \in Calls /\ b # r
      BY Constants DEF Calls
    <3> QED
      BY <2>2, <3>1, ReportStep DEF Now, IInv
  <2>3. ASSUME NEW c \in Calls,
               \/ ReadUsed(c) \/ ReadPrior(c) \/ FindRollover(c) \/ BankRollover(c) \/ Abort(c)
        PROVE  call'[r].pc # "refused"
    <3>1. CASE c = r
      BY <2>3, <3>1 DEF ReadUsed, ReadPrior, FindRollover, BankRollover, Abort
    <3>2. CASE c # r
      <4>1. r \in Calls \ {c} /\ CallOK(c)
        BY <3>2 DEF Calls, IInv
      <4> QED
        BY <2>3, <4>1, GateStep DEF Now, IInv
    <3> QED
      BY <3>1, <3>2
  <2>4. ASSUME NEW q \in Requests, q # r, Decide(q) PROVE call'[r].pc # "refused"
    BY <2>4, DecideStep DEF Now, Calls, IInv
  <2>5. ASSUME UNCHANGED call PROVE call'[r].pc # "refused"
    BY <2>5
  <2> QED
    BY <2>1, <2>2, <2>3, <2>4, <2>5 DEF Next, vars, Submit, Fail, Complete, Charge, MonthTurns
<1> DEFINE m == call[r].month  o == OpOf[r]
<1>2. TypeOK /\ CallOK(r) /\ r \in Calls /\ o \in Ops
  BY OpOfType DEF IInv, Calls
<1>3. /\ m \in 1..MaxCycle /\ m \in {cycle, cycle - 1}
      /\ call[r].used <= UsedSince(m) /\ call[r].carried >= Carry(m)
  BY <1>2 DEF CallOK, Gate
<1>4. /\ call[r].used \in Nat /\ call[r].carried \in Nat /\ UsedSince(m) \in Nat
      /\ Carry(m) \in Nat /\ Cost(o) \in Nat \ {0} /\ Allowance \in Nat /\ spent[m] \in Nat
  BY <1>2, <1>3, CallType, UsageTypes, CostType, Constants
<1>5. ~Covered(r)
  BY <1>1, <1>2, DecideStep DEF Now
<1>6. call[r].used + Cost(o) > Allowance + call[r].carried
  BY <1>4, <1>5 DEF Covered
<1>7. UsedSince(m) + Cost(o) > Allowance + Carry(m)
  <2> HIDE DEF m, o
  <2> QED
    BY <1>3, <1>4, <1>6
<1>8. UsedSince(m) = spent[m] + IF cycle > m THEN spent[cycle] ELSE 0
  <2>1. cycle \in 1..MaxCycle /\ MaxCycle \in Nat
    BY <1>2, CycleType
  <2>2. CASE m = cycle
    <3>1. m < MaxCycle => m + 1 \in Cycles /\ m + 1 > cycle
      BY <2>1, <2>2 DEF Cycles
    <3>2. m < MaxCycle => spent[m + 1] = 0
      BY <3>1 DEF IInv, Ledger
    <3> QED
      BY <1>4, <2>1, <2>2, <3>2 DEF UsedSince
  <2>3. CASE m = cycle - 1
    BY <1>4, <2>1, <2>3 DEF UsedSince
  <2> QED
    BY <1>3, <2>2, <2>3
<1> QED
  BY <1>7, <1>8

\* assertScanQuota refuses only what the ledger does not cover, for any client
\* and any number of overlapping requests.
THEOREM RefusalsAreJustified == Spec => RefusedOnlyWhenShort
<1> DEFINE
  Step == \A r \in Requests :
            (call[r].pc = "decide" /\ call'[r].pc = "refused") =>
              LET m == call[r].month IN
              spent[m] + (IF cycle > m THEN spent[cycle] ELSE 0) + Cost(OpOf[r])
                > Allowance + Carry(m)
<1>1. ASSUME IInv, [Next]_vars PROVE [Step]_vars
  BY <1>1, RefusalStep
<1> QED
  BY <1>1, Invariant, PTL DEF Spec, RefusedOnlyWhenShort
-----------------------------------------------------------------------------
(* The client that keeps at most one upload going.                         *)

LEMMA InitSerial == Init => SerialInv
<1> SUFFICES ASSUME Init PROVE SerialInv
  OBVIOUS
<1>1. \A r \in Requests : call[r].pc = "new" /\ row[r].status = "absent"
  BY DEF Init, Idle, NoRow, Calls
<1>2. OneGoing
  BY <1>1 DEF OneGoing, Going, Live
<1>3. OnceSubmitted /\ Fresh /\ AdmittedFits /\ DueFits
  BY <1>1 DEF OnceSubmitted, Submitted, Fresh, AdmittedFits, DueFits
<1>4. WithinLimit
  <2>1. ASSUME NEW m \in 1..MaxCycle PROVE spent[m] <= Allowance + Carry(m)
    <3>1. TypeOK
      BY InitIInv DEF IInv
    <3>2. Carry(m) \in Nat /\ m \in Cycles
      BY <3>1, UsageTypes, Constants
    <3> QED
      BY <3>2, Constants DEF Init
  <2> QED
    BY <2>1 DEF WithinLimit
<1> QED
  BY <1>2, <1>3, <1>4 DEF SerialInv

Final == {"new", "refused", "error"}
Settled == {"settled", "failed"}

\* No upload starts to be going but by Start.
LEMMA GoingKept ==
  ASSUME OneGoing,
         \A r \in Requests : call'[r].pc \notin Final \/ row'[r].status \in Live
                            => call[r].pc \notin Final \/ row[r].status \in Live,
         \A r \in Requests : row[r].status \in Settled => row'[r].status \in Settled
  PROVE  OneGoing'
<1>1. ASSUME NEW o \in Ops, Going(o)' PROVE Going(o)
  <2>1. PICK r \in Requests : OpOf[r] = o /\ (call'[r].pc \notin Final \/ row'[r].status \in Live)
    BY <1>1 DEF Going, Final, Live
  <2>2. \A q \in Requests : OpOf[q] = o => row[q].status \notin Settled
    BY <1>1 DEF Going, Settled
  <2>3. call[r].pc \notin Final \/ row[r].status \in Live
    BY <2>1
  <2> QED
    BY <2>1, <2>2, <2>3 DEF Going, Final, Settled
<1> QED
  BY <1>1 DEF OneGoing

\* A step of one call that leaves ledger and rows alone.
LEMMA SerialQuiet ==
  ASSUME SerialInv, OneGoing', Quiet,
         NEW c \in Calls, NEW p, NEW m, NEW u, NEW k, NEW g, Now(c, p, m, u, k, g),
         (c \in Requests /\ Unsettled(OpOf[c])) =>
           /\ p \in {"prior", "find", "bank", "decide"} => u = UsedSince(m)
           /\ p \in {"find", "bank", "decide"} => k = Carry(m)
           /\ p = "insert" => \A x \in cycle..MaxCycle : Fits(OpOf[c], x)
  PROVE  SerialInv'
<1>1. UNCHANGED <<cycle, spent, row>>
  BY DEF Quiet
<1>2. /\ call'[c].pc = p /\ call'[c].month = m /\ call'[c].used = u /\ call'[c].carried = k
      /\ \A d \in Calls \ {c} : call'[d] = call[d]
  BY DEF Now
<1>3. OnceSubmitted' /\ DueFits' /\ WithinLimit'
  BY <1>1 DEF SerialInv, OnceSubmitted, DueFits, Fits, WithinLimit, Carry
<1>4. Fresh'
  <2>1. ASSUME NEW r \in Requests, Unsettled(OpOf[r])
        PROVE  /\ call'[r].pc \in {"prior", "find", "bank", "decide"} =>
                    call'[r].used = UsedSince(call'[r].month)
               /\ call'[r].pc \in {"find", "bank", "decide"} =>
                    call'[r].carried = Carry(call'[r].month)
    <3>1. CASE r = c
      BY <1>2, <2>1, <3>1
    <3>2. CASE r # c
      <4>1. call'[r] = call[r]
        BY <1>2, <3>2 DEF Calls
      <4> QED
        BY <2>1, <4>1 DEF SerialInv, Fresh
    <3> QED
      BY <3>1, <3>2
  <2> QED
    BY <1>1, <2>1 DEF Fresh, Unsettled, UsedSince, Carry
<1>5. AdmittedFits'
  <2>1. ASSUME NEW r \in Requests, Unsettled(OpOf[r]),
               call'[r].pc = "insert" \/ row[r].status \in {"awaiting_upload", "processing"}
        PROVE  \A x \in cycle..MaxCycle : Fits(OpOf[r], x)
    <3>1. CASE r = c
      BY <1>2, <2>1, <3>1 DEF SerialInv, AdmittedFits
    <3>2. CASE r # c
      <4>1. call'[r] = call[r]
        BY <1>2, <3>2 DEF Calls
      <4> QED
        BY <2>1, <4>1 DEF SerialInv, AdmittedFits
    <3> QED
      BY <3>1, <3>2
  <2> QED
    BY <1>1, <2>1 DEF AdmittedFits, Unsettled, Fits, Carry
<1> QED
  BY <1>3, <1>4, <1>5 DEF SerialInv

\* ... of a call that was going before.
LEMMA SerialCall ==
  ASSUME SerialInv, Quiet,
         NEW c \in Calls, NEW p, NEW m, NEW u, NEW k, NEW g, Now(c, p, m, u, k, g),
         c \in Requests => call[c].pc \notin Final \/ p \in Final,
         (c \in Requests /\ Unsettled(OpOf[c])) =>
           /\ p \in {"prior", "find", "bank", "decide"} => u = UsedSince(m)
           /\ p \in {"find", "bank", "decide"} => k = Carry(m)
           /\ p = "insert" => \A x \in cycle..MaxCycle : Fits(OpOf[c], x)
  PROVE  SerialInv'
<1>1. /\ call'[c].pc = p /\ \A d \in Calls \ {c} : call'[d] = call[d]
      /\ UNCHANGED row
  BY DEF Now, Quiet
<1>2. ASSUME NEW r \in Requests, call'[r].pc \notin Final \/ row'[r].status \in Live
      PROVE  call[r].pc \notin Final \/ row[r].status \in Live
  <2>1. r \in Calls
    BY DEF Calls
  <2> QED
    BY <1>1, <1>2, <2>1
<1>3. OneGoing'
  BY <1>1, <1>2, GoingKept DEF SerialInv
<1> QED
  BY <1>3, SerialQuiet

\* What fits into the month of the request fits into any later month: what the
\* first one spends, the carry of the second may lose, and no more.
LEMMA AdmitFits ==
  ASSUME IInv, SerialInv, NEW r \in Requests, call[r].pc = "decide", Unsettled(OpOf[r]), Covered(r)
  PROVE  \A x \in cycle..MaxCycle : Fits(OpOf[r], x)
<1> DEFINE m == call[r].month  K == Carry(m)  U == UsedSince(m)  C == Cost(OpOf[r])
<1>1. TypeOK /\ CallOK(r) /\ r \in Calls
  BY DEF IInv, Calls
<1>2. m \in 1..MaxCycle /\ m \in {cycle, cycle - 1}
  BY <1>1 DEF CallOK, Gate
<1>3. call[r].used = U /\ call[r].carried = K
  BY DEF SerialInv, Fresh
<1>4. U \in Nat /\ K \in 0..Allowance /\ C \in Nat \ {0} /\ Allowance \in Nat
  BY <1>1, <1>2, UsageTypes, OpOfType, CostType, Constants
<1>5. U + C <= Allowance + K
  BY <1>3, <1>4 DEF Covered
<1>6. cycle \in 1..MaxCycle /\ MaxCycle \in Nat
  BY <1>1, CycleType
<1> SUFFICES ASSUME NEW x \in cycle..MaxCycle
             PROVE  spent[x] + C <= Allowance + Carry(x)
  BY DEF Fits
<1>7. x \in 1..MaxCycle /\ x \in Cycles /\ x - 1 \in Cycles /\ spent[x] \in Nat /\ spent[x - 1] \in Nat
  BY <1>1, <1>6 DEF Cycles, TypeOK
<1>8. CASE x = m
  <2>1. spent[x] <= U
    <3>1. m < MaxCycle => m + 1 \in Cycles
      BY <1>2, <1>6 DEF Cycles
    <3>2. m < MaxCycle => spent[m + 1] \in Nat
      BY <1>1, <3>1 DEF TypeOK
    <3> QED
      BY <1>7, <1>8, <3>2 DEF UsedSince
  <2> QED
    BY <1>4, <1>5, <1>7, <1>8, <2>1
<1>9. CASE x # m
  <2>1. m < x /\ m < MaxCycle /\ m \in Nat
    BY <1>2, <1>6, <1>7, <1>9
  <2>2. U = spent[m] + spent[m + 1] /\ spent[m] \in Nat /\ spent[m + 1] \in Nat
    <3>1. m \in Cycles /\ m + 1 \in Cycles
      BY <1>2, <1>6, <2>1 DEF Cycles
    <3> QED
      BY <1>1, <2>1, <3>1 DEF UsedSince, TypeOK
  <2>3. spent[x] + spent[x - 1] <= U
    <3>1. CASE x = m + 1
      BY <2>1, <2>2, <3>1
    <3>2. CASE x # m + 1
      <4>1. x > cycle
        BY <1>2, <1>6, <1>7, <2>1, <3>2
      <4>2. spent[x] = 0
        BY <1>7, <4>1 DEF IInv, Ledger
      <4>3. CASE x - 1 = m + 1
        BY <2>2, <4>2, <4>3
      <4>4. CASE x - 1 # m + 1
        <5>1. x - 1 > cycle
          BY <1>2, <1>6, <1>7, <2>1, <3>2, <4>4
        <5>2. spent[x - 1] = 0
          BY <1>7, <5>1 DEF IInv, Ledger
        <5> QED
          BY <2>2, <4>2, <5>2
      <4> QED
        BY <4>3, <4>4
    <3> QED
      BY <3>1, <3>2
  <2>4. Carry(x) \in Nat /\ Carry(x) >= Allowance - spent[x - 1]
    BY <1>4, <1>7 DEF Carry, CarriedOver
  <2> HIDE DEF K, U, C, m
  <2> QED
    BY <1>4, <1>5, <1>7, <2>3, <2>4
<1> QED
  BY <1>8, <1>9

\* Start opens an upload only when no other is going.
LEMMA StartSerial ==
  ASSUME MaxOpen <= 1, IInv, SerialInv, NEW r \in Requests, Start(r)
  PROVE  SerialInv'
<1>1. TypeOK /\ r \in Calls /\ OpOf[r] \in Ops
  BY OpOfType DEF IInv, Calls
<1>2. PICK p, m : /\ p \in {"lookup", "used"}
                  /\ Now(r, p, m, call[r].used, call[r].carried, call[r].got)
  BY <1>1, StartStep
<1>3. Quiet
  BY <1>1, StartStep
<1>4. \A o \in Ops : Going(o) => o = OpOf[r]
  <2> DEFINE S == {o \in Ops : Going(o)} \cup {OpOf[r]}
  <2>1. Cardinality(S) <= MaxOpen
    BY DEF Start
  <2>2. S \subseteq Ops /\ IsFiniteSet(S)
    BY <1>1, Constants, FS_Subset
  <2>3. ASSUME NEW o \in S, o # OpOf[r] PROVE FALSE
    <3>1. {o, OpOf[r]} \subseteq S
      BY <2>3
    <3>2. Cardinality({o, OpOf[r]}) <= Cardinality(S) /\ Cardinality(S) \in Nat
      BY <2>2, <3>1, FS_Subset, FS_CardinalityType
    <3>3. Cardinality({o, OpOf[r]}) = 2
      <4>1. IsFiniteSet({o}) /\ Cardinality({o}) = 1
        BY FS_Singleton
      <4>2. {o, OpOf[r]} = {o} \cup {OpOf[r]} /\ OpOf[r] \notin {o}
        BY <2>3
      <4> QED
        BY <4>1, <4>2, FS_AddElement
    <3> QED
      BY <2>1, <3>2, <3>3, Constants
  <2> QED
    BY <2>3
<1>5. OneGoing'
  <2>1. ASSUME NEW o \in Ops, Going(o)' PROVE o = OpOf[r]
    <3>1. CASE o = OpOf[r]
      BY <3>1
    <3>2. CASE o # OpOf[r]
      <4>1. \A q \in Requests : OpOf[q] = o => call'[q] = call[q] /\ row'[q] = row[q]
        BY <1>2, <1>3, <3>2 DEF Now, Calls, Quiet
      <4>2. Going(o)
        BY <2>1, <4>1 DEF Going, Live
      <4> QED
        BY <1>4, <4>2
    <3> QED
      BY <3>1, <3>2
  <2> QED
    BY <2>1 DEF OneGoing
<1> QED
  BY <1>1, <1>2, <1>3, <1>5, SerialQuiet

\* The gate and what follows it.
LEMMA CallSerial ==
  ASSUME IInv, SerialInv, NEW r \in Requests,
         \/ Lookup(r) \/ Decide(r) \/ Winner(r) \/ Sign(r)
         \/ ReadUsed(r) \/ ReadPrior(r) \/ FindRollover(r) \/ BankRollover(r) \/ Abort(r)
  PROVE  SerialInv'
<1> DEFINE m == call[r].month
<1>1. TypeOK /\ r \in Calls /\ CallOK(r)
  BY DEF IInv, Calls
<1>2. Unsettled(OpOf[r]) =>
        /\ call[r].pc \in {"prior", "find", "bank", "decide"} => call[r].used = UsedSince(m)
        /\ call[r].pc \in {"find", "bank", "decide"} => call[r].carried = Carry(m)
  BY DEF SerialInv, Fresh
<1>3. ASSUME Quiet, call[r].pc \notin Final,
             NEW p \in {"sign", "used", "winner", "answered", "refused", "error"},
             NEW x, NEW u, NEW k, NEW g, Now(r, p, x, u, k, g)
      PROVE  SerialInv'
  BY <1>1, <1>3, SerialCall
<1>4. CASE Lookup(r)
  <2>1. Quiet /\ call[r].pc \notin Final
    BY <1>1, <1>4, LookupStep DEF Final
  <2> QED
    BY <1>1, <1>3, <1>4, <2>1, LookupStep
<1>5. CASE Decide(r)
  <2>1. Quiet /\ call[r].pc = "decide" /\ call[r].pc \notin Final
    BY <1>1, <1>5, DecideStep DEF Final
  <2>2. CASE Covered(r) /\ Now(r, "insert", 0, 0, 0, {})
    <3>1. Unsettled(OpOf[r]) => \A x \in cycle..MaxCycle : Fits(OpOf[r], x)
      BY <2>1, <2>2, AdmitFits
    <3> QED
      BY <1>1, <2>1, <2>2, <3>1, SerialCall
  <2> QED
    BY <1>1, <1>3, <1>5, <2>1, <2>2, DecideStep
<1>6. CASE Winner(r)
  <2>1. Quiet /\ call[r].pc \notin Final
    BY <1>1, <1>6, WinnerStep DEF Final
  <2> QED
    BY <1>1, <1>3, <1>6, <2>1, WinnerStep
<1>7. CASE Sign(r)
  <2>1. Quiet /\ call[r].pc \notin Final
    BY <1>1, <1>7, SignStep DEF Final
  <2> QED
    BY <1>1, <1>3, <1>7, <2>1, SignStep
<1>8. CASE ReadUsed(r) \/ ReadPrior(r) \/ FindRollover(r) \/ BankRollover(r) \/ Abort(r)
  <2>1. Quiet
    BY <1>1, <1>8, GateStep
  <2>2. ASSUME call[r].pc = "used",
               Now(r, "prior", m, UsedSince(m), call[r].carried, call[r].got)
        PROVE  SerialInv'
    BY <1>1, <2>1, <2>2, SerialCall DEF Final
  <2>3. ASSUME call[r].pc = "prior", NEW p \in {"find", "decide"},
               Now(r, p, m, call[r].used, Carry(m), call[r].got)
        PROVE  SerialInv'
    BY <1>1, <1>2, <2>1, <2>3, SerialCall DEF Final
  <2>4. ASSUME call[r].pc \in {"find", "bank"}, NEW p \in {"bank", "decide"},
               Now(r, p, m, call[r].used, call[r].carried, call[r].got)
        PROVE  SerialInv'
    BY <1>1, <1>2, <2>1, <2>4, SerialCall DEF Final
  <2>5. ASSUME Now(r, "error", 0, 0, 0, {}) PROVE SerialInv'
    BY <1>1, <2>1, <2>5, SerialCall DEF Final
  <2> QED
    BY <1>1, <1>8, <2>2, <2>3, <2>4, <2>5, GateStep
<1> QED
  BY <1>4, <1>5, <1>6, <1>7, <1>8

LEMMA ReaderSerial ==
  ASSUME IInv, SerialInv, NEW b \in Readers,
         \/ StartReader(b) \/ Report(b)
         \/ ReadUsed(b) \/ ReadPrior(b) \/ FindRollover(b) \/ BankRollover(b) \/ Abort(b)
  PROVE  SerialInv'
<1>1. TypeOK /\ b \in Calls /\ CallOK(b) /\ b \notin Requests
  BY Constants DEF IInv, Calls
<1>2. ASSUME Quiet, NEW p, NEW x, NEW u, NEW k, NEW g, Now(b, p, x, u, k, g)
      PROVE  SerialInv'
  BY <1>1, <1>2, SerialCall
<1>3. CASE StartReader(b) \/ Report(b)
  BY <1>1, <1>2, <1>3, ReportStep
<1>4. CASE ReadUsed(b) \/ ReadPrior(b) \/ FindRollover(b) \/ BankRollover(b) \/ Abort(b)
  BY <1>1, <1>2, <1>4, GateStep
<1> QED
  BY <1>3, <1>4

LEMMA InsertSerial ==
  ASSUME IInv, SerialInv, NEW r \in Requests, Insert(r)
  PROVE  SerialInv'
<1>1. TypeOK /\ r \in Calls /\ CallOK(r)
  BY DEF IInv, Calls
<1>2. /\ call[r].pc = "insert" /\ call[r].pc \notin Final /\ row[r].status = "absent"
      /\ UNCHANGED <<cycle, spent, rollover>>
  BY <1>1, InsertStep DEF CallOK, Before, Final
<1>3. CASE UNCHANGED row
  <2>1. Quiet
    BY <1>2, <1>3 DEF Quiet
  <2>2. ASSUME NEW p \in {"winner", "sign", "error"}, NEW x, NEW u, NEW k, NEW g,
               Now(r, p, x, u, k, g)
        PROVE  SerialInv'
    BY <1>1, <1>2, <2>1, <2>2, SerialCall
  <2> QED
    BY <1>1, <2>2, InsertStep
<1>4. CASE InsertRow(r)
  <2>1. PICK p, g : p \in {"sign", "error"} /\ Now(r, p, 0, 0, 0, g)
    <3>1. row'[r].status # row[r].status
      BY <1>1, <1>2, <1>4, InsertRowStep
    <3>2. Now(r, "sign", 0, 0, 0, {r}) \/ Now(r, "error", 0, 0, 0, {})
      BY <1>1, <3>1, InsertStep
    <3>3. CASE Now(r, "sign", 0, 0, 0, {r})
      BY <3>3
    <3>4. CASE Now(r, "error", 0, 0, 0, {})
      BY <3>4
    <3> QED
      BY <3>2, <3>3, <3>4
  <2>2. row'[r].status = "awaiting_upload" /\ \A q \in Requests \ {r} : row'[q] = row[q]
    BY <1>1, <1>4, InsertRowStep
  <2>3. call'[r].pc = p /\ \A q \in Requests \ {r} : call'[q] = call[q]
    BY <2>1 DEF Now, Calls
  <2>4. OneGoing'
    <3>1. ASSUME NEW q \in Requests, call'[q].pc \notin Final \/ row'[q].status \in Live
          PROVE  call[q].pc \notin Final \/ row[q].status \in Live
      BY <1>2, <2>2, <2>3, <3>1
    <3>2. ASSUME NEW q \in Requests, row[q].status \in Settled PROVE row'[q].status \in Settled
      BY <1>2, <2>2, <3>2 DEF Settled
    <3> QED
      BY <3>1, <3>2, GoingKept DEF SerialInv
  <2>5. OnceSubmitted' /\ DueFits' /\ WithinLimit'
    BY <1>2, <2>2 DEF SerialInv, OnceSubmitted, Submitted, DueFits, Fits, WithinLimit, Carry
  <2>6. \A o : Unsettled(o)' => Unsettled(o)
    BY <1>2, <2>2 DEF Unsettled
  <2>7. Fresh'
    <3>1. ASSUME NEW q \in Requests, Unsettled(OpOf[q])'
          PROVE  /\ call'[q].pc \in {"prior", "find", "bank", "decide"} =>
                      call'[q].used = UsedSince(call'[q].month)
                 /\ call'[q].pc \in {"find", "bank", "decide"} =>
                      call'[q].carried = Carry(call'[q].month)
      BY <2>1, <2>3, <2>6, <3>1 DEF SerialInv, Fresh
    <3> QED
      BY <1>2, <3>1 DEF Fresh, UsedSince, Carry
  <2>8. AdmittedFits'
    <3>1. ASSUME NEW q \in Requests, Unsettled(OpOf[q])',
                 call'[q].pc = "insert" \/ row'[q].status \in {"awaiting_upload", "processing"}
          PROVE  \A x \in cycle..MaxCycle : Fits(OpOf[q], x)
      <4>1. Unsettled(OpOf[q])
        BY <2>6, <3>1
      <4>2. call[q].pc = "insert" \/ row[q].status \in {"awaiting_upload", "processing"}
        BY <1>2, <2>2, <2>3, <3>1
      <4> QED
        BY <4>1, <4>2 DEF SerialInv, AdmittedFits
    <3> QED
      BY <1>2, <3>1 DEF AdmittedFits, Fits, Carry
  <2> QED
    BY <2>4, <2>5, <2>7, <2>8 DEF SerialInv
<1> QED
  BY <1>1, <1>3, <1>4, InsertStep

\* A live row is the row of the upload that is going, and no other request of
\* that upload was submitted.
LEMMA LiveRow ==
  ASSUME SerialInv, NEW r \in Requests, row[r].status \in {"processing", "complete"}
  PROVE  Unsettled(OpOf[r]) /\ Going(OpOf[r])
<1>1. Unsettled(OpOf[r])
  BY DEF SerialInv, OnceSubmitted, Submitted, Unsettled
<1> QED
  BY <1>1 DEF Unsettled, Going, Live

\* The steps of a row that charge nothing.
LEMMA RowSerial ==
  ASSUME IInv, SerialInv, NEW r \in Requests, Submit(r) \/ Fail(r) \/ Complete(r)
  PROVE  SerialInv'
<1>1. TypeOK /\ OpOf[r] \in Ops
  BY OpOfType DEF IInv
<1>2. PICK st, vu, m :
        /\ st \in {"processing", "failed", "complete"}
        /\ Became(r, st, vu, row[r].charged, m)
        /\ \/ /\ st = "processing" /\ row[r].status = "awaiting_upload"
              /\ \A q \in Requests : OpOf[q] = OpOf[r] => row[q].status \in {"absent", "awaiting_upload"}
           \/ st = "failed" /\ row[r].status = "processing"
           \/ st = "complete" /\ row[r].status = "processing" /\ m = cycle
  BY <1>1, SubmitStep, FailStep, CompleteStep
<1>3. UNCHANGED <<cycle, spent, rollover, call>>
  BY DEF Submit, Fail, Complete
<1>4. row'[r].status = st /\ row'[r].month = m /\ \A q \in Requests \ {r} : row'[q] = row[q]
  BY <1>2 DEF Became
<1>5. row[r].status \in {"awaiting_upload", "processing"}
  BY <1>2
<1>6. \A o : Unsettled(o)' => Unsettled(o)
  BY <1>4, <1>5 DEF Unsettled
<1>7. OneGoing'
  <2>1. ASSUME NEW q \in Requests, call'[q].pc \notin Final \/ row'[q].status \in Live
        PROVE  call[q].pc \notin Final \/ row[q].status \in Live
    BY <1>3, <1>4, <1>5, <2>1 DEF Live
  <2>2. ASSUME NEW q \in Requests, row[q].status \in Settled PROVE row'[q].status \in Settled
    BY <1>4, <1>5, <2>2 DEF Settled
  <2> QED
    BY <2>1, <2>2, GoingKept DEF SerialInv
<1>8. OnceSubmitted'
  <2>1. ASSUME NEW q \in Requests, NEW w \in Requests, OpOf[q] = OpOf[w],
               row'[q].status \in Submitted, row'[w].status \in Submitted, q # w
        PROVE  FALSE
    <3>1. \A v \in Requests \ {r} : row'[v].status \in Submitted => row[v].status \in Submitted
      BY <1>4
    <3>2. CASE q # r /\ w # r
      BY <2>1, <3>1, <3>2 DEF SerialInv, OnceSubmitted
    <3>3. CASE row[r].status = "awaiting_upload"
      <4>1. \A v \in Requests : OpOf[v] = OpOf[r] => row[v].status \notin Submitted
        BY <1>2, <3>3 DEF Submitted
      <4> QED
        BY <2>1, <3>1, <3>2, <4>1
    <3>4. CASE row[r].status = "processing"
      <4>1. row[r].status \in Submitted
        BY <3>4 DEF Submitted
      <4> QED
        BY <2>1, <3>1, <3>2, <4>1 DEF SerialInv, OnceSubmitted
    <3> QED
      BY <1>5, <3>3, <3>4
  <2> QED
    BY <2>1 DEF OnceSubmitted
<1>9. Fresh'
  BY <1>3, <1>6 DEF SerialInv, Fresh, UsedSince, Carry
<1>10. AdmittedFits'
  <2>1. ASSUME NEW q \in Requests, Unsettled(OpOf[q])',
               call[q].pc = "insert" \/ row'[q].status \in {"awaiting_upload", "processing"}
        PROVE  \A x \in cycle..MaxCycle : Fits(OpOf[q], x)
    <3>1. call[q].pc = "insert" \/ row[q].status \in {"awaiting_upload", "processing"}
      BY <1>4, <1>5, <2>1
    <3>2. Unsettled(OpOf[q])
      BY <1>6, <2>1
    <3> QED
      BY <3>1, <3>2 DEF SerialInv, AdmittedFits
  <2> QED
    BY <1>3, <2>1 DEF AdmittedFits, Fits, Carry
<1>11. DueFits'
  <2>1. ASSUME NEW q \in Requests, row'[q].status = "complete"
        PROVE  /\ Fits(OpOf[q], row'[q].month)
               /\ \A x \in Cycles : x > row'[q].month => spent[x] = 0
    <3>1. CASE q = r
      <4>1. row[r].status = "processing" /\ m = cycle
        BY <1>2, <1>4, <2>1, <3>1
      <4>2. cycle \in cycle..MaxCycle
        BY <1>1, CycleType
      <4>3. Fits(OpOf[r], cycle)
        BY <4>1, <4>2, LiveRow DEF SerialInv, AdmittedFits
      <4> QED
        BY <1>4, <3>1, <4>1, <4>3 DEF IInv, Ledger
    <3>2. CASE q # r
      BY <1>4, <2>1, <3>2 DEF SerialInv, DueFits
    <3> QED
      BY <3>1, <3>2
  <2> QED
    BY <1>3, <2>1 DEF DueFits, Fits, Carry
<1>12. WithinLimit'
  BY <1>3 DEF SerialInv, WithinLimit, Carry
<1> QED
  BY <1>7, <1>8, <1>9, <1>10, <1>11, <1>12 DEF SerialInv

\* The charge of the upload that is going: it fits, no other is waiting for its
\* own, and afterwards nothing is going.
LEMMA ChargeSerial ==
  ASSUME IInv, SerialInv, NEW r \in Requests, Charge(r)
  PROVE  SerialInv'
<1> DEFINE m == row[r].month  o == OpOf[r]
<1>1. TypeOK /\ o \in Ops
  BY OpOfType DEF IInv
<1>2. row[r].status = "complete" /\ UNCHANGED <<cycle, rollover, call>>
  BY <1>1, ChargeStep
<1>3. row'[r].status = "settled" /\ \A q \in Requests \ {r} : row'[q] = row[q]
  BY <1>1, ChargeStep DEF Became
<1>4. UNCHANGED spent \/ spent' = [spent EXCEPT ![m] = @ + Cost(o)]
  BY <1>1, ChargeStep
<1>5. m \in 1..MaxCycle /\ m \in Cycles
  BY <1>2, Constants DEF IInv, Ledger, Cycles
<1>6. Going(o) /\ Unsettled(o)
  BY <1>2, LiveRow
<1>7. \A p : Unsettled(p)' => Unsettled(p) /\ p # o
  BY <1>2, <1>3 DEF Unsettled
<1>8. ASSUME NEW q \in Requests, Unsettled(OpOf[q])'
      PROVE  call[q].pc \in Final /\ row'[q].status \notin Live
  <2>1. Unsettled(OpOf[q]) /\ OpOf[q] # o /\ OpOf[q] \in Ops /\ q # r
    BY <1>7, <1>8, OpOfType
  <2>2. ~Going(OpOf[q])
    BY <1>1, <1>6, <2>1 DEF SerialInv, OneGoing
  <2> QED
    BY <1>3, <2>1, <2>2 DEF Going, Unsettled, Final
<1>9. OneGoing'
  <2>1. ASSUME NEW q \in Requests, call'[q].pc \notin Final \/ row'[q].status \in Live
        PROVE  call[q].pc \notin Final \/ row[q].status \in Live
    BY <1>2, <1>3, <2>1 DEF Live
  <2>2. ASSUME NEW q \in Requests, row[q].status \in Settled PROVE row'[q].status \in Settled
    BY <1>2, <1>3, <2>2 DEF Settled
  <2> QED
    BY <2>1, <2>2, GoingKept DEF SerialInv
<1>10. OnceSubmitted'
  BY <1>2, <1>3 DEF SerialInv, OnceSubmitted, Submitted
<1>11. Fresh'
  BY <1>2, <1>8 DEF Fresh, Final
<1>12. AdmittedFits'
  BY <1>2, <1>8 DEF AdmittedFits, Final, Live
<1>13. DueFits'
  <2>1. ASSUME NEW q \in Requests, row'[q].status = "complete" PROVE FALSE
    <3>1. q # r /\ row[q].status = "complete"
      BY <1>3, <2>1
    <3>2. Going(OpOf[q]) /\ OpOf[q] \in Ops
      BY <3>1, LiveRow, OpOfType
    <3>3. OpOf[q] = o
      BY <1>1, <1>6, <3>2 DEF SerialInv, OneGoing
    <3> QED
      BY <1>2, <3>1, <3>3 DEF SerialInv, OnceSubmitted, Submitted
  <2> QED
    BY <2>1 DEF DueFits
<1>14. WithinLimit'
  <2>1. CASE UNCHANGED spent
    BY <2>1 DEF SerialInv, WithinLimit, Carry
  <2>2. CASE spent' = [spent EXCEPT ![m] = @ + Cost(o)]
    <3> SUFFICES ASSUME NEW x \in 1..MaxCycle PROVE spent'[x] <= Allowance + CarryNext(x)
      BY DEF WithinLimit, Carry, CarryNext
    <3>1. x \in Cycles /\ x - 1 \in Cycles /\ x \in Nat /\ Allowance \in Nat /\ Carry(x) \in Nat
      BY <1>1, Constants, UsageTypes
    <3>2. spent \in [Cycles -> Nat] /\ Cost(o) \in Nat /\ spent[x] \in Nat
      BY <1>1, <3>1, CostType DEF TypeOK
    <3>3. CASE x = m
      <4>1. spent'[x] = spent[x] + Cost(o) /\ spent'[x - 1] = spent[x - 1]
        BY <1>5, <2>2, <3>1, <3>2, <3>3
      <4>2. Fits(o, m)
        BY <1>2 DEF SerialInv, DueFits
      <4> QED
        BY <3>3, <4>1, <4>2 DEF Fits, Carry, CarryNext
    <3>4. CASE x - 1 = m
      <4>1. spent[x] = 0
        BY <1>2, <1>5, <3>1, <3>4 DEF SerialInv, DueFits
      <4>2. spent'[x] = 0
        BY <1>5, <2>2, <3>1, <3>2, <3>4, <4>1
      <4>3. Grown
        BY <1>2, <2>2, ChargeGrows
      <4> QED
        BY <1>1, <3>1, <4>2, <4>3, GrownLedger
    <3>5. CASE x # m /\ x - 1 # m
      <4>1. spent'[x] = spent[x] /\ spent'[x - 1] = spent[x - 1]
        BY <2>2, <3>1, <3>2, <3>5
      <4> QED
        BY <4>1 DEF SerialInv, WithinLimit, Carry, CarryNext
    <3> QED
      BY <3>3, <3>4, <3>5
  <2> QED
    BY <1>4, <2>1, <2>2
<1> QED
  BY <1>9, <1>10, <1>11, <1>12, <1>13, <1>14 DEF SerialInv

LEMMA MonthSerial ==
  ASSUME IInv, SerialInv, MonthTurns
  PROVE  SerialInv'
<1>1. cycle' = cycle + 1 /\ UNCHANGED <<spent, rollover, row, call>> /\ cycle \in Nat /\ MaxCycle \in Nat
  BY CycleType DEF MonthTurns, IInv
<1>2. OneGoing' /\ OnceSubmitted' /\ DueFits' /\ WithinLimit'
  BY <1>1 DEF SerialInv, OneGoing, Going, Live, OnceSubmitted, Submitted, DueFits, Fits,
              WithinLimit, Carry
<1>3. Fresh'
  BY <1>1 DEF SerialInv, Fresh, Unsettled, UsedSince, Carry
<1>4. AdmittedFits'
  <2>1. \A x \in cycle'..MaxCycle : x \in cycle..MaxCycle
    BY <1>1
  <2> QED
    BY <1>1, <2>1 DEF SerialInv, AdmittedFits, Unsettled, Fits, Carry
<1> QED
  BY <1>2, <1>3, <1>4 DEF SerialInv

LEMMA NextSerial ==
  ASSUME MaxOpen <= 1, IInv, SerialInv, [Next]_vars
  PROVE  SerialInv'
<1>1. ASSUME UNCHANGED vars PROVE SerialInv'
  <2>1. UNCHANGED <<cycle, spent, row, call>>
    BY <1>1 DEF vars
  <2> QED
    BY <2>1 DEF SerialInv, OneGoing, Going, Live, OnceSubmitted, Submitted, Fresh, Unsettled,
                AdmittedFits, DueFits, Fits, WithinLimit, UsedSince, Carry
<1> QED
  BY <1>1, StartSerial, CallSerial, ReaderSerial, InsertSerial, RowSerial, ChargeSerial,
     MonthSerial DEF Next, Calls

\* The gate is a hard stop for a client that settles one upload before it starts
\* the next, however often it sends a request again and whenever a month ends.
\* With two uploads at once it is not: the run intake_parallel.
THEOREM SerialClientStaysWithinLimit == MaxOpen <= 1 => (Spec => []WithinLimit)
<1> SUFFICES ASSUME MaxOpen <= 1 PROVE Spec => []WithinLimit
  OBVIOUS
<1>1. Init => SerialInv
  BY InitSerial
<1>2. IInv /\ SerialInv /\ [Next]_vars => SerialInv'
  BY NextSerial
<1>3. SerialInv => WithinLimit
  BY DEF SerialInv
<1> QED
  BY <1>1, <1>2, <1>3, Invariant, PTL DEF Spec
=============================================================================
