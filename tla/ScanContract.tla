---------------------------- MODULE ScanContract ----------------------------
(***************************************************************************)
(* What the scan pipeline promises its callers, without its database,      *)
(* queue or workers: every scan walks the lifecycle                        *)
(*                                                                         *)
(*   awaiting_upload -> queued -> processing -> complete                   *)
(*                                                                         *)
(* a submitted scan may land in failed instead, a terminal status is never *)
(* left, and the verification units of a scan are charged at most once and *)
(* only after it completed.                                                *)
(*                                                                         *)
(* Source: the lifecycle of docs/skills/provance-bullmq-redis-queue, the   *)
(* deduct-on-complete rule of BILLING_AND_ENTITLEMENTS_CONTRACT.md, and    *)
(* the code of submitScan, runScanProcessing and markScanFailed in         *)
(* backend/src/scans/scans.service.ts that keeps them.                     *)
(***************************************************************************)
EXTENDS Naturals

CONSTANT Scans      \* the scan rows

VARIABLES phase,    \* phase[s]: the status a reader of scan s sees
          charged   \* charged[s]: package rows the VU ledger holds for s

cvars == <<phase, charged>>

Phases == {"awaiting_upload", "queued", "processing", "complete", "failed"}

Init == /\ phase = [s \in Scans |-> "awaiting_upload"]
        /\ charged = [s \in Scans |-> 0]

Move(s, from, to) == /\ phase[s] \in from
                     /\ phase' = [phase EXCEPT ![s] = to]
                     /\ UNCHANGED charged

Submit(s) == Move(s, {"awaiting_upload"}, "queued")
Begin(s)  == Move(s, {"queued"}, "processing")
Finish(s) == Move(s, {"processing"}, "complete")
Fail(s)   == Move(s, {"queued", "processing"}, "failed")

Charge(s) == /\ phase[s] = "complete"
             /\ charged[s] = 0
             /\ charged' = [charged EXCEPT ![s] = 1]
             /\ UNCHANGED phase

Next == \E s \in Scans :
          Submit(s) \/ Begin(s) \/ Finish(s) \/ Fail(s) \/ Charge(s)

Spec == Init /\ [][Next]_cvars
=============================================================================
