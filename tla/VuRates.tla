------------------------------- MODULE VuRates -------------------------------
(***************************************************************************)
(* The rate card of the Verification Unit meter: the pure functions at the *)
(* top of backend/src/billing/billing.service.ts. Sizes are in MiB, image  *)
(* sizes in megapixels; the code's fractions are kept over a common        *)
(* denominator so that its Math.ceil is exact here.                        *)
(***************************************************************************)
EXTENDS Integers

Depths == {"quick", "standard", "deep"}

BaseCost == [quick |-> 1, standard |-> 10, deep |-> 100]

\* VU_SIZE_MULTIPLIERS, with twice the multiplier: 1.0, 1.5, 2.5, 4.0, 6.0.
SizeTiers == { [min |-> 0,   twice |-> 2], [min |-> 1,   twice |-> 3],
               [min |-> 5,   twice |-> 5], [min |-> 20,  twice |-> 8],
               [min |-> 100, twice |-> 12] }

\* find() over tiers listed from the largest down: the highest one reached.
TwiceSizeMultiplier(mib) ==
  (CHOOSE t \in SizeTiers :
     /\ t.min <= mib
     /\ \A u \in SizeTiers : u.min <= mib => u.min <= t.min).twice

\* resolutionFactor in 24ths: 1.0 up to 2 MP, 3.0 from 50 MP, and
\* 1 + 2 (mp - 2) / 48 in between. 0 stands for a missing dimension.
Resolution24(mp) == IF mp <= 2 THEN 24 ELSE IF mp >= 50 THEN 72 ELSE mp + 22

CeilDiv(n, d) == (n + d - 1) \div d

\* vuCostForDepth
VuCost(depth, mib, mp) ==
  CeilDiv(BaseCost[depth] * TwiceSizeMultiplier(mib) * Resolution24(mp), 48)

\* Bug variant of CarriedOver: the unused balance is not clamped at 0.
CarriedOverUnclamped(allowance, used) == allowance - used

\* carriedOverUnits, VU_ROLLOVER_MULTIPLIER = 1: what a cycle left unused, at
\* most one allowance.
CarriedOver(allowance, used) ==
  IF used >= allowance THEN 0 ELSE allowance - used
=============================================================================
