----------------------------- MODULE RiskEngine -----------------------------
(***************************************************************************)
(* The pure decision function of compliance-risk (risk_engine.evaluate).    *)
(* Inputs are records [action, tier, amount, cumulative, count_1h,          *)
(* count_24h, geo_mismatch]; an amount that is absent is 0, which every     *)
(* rule treats alike.  Weights and scores are in tenths.                    *)
(***************************************************************************)
EXTENDS Integers

CONSTANTS
    Ceiling0, Ceiling1, Ceiling2,  \* per-transaction ceilings of the tiers
    AmlThreshold,
    VelocityBlock24h, VelocityReview24h, VelocityReview1h,
    ScoreBlock, ScoreReview

ASSUME RiskEngineAssumption ==
    /\ {Ceiling0, Ceiling1, Ceiling2, AmlThreshold, VelocityBlock24h, VelocityReview24h,
        VelocityReview1h, ScoreBlock, ScoreReview} \subseteq Nat
    /\ Ceiling0 <= Ceiling1 /\ Ceiling1 <= Ceiling2
    /\ VelocityReview24h <= VelocityBlock24h

VALUE_ACTIONS == {"paylink.create", "payment.initiate", "withdraw"}

IsValueAction(in) == in.action \in VALUE_ACTIONS

(* Mutant: an unset ceiling of tier 2 is read as 0. *)
Tier2Unset(tier) == IF tier = 1 THEN Ceiling1 ELSE Ceiling0

(* _ceiling_for: an unknown tier has the ceiling of tier 0. *)
CeilingFor(tier) == IF tier = 2 THEN Ceiling2 ELSE IF tier = 1 THEN Ceiling1 ELSE Ceiling0

(* The hard rules. *)
LowKyc(in) == IsValueAction(in) /\ in.tier <= 0 /\ in.amount > 0

AmlCrossed(in) == IsValueAction(in) /\ in.tier < 2 /\ in.cumulative + in.amount >= AmlThreshold

OverCeiling(in) == IsValueAction(in) /\ in.amount > CeilingFor(in.tier)

(* The soft signals. *)
Velocity24hWeight(in) ==
    IF in.count_24h >= VelocityBlock24h THEN 8
    ELSE IF in.count_24h >= VelocityReview24h THEN 4 ELSE 0

Velocity1hWeight(in) == IF in.count_1h >= VelocityReview1h THEN 3 ELSE 0

GeoWeight(in) == IF in.geo_mismatch THEN 3 ELSE 0

HardWeight(in) ==
    (IF LowKyc(in) THEN 10 ELSE 0) + (IF AmlCrossed(in) THEN 10 ELSE 0) + (IF OverCeiling(in) THEN 6 ELSE 0)

Weight(in) == Velocity24hWeight(in) + Velocity1hWeight(in) + GeoWeight(in) + HardWeight(in)

Score(in) == IF Weight(in) < 10 THEN Weight(in) ELSE 10

HardBlock(in) == LowKyc(in) \/ AmlCrossed(in)

HardReview(in) == OverCeiling(in) \/ in.count_24h >= VelocityBlock24h

Evaluate(in) ==
    IF HardBlock(in) \/ Score(in) >= ScoreBlock THEN "block"
    ELSE IF HardReview(in) \/ Score(in) >= ScoreReview THEN "review"
    ELSE "allow"

Severity(decision) == IF decision = "block" THEN 2 ELSE IF decision = "review" THEN 1 ELSE 0

(* One input is at least as suspicious as another: no smaller amount, sum   *)
(* or count, no higher tier.                                                *)
Riskier(a, b) ==
    /\ a.action = b.action
    /\ a.tier <= b.tier /\ a.amount >= b.amount /\ a.cumulative >= b.cumulative
    /\ a.count_1h >= b.count_1h /\ a.count_24h >= b.count_24h
    /\ b.geo_mismatch => a.geo_mismatch
=============================================================================
