---------------------------- MODULE RiskService ----------------------------
(***************************************************************************)
(* compliance-risk around its decision function, for one user: payments are *)
(* announced on the bus (by payment-orchestrator), a consumer appends them  *)
(* to the activity ledger, time moves them out of the windows, and an       *)
(* evaluation reads the tier and the windows before it writes its score and *)
(* flag.  An age counts the windows that a row has left: 0 is within the    *)
(* hour, 1 within 24 hours, 2 within the AML window (30 days).              *)
(***************************************************************************)
EXTENDS FiniteSets, Sequences, TLC, RiskEngine

CONSTANTS
    Announced,      \* payments: records [id, user, amount]; user is FALSE if the payload names none
    Questions,      \* what evaluations ask: records [action, amount, geo_mismatch]
    Evaluators,     \* evaluations in progress at a time
    MaxEvaluations, MaxAgeings,
    MaxRiskTroubles \* bound on redeliveries and changes of tier

VARIABLES
    kycTier,      \* the tier in kyc_records
    announced,    \* payment.initiated events on the bus, in order
    handled,      \* events that the consumer has handled
    activity,     \* the activity ledger: rows [payment, age]
    evaluation,   \* evaluations in progress
    scores,       \* risk_scores with the flags they raised
    evaluations, ageings, riskTroubles

riskVars == <<kycTier, announced, handled, activity, evaluation, scores, evaluations, ageings, riskTroubles>>

NoEvaluation == [stage |-> "none"]

-----------------------------------------------------------------------------
(* payment-orchestrator announces a payment once. *)
Announce(pay) ==
    /\ \A i \in DOMAIN announced : announced[i] # pay
    /\ announced' = Append(announced, pay)
    /\ UNCHANGED <<kycTier, handled, activity, evaluation, scores, evaluations, ageings, riskTroubles>>

(* record_activity: nothing in a row identifies the event it comes from. *)
RecordActivity(pay) == Append(activity, [payment |-> pay, age |-> 0])

(* An event without a user is dropped. *)
ConsumePayment ==
    /\ handled < Len(announced)
    /\ handled' = handled + 1
    /\ activity' = IF announced[handled + 1].user THEN RecordActivity(announced[handled + 1]) ELSE activity
    /\ UNCHANGED <<kycTier, announced, evaluation, scores, evaluations, ageings, riskTroubles>>

(* The consumer restarts after the insert and before its offset is committed. *)
PaymentRedelivered ==
    /\ handled > 0 /\ riskTroubles < MaxRiskTroubles
    /\ handled' = handled - 1 /\ riskTroubles' = riskTroubles + 1
    /\ UNCHANGED <<kycTier, announced, activity, evaluation, scores, evaluations, ageings>>

(* All rows leave one window. *)
TimePasses ==
    /\ ageings < MaxAgeings /\ ageings' = ageings + 1
    /\ activity' = [i \in DOMAIN activity |-> [activity[i] EXCEPT !.age = @ + 1]]
    /\ UNCHANGED <<kycTier, announced, handled, evaluation, scores, evaluations, riskTroubles>>

(* The KYC service writes another tier. *)
TierChanges(t) ==
    /\ t # kycTier /\ kycTier' = t
    /\ riskTroubles < MaxRiskTroubles /\ riskTroubles' = riskTroubles + 1
    /\ UNCHANGED <<announced, handled, activity, evaluation, scores, evaluations, ageings>>

-----------------------------------------------------------------------------
(* count_activity_since. *)
CountSince(age) == Cardinality({i \in DOMAIN activity : activity[i].age <= age})

(* Mutant: the sum over the last 24 hours. *)
SumLastDay(age) ==
    LET row == {i \in DOMAIN activity : activity[i].age <= 1}
        Sum[S \in SUBSET row] == IF S = {} THEN 0
            ELSE LET i == CHOOSE j \in S : TRUE IN activity[i].payment.amount + Sum[S \ {i}]
    IN  Sum[row]

(* sum_amount_since. *)
SumSince(age) ==
    LET row == {i \in DOMAIN activity : activity[i].age <= age}
        Sum[S \in SUBSET row] == IF S = {} THEN 0
            ELSE LET i == CHOOSE j \in S : TRUE IN activity[i].payment.amount + Sum[S \ {i}]
    IN  Sum[row]

(* evaluate reads the tier first. *)
BeginEvaluate(e, q) ==
    /\ evaluation[e] = NoEvaluation
    /\ evaluations < MaxEvaluations /\ evaluations' = evaluations + 1
    /\ evaluation' = [evaluation EXCEPT ![e] = [stage |-> "tier", ask |-> q, tier |-> kycTier]]
    /\ UNCHANGED <<kycTier, announced, handled, activity, scores, ageings, riskTroubles>>

(* Then the windows: known is what the ledger held of distinct payments. *)
ReadWindows(e) ==
    LET request == evaluation[e]
    IN  /\ request.stage = "tier"
        /\ evaluation' = [evaluation EXCEPT ![e] =
               [stage |-> "decide",
                known |-> {activity[i].payment : i \in {j \in DOMAIN activity : activity[j].age <= 2}},
                in |-> [action |-> request.ask.action, amount |-> request.ask.amount,
                        geo_mismatch |-> request.ask.geo_mismatch, tier |-> request.tier,
                        count_1h |-> CountSince(0), count_24h |-> CountSince(1),
                        cumulative |-> SumSince(2)]]]
        /\ UNCHANGED <<kycTier, announced, handled, activity, scores, evaluations, ageings, riskTroubles>>

(* The reasons in the order the engine appends them. *)
Reasons(in) ==
    LET If(holds, code, weight) == IF holds THEN <<[code |-> code, weight |-> weight]>> ELSE <<>>
    IN  If(LowKyc(in), "LOW_KYC", 10) \o If(AmlCrossed(in), "AML_THRESHOLD", 10)
        \o If(OverCeiling(in), "AMOUNT_OVER_TIER_CEILING", 6)
        \o If(Velocity24hWeight(in) > 0, "VELOCITY_24H", Velocity24hWeight(in))
        \o If(Velocity1hWeight(in) > 0, "VELOCITY_1H", 3) \o If(in.geo_mismatch, "GEO_MISMATCH", 3)

KIND_BY_REASON(code) ==
    CASE code \in {"AML_THRESHOLD", "VELOCITY_24H", "VELOCITY_1H"} -> "velocity"
      [] code = "GEO_MISMATCH" -> "geo"
      [] OTHER -> "none"

(* Mutant: the lightest reason decides. *)
LightestKind(reasons) ==
    LET sorted == SortSeq(reasons, LAMBDA r, s : r.weight < s.weight)
        kinds == SelectSeq([i \in DOMAIN sorted |-> KIND_BY_REASON(sorted[i].code)], LAMBDA k : k # "none")
    IN  IF kinds = <<>> THEN "manual" ELSE Head(kinds)

(* _dominant_kind: the heaviest reason that has a kind; ties keep the first. *)
DominantKind(reasons) ==
    LET sorted == SortSeq(reasons, LAMBDA r, s : r.weight > s.weight)
        kinds == SelectSeq([i \in DOMAIN sorted |-> KIND_BY_REASON(sorted[i].code)], LAMBDA k : k # "none")
    IN  IF kinds = <<>> THEN "manual" ELSE Head(kinds)

(* _raise_flag; an allowed action raises none. *)
FlagOf(in) == IF Evaluate(in) = "allow" THEN "none" ELSE DominantKind(Reasons(in))

(* The score, the flag and the events are committed together. *)
CommitScore(e) ==
    LET in == evaluation[e].in
    IN  /\ evaluation[e].stage = "decide"
        /\ scores' = scores \cup
               {[in |-> in, known |-> evaluation[e].known, decision |-> Evaluate(in), flag |-> FlagOf(in)]}
        /\ evaluation' = [evaluation EXCEPT ![e] = NoEvaluation]
        /\ UNCHANGED <<kycTier, announced, handled, activity, evaluations, ageings, riskTroubles>>

-----------------------------------------------------------------------------
RiskInit ==
    /\ kycTier \in 0..2 /\ announced = <<>> /\ handled = 0 /\ activity = <<>>
    /\ evaluation = [e \in Evaluators |-> NoEvaluation]
    /\ scores = {} /\ evaluations = 0 /\ ageings = 0 /\ riskTroubles = 0

RiskNext ==
    \/ \E pay \in Announced : Announce(pay)
    \/ ConsumePayment \/ PaymentRedelivered \/ TimePasses
    \/ \E t \in 0..2 : TierChanges(t)
    \/ \E e \in Evaluators :
           \/ \E q \in Questions : BeginEvaluate(e, q)
           \/ ReadWindows(e) \/ CommitScore(e)

RiskSpec == RiskInit /\ [][RiskNext]_riskVars

-----------------------------------------------------------------------------
(* Properties.                                                             *)

Amount(S) == LET Sum[T \in SUBSET S] == IF T = {} THEN 0
                     ELSE LET p == CHOOSE q \in T : TRUE IN p.amount + Sum[T \ {p}]
             IN  Sum[S]

(* The AML rule: a value action that is not blocked for a user below tier 2 *)
(* stays, with the payments of the last 30 days that the ledger held when   *)
(* the evaluation read it, below the threshold; a payment counted twice     *)
(* only makes the rule stricter.                                            *)
AmlEnforced ==
    \A s \in scores : s.decision # "block" /\ s.in.action \in VALUE_ACTIONS /\ s.in.tier < 2 =>
        Amount(s.known) + s.in.amount < AmlThreshold

(* A riskier question is never answered more leniently, compared over every *)
(* two evaluations whatever the ledger held at the time of each.            *)
DecisionsMonotone ==
    \A r, s \in scores : Riskier(r.in, s.in) => Severity(r.decision) >= Severity(s.decision)

(* _dominant_kind: a flag is "velocity" if velocity or the AML rule had a   *)
(* part in it, and "geo" only if nothing but the country had.               *)
FlagKindRight ==
    \A s \in scores : s.flag \notin {"none", "manual"} =>
        (s.flag = "velocity" <=> \/ AmlCrossed(s.in) \/ s.in.count_24h >= VelocityReview24h
                                 \/ s.in.count_1h >= VelocityReview1h)

(* "the handler is idempotent (the ledger insert is keyed off the event so  *)
(* duplicates collapse)": a payment is counted once.                        *)
ActivityCountedOnce ==
    \A i, j \in DOMAIN activity : activity[i].payment = activity[j].payment => i = j

(* What evaluate decides while payments arrive between its queries: no      *)
(* value action passes the AML threshold below tier 2, no riskier question  *)
(* gets a milder answer, and the flag names the dominant reason.            *)
DecisionsSound ==
    AmlEnforced /\ DecisionsMonotone /\ FlagKindRight
=============================================================================
