----------------------------- MODULE MCPayments -----------------------------
(***************************************************************************)
(* The services on a payment's way and the log of what was done, in one    *)
(* run: each behaviour is one of one service, and the others stay in their *)
(* initial states.                                                         *)
(***************************************************************************)
EXTENDS PayLinkService, FeeQuotes, DoubleEntry, RiskService, Paging, AuditLog, TLC

VARIABLE selected   \* the service of this behaviour

serviceVars ==
    <<payLinkVars, quoteVars, ledgerVars, riskVars, pagingVars, auditVars,
      selected>>

PaymentsInit ==
    /\ selected \in {"paylink", "fees", "ledger", "risk", "paging", "audit"}
    /\ PayLinkInit /\ QuoteInit /\ LedgerInit /\ RiskInit /\ PagingInit /\ AuditInit
    /\ selected # "paging" => listing = [by |-> "keyset", filtered |-> FALSE]
    /\ selected # "risk" => kycTier = 0

Unmoved(name, v) == selected # name => UNCHANGED v

PaymentsNext ==
    /\ UNCHANGED selected
    /\ \/ selected = "paylink" /\ PayLinkNext
       \/ selected = "fees"    /\ QuoteNext
       \/ selected = "ledger"  /\ LedgerNext
       \/ selected = "risk"    /\ RiskNext
       \/ selected = "paging"  /\ PagingNext
       \/ selected = "audit"   /\ AuditNext
    /\ Unmoved("paylink", payLinkVars) /\ Unmoved("fees", quoteVars)
    /\ Unmoved("ledger", ledgerVars) /\ Unmoved("risk", riskVars)
    /\ Unmoved("paging", pagingVars) /\ Unmoved("audit", auditVars)

PaymentsSpec == PaymentsInit /\ [][PaymentsNext]_serviceVars

-----------------------------------------------------------------------------
(* Values of the constants.                                                *)

TwoTiers == [t \in {"standard", "growth"} |-> IF t = "standard" THEN 25 ELSE 20]
ThreeRailFees ==
    <<"mpesa", NoTier>> :> [bps |-> 15, fixed |-> 0, currency |-> "KES"]
    @@ <<"card", NoTier>> :> [bps |-> 29, fixed |-> 9, currency |-> "KES"]
    @@ <<"card", "growth">> :> [bps |-> 20, fixed |-> 1, currency |-> "EUR"]
ThreePairs == {<<"KES", "KES">>, <<"USD", "KES">>, <<"KES", "USD">>}

Leg(account, direction, amount, currency) ==
    [account |-> account, direction |-> direction, amount |-> amount, currency |-> currency]

(* A split, one across currencies, two currencies at once, and zero legs. *)
FourProposals ==
    { <<Leg("pl", "DR", 3, "kes"), Leg("tr", "CR", 1, "kes"), Leg("val", "CR", 2, "kes")>>,
      <<Leg("pl", "DR", 1, "kes"), Leg("tr", "CR", 1, "usd")>>,
      <<Leg("pl", "DR", 1, "kes"), Leg("tr", "CR", 1, "kes"),
        Leg("pl", "CR", 2, "usd"), Leg("tr", "DR", 2, "usd")>>,
      <<Leg("pl", "DR", 0, "kes"), Leg("tr", "CR", 0, "kes")>> }

(* The second payment names no user. *)
TwoAnnounced == {[id |-> 1, user |-> TRUE, amount |-> 6], [id |-> 2, user |-> FALSE, amount |-> 3]}
ThreeQuestions ==
    { [action |-> "paylink.create", amount |-> 4, geo_mismatch |-> TRUE],
      [action |-> "paylink.create", amount |-> 6, geo_mismatch |-> FALSE],
      [action |-> "profile.read", amount |-> 0, geo_mismatch |-> TRUE] }
=============================================================================
