----------------------------- MODULE FeeQuotes -----------------------------
(***************************************************************************)
(* Quoting in fee-pricing-service: a request locks an exchange rate, which  *)
(* comes from a cache in Redis or from a provider, prices the payment for   *)
(* the merchant's tier on one or more rails, and stores its quotes in one   *)
(* transaction.  A bus consumer keeps the tiers of merchants.               *)
(*                                                                          *)
(* platform_fixed is 0 in all rows of the tier schedule, which the          *)
(* migration writes and nothing changes; it is left out.                    *)
(***************************************************************************)
EXTENDS Integers, Sequences, FiniteSets, Money

CONSTANTS
    TierBps,          \* tiers: platform_pct_bps of each
    Rails,
    RailFees,         \* by rail and tier, or NoTier: percentage, fixed part and its currency
    BpsDenom,         \* 10000 in the code
    RateScale,        \* rates are numerators over it
    Rates,            \* what the provider may answer
    FallbackRate,     \* the fallback table's rate, or NoRate
    NoRate, NoTier,
    Grosses,
    QuotePairs,       \* currency and settlement currency of requests
    Quoters,          \* quote requests in progress at a time
    MaxQuotes, MaxQuoteTroubles, MaxMerchantEvents   \* bounds

DEFAULT_TIER == "standard"

ASSUME FeeQuotesAssumption ==
    /\ DEFAULT_TIER \in DOMAIN TierBps /\ NoTier \notin DOMAIN TierBps \cup {"unknown"}
    /\ \A tier \in DOMAIN TierBps : TierBps[tier] \in Nat
    /\ \A row \in DOMAIN RailFees : RailFees[row].bps \in Nat /\ RailFees[row].fixed \in Nat
    /\ Grosses \subseteq Nat
    /\ {BpsDenom, RateScale} \subseteq Nat \ {0}
    /\ Rates \subseteq Nat /\ NoRate \notin Rates /\ (FallbackRate = NoRate \/ FallbackRate \in Nat)
    /\ {MaxQuotes, MaxQuoteTroubles, MaxMerchantEvents} \subseteq Nat

VARIABLES
    fxCache,       \* the cached rate of a pair, or NoRate
    fxAudit,       \* pairs and rates in the fx_rates table
    unaudited,     \* history: those whose row was lost with its transaction
    quoteReq,      \* the request of each worker
    quotes,        \* quotes that were committed
    pricing,       \* merchant_pricing of the merchant: tier and org
    merchantBus,   \* merchant events on their way, in order
    merchantTier,  \* the merchant's tier at merchant-onboarding
    redelivered,   \* history: some event was delivered again
    merchantEvents, quoteRuns, quoteTroubles

fxVars == <<fxCache, fxAudit, unaudited>>
tierVars == <<pricing, merchantBus, merchantTier, redelivered, merchantEvents>>
quoteVars == <<fxVars, quoteReq, quotes, tierVars, quoteRuns, quoteTroubles>>

CrossPairs == {p \in QuotePairs : p[1] # p[2]}

(* A merchant without a row in merchant_pricing. *)
NoPricing == [tier |-> NoTier, org |-> FALSE]

NoQuoteReq == [stage |-> "none"]
QuoteTrouble == quoteTroubles < MaxQuoteTroubles /\ quoteTroubles' = quoteTroubles + 1

-----------------------------------------------------------------------------
(* compute_quote, for one tier and one rail.                               *)

(* Gross or a fixed fee in the settlement currency, at the locked rate. *)
Settled(amount, rate) == IF rate = NoRate THEN amount ELSE RoundHalfUp(amount * rate, RateScale)

(* get_rail_fee: the row of the rail and the tier, else the rail's own. *)
RailFeeOf(rail, tier) ==
    LET rows == {<<rail, tier>>, <<rail, NoTier>>} \cap DOMAIN RailFees
    IN  IF rows = {} THEN <<>>
        ELSE <<RailFees[IF <<rail, tier>> \in rows THEN <<rail, tier>> ELSE <<rail, NoTier>>]>>

(* Whether _convert has a rate for a fixed fee. *)
Convertible(fixed, fixedCcy, ccy, settle) ==
    fixed = 0 \/ fixedCcy = settle \/ (fixedCcy = ccy /\ ccy # settle)

Convert(fixed, fixedCcy, settle, rate) ==
    IF fixed = 0 \/ fixedCcy = settle THEN fixed ELSE Settled(fixed, rate)

PlatformFee(settled, tier) == RoundHalfUp(settled * TierBps[tier], BpsDenom)

RailFee(settled, req, fee) ==
    RoundHalfUp(settled * fee.bps, BpsDenom) + Convert(fee.fixed, fee.currency, req.pair[2], req.rate)

ComputeQuote(req, tier, rail) ==
    LET settled == Settled(req.gross, req.rate)
        platform == PlatformFee(settled, tier)
        railFee == RailFee(settled, req, RailFeeOf(rail, tier)[1])
    IN  [tier |-> tier, rail |-> rail, pair |-> req.pair, rate |-> req.rate, settled |-> settled,
         platform |-> platform, railFee |-> railFee, net |-> settled - platform - railFee]

(* Mutant: a quote may charge more than the payment. *)
AnyNet(q) == TRUE

(* FEE_EXCEEDS_GROSS. *)
NetAllowed(q) == q.net >= 0

-----------------------------------------------------------------------------
(* Requests.                                                               *)

(* create_quote and quote, up to rate_for: same currency, cached or not. *)
BeginQuote(w, gross, pair) ==
    /\ quoteReq[w] = NoQuoteReq
    /\ quoteRuns < MaxQuotes /\ quoteRuns' = quoteRuns + 1
    /\ LET rate == IF pair \in CrossPairs THEN fxCache[pair] ELSE NoRate
           stage == IF pair \in CrossPairs /\ rate = NoRate THEN "fetch" ELSE "price"
       IN  quoteReq' = [quoteReq EXCEPT ![w] = [stage |-> stage, gross |-> gross, pair |-> pair, rate |-> rate]]
    /\ UNCHANGED <<fxVars, quotes, tierVars, quoteTroubles>>

(* HttpFxProvider.get_rate: a rate, or nothing. *)
ProviderAnswers == Rates \cup {NoRate}

(* The fallback table has a rate for what the provider cannot answer. *)
OrFallback(answer) == IF answer = NoRate THEN FallbackRate ELSE answer

(* Without any rate the request ends with FX_UNAVAILABLE. *)
FetchRate(w, answer) ==
    /\ quoteReq[w].stage = "fetch"
    /\ quoteReq' = [quoteReq EXCEPT ![w] =
          IF OrFallback(answer) = NoRate THEN NoQuoteReq
          ELSE [@ EXCEPT !.stage = "cache", !.rate = OrFallback(answer)]]
    /\ UNCHANGED <<fxVars, quotes, tierVars, quoteRuns, quoteTroubles>>

CacheRate(w) ==
    /\ quoteReq[w].stage = "cache"
    /\ fxCache' = [fxCache EXCEPT ![quoteReq[w].pair] = quoteReq[w].rate]
    /\ quoteReq' = [quoteReq EXCEPT ![w].stage = "audit"]
    /\ UNCHANGED <<fxAudit, unaudited, quotes, tierVars, quoteRuns, quoteTroubles>>

Fetched(w) == <<quoteReq[w].pair, quoteReq[w].rate>>

(* Mutant: the row is not written. *)
NoAuditRow(w) == fxAudit

AuditRow(w) == fxAudit \cup {Fetched(w)}

(* The row and the event are committed; or the transaction fails, and the   *)
(* rate stays in the cache.                                                 *)
AuditRate(w) ==
    /\ quoteReq[w].stage = "audit"
    /\ \/ /\ fxAudit' = AuditRow(w)
          /\ quoteReq' = [quoteReq EXCEPT ![w].stage = "price"]
          /\ UNCHANGED <<unaudited, quoteTroubles>>
       \/ /\ QuoteTrouble
          /\ unaudited' = unaudited \cup {Fetched(w)}
          /\ quoteReq' = [quoteReq EXCEPT ![w] = NoQuoteReq]
          /\ UNCHANGED fxAudit
    /\ UNCHANGED <<fxCache, quotes, tierVars, quoteRuns>>

(* _resolve_merchant_tier. *)
MerchantTier == IF pricing.tier = NoTier THEN DEFAULT_TIER ELSE pricing.tier

(* get_merchant_pricing_view: the tier's row and a row for every rail. *)
PricingView ==
    [bps |-> TierBps[pricing.tier], rails |-> [rail \in Rails |-> RailFeeOf(rail, pricing.tier)]]

(* _read: members of the organization in the row, if it has one. *)
MembersRead(row) == row.org

(* The tiers to price: those that the request names, or the merchant's. *)
QuotedTiers(asked) == IF asked = {} THEN {MerchantTier} ELSE asked

(* What _tier_fee, _rail_fee, _convert and compute_quote accept. *)
Priceable(req, tier, rail) ==
    /\ tier \in DOMAIN TierBps
    /\ RailFeeOf(rail, tier) # <<>>
    /\ LET fee == RailFeeOf(rail, tier)[1]
       IN  Convertible(fee.fixed, fee.currency, req.pair[1], req.pair[2])
    /\ NetAllowed(ComputeQuote(req, tier, rail))

(* Mutant: what cannot be priced is left out. *)
PriceableOnly(req, wanted) == {c \in wanted : Priceable(req, c[1], c[2])}

(* One that cannot be priced rolls the request back. *)
StoredQuotes(req, wanted) == IF \A c \in wanted : Priceable(req, c[1], c[2]) THEN wanted ELSE {}

(* The quotes of the request, for all its tiers and rails, are committed    *)
(* together, or one of them cannot be computed and none is stored.          *)
PriceQuotes(w, asked, rails) ==
    /\ quoteReq[w].stage = "price"
    /\ LET wanted == QuotedTiers(asked) \X rails
           lines == {ComputeQuote(quoteReq[w], c[1], c[2]) : c \in StoredQuotes(quoteReq[w], wanted)}
       IN  quotes' = IF lines = {} THEN quotes ELSE quotes \cup {[wanted |-> wanted, lines |-> lines]}
    /\ quoteReq' = [quoteReq EXCEPT ![w] = NoQuoteReq]
    /\ UNCHANGED <<fxVars, tierVars, quoteRuns, quoteTroubles>>

(* The cached rate expires after fx_cache_ttl_seconds. *)
CacheExpires(pair) ==
    /\ fxCache[pair] # NoRate
    /\ fxCache' = [fxCache EXCEPT ![pair] = NoRate]
    /\ UNCHANGED <<fxAudit, unaudited, quoteReq, quotes, tierVars, quoteRuns, quoteTroubles>>

-----------------------------------------------------------------------------
(* Merchant events.                                                        *)

(* merchant-onboarding announces the merchant once, and then its tiers.     *)
MerchantAnnounces(tier) ==
    /\ merchantEvents < MaxMerchantEvents /\ merchantEvents' = merchantEvents + 1
    /\ merchantBus' = Append(merchantBus, [name |-> IF merchantTier = NoTier THEN "onboarded" ELSE "tier",
                                           tier |-> tier])
    /\ merchantTier' = tier
    /\ merchantTier = NoTier => tier = DEFAULT_TIER
    /\ UNCHANGED <<fxVars, quoteReq, quotes, pricing, redelivered, quoteRuns, quoteTroubles>>

(* Mutant: the column is overwritten. *)
OrgOverwritten(event) == event.name = "onboarded"

(* coalesce(excluded.org_id, org_id): a tier change carries no org. *)
OrgCoalesced(event) == event.name = "onboarded" \/ pricing.org

(* Mutant: a tier change is taken for an announcement. *)
TierReset(event) == DEFAULT_TIER

(* An unknown tier falls back to the default. *)
TierOfEvent(event) ==
    IF event.name = "onboarded" \/ event.tier \notin DOMAIN TierBps THEN DEFAULT_TIER ELSE event.tier

ConsumeMerchantEvent ==
    /\ merchantBus # <<>>
    /\ pricing' = [tier |-> TierOfEvent(Head(merchantBus)), org |-> OrgCoalesced(Head(merchantBus))]
    /\ merchantBus' = Tail(merchantBus)
    /\ UNCHANGED <<fxVars, quoteReq, quotes, merchantTier, redelivered, merchantEvents, quoteRuns,
                   quoteTroubles>>

(* An announcement is delivered again after its marker has expired. *)
OnboardedAgain ==
    /\ merchantTier # NoTier
    /\ QuoteTrouble
    /\ merchantBus' = Append(merchantBus, [name |-> "onboarded", tier |-> DEFAULT_TIER])
    /\ redelivered' = TRUE
    /\ UNCHANGED <<fxVars, quoteReq, quotes, pricing, merchantTier, merchantEvents, quoteRuns>>

-----------------------------------------------------------------------------
QuoteInit ==
    /\ fxCache = [pair \in CrossPairs |-> NoRate] /\ fxAudit = {} /\ unaudited = {}
    /\ quoteReq = [w \in Quoters |-> NoQuoteReq]
    /\ quotes = {}
    /\ pricing = NoPricing
    /\ merchantBus = <<>> /\ merchantTier = NoTier /\ redelivered = FALSE
    /\ merchantEvents = 0 /\ quoteRuns = 0 /\ quoteTroubles = 0

QuoteNext ==
    \/ \E w \in Quoters :
          \/ \E gross \in Grosses, pair \in QuotePairs : BeginQuote(w, gross, pair)
          \/ \E answer \in ProviderAnswers : FetchRate(w, answer)
          \/ CacheRate(w)
          \/ AuditRate(w)
          \/ \E asked \in {{}, DOMAIN TierBps}, rails \in SUBSET Rails \ {{}} : PriceQuotes(w, asked, rails)
    \/ \E pair \in CrossPairs : CacheExpires(pair)
    \/ \E tier \in DOMAIN TierBps \cup {"unknown"} : MerchantAnnounces(tier)
    \/ ConsumeMerchantEvent
    \/ OnboardedAgain

QuoteSpec == QuoteInit /\ [][QuoteNext]_quoteVars

-----------------------------------------------------------------------------
(* Properties.                                                             *)

(* The tables hold rates and tiers that exist, and every stored request has *)
(* a quote for each of its tiers and rails: one that cannot be computed      *)
(* leaves no trace of the others.                                           *)
QuoteTypeOK ==
    /\ fxAudit \cup unaudited \subseteq CrossPairs \X (Rates \cup {FallbackRate})
    /\ pricing.tier \in DOMAIN TierBps \cup {NoTier}
    /\ \A q \in quotes : {<<l.tier, l.rail>> : l \in q.lines} = q.wanted

(* What a stored quote promises adds up: the payer's amount at the locked   *)
(* rate is the fees plus the net, and the merchant is never owed less than  *)
(* nothing.                                                                 *)
QuotesAddUp ==
    \A q \in quotes : \A l \in q.lines :
        l.settled = l.platform + l.railFee + l.net /\ l.net >= 0

AuditPending == {Fetched(w) : w \in {v \in Quoters : quoteReq[v].stage = "audit"}}

(* "Durable audit trail of every rate we fetched": a quote's locked rate    *)
(* has a row in fx_rates, or the request that cached the rate has still to  *)
(* commit that row, or its transaction failed after the rate was cached.    *)
QuotedRatesAudited ==
    \A q \in quotes : \A l \in q.lines :
        l.rate # NoRate => <<l.pair, l.rate>> \in fxAudit \cup AuditPending \cup unaudited

(* The members of a merchant that is known can read its fees, and they are  *)
(* the fees that a quote for the merchant is computed with.                 *)
PageShowsQuotedFees ==
    pricing.tier # NoTier =>
        /\ MembersRead(pricing)
        /\ PricingView.bps = TierBps[MerchantTier]
        /\ \A rail \in Rails : PricingView.rails[rail] = RailFeeOf(rail, MerchantTier)

(* When all events are consumed, quotes use the tier that onboarding gave   *)
(* the merchant last, unless merchant.onboarded was delivered again: it     *)
(* resets the tier.                                                         *)
TierFollowsMerchant ==
    merchantBus = <<>> /\ ~ redelivered /\ merchantTier # NoTier =>
        MerchantTier = (IF merchantTier \in DOMAIN TierBps THEN merchantTier ELSE DEFAULT_TIER)

(* What create_quote stores can be honoured: it is complete, adds up, rests *)
(* on a rate with a row in fx_rates and on the tier that onboarding         *)
(* announced last, and is what the merchant reads on its pricing page.      *)
QuotesHonest ==
    /\ QuoteTypeOK /\ QuotesAddUp /\ QuotedRatesAudited
    /\ TierFollowsMerchant /\ PageShowsQuotedFees
=============================================================================
