SPECIFICATION PaymentsSpec
CHECK_DEADLOCK FALSE
CONSTANTS
    Keys = {k1}
    Bodies = {1, 2}
    GatedBodies = {2}
    FailOpen = FALSE
    Workers = {w1, w2}
    NoWorker = nobody
    NoKey = nokey
    NoSettlement = unsettled
    MaxRequests = 3
    MaxMishaps = 1
    TierBps <- TwoTiers
    RailFees <- ThreeRailFees
    Rails = {"mpesa", "card"}
    BpsDenom = 100
    RateScale = 10
    Rates = {13}
    FallbackRate = 12
    NoRate = NoRate
    NoTier = NoTier
    Grosses = {17}
    QuotePairs <- ThreePairs
    Quoters = {q1, q2}
    MaxQuotes = 2
    MaxQuoteTroubles = 1
    MaxMerchantEvents = 2
    Accounts = {"pl", "tr", "val"}
    LedgerCurrencies = {"kes", "usd"}
    Groups = {g1, g2}
    Proposals <- FourProposals
    Callers = {t1, t2}
    NoGroup = NoGroup
    MaxPostings = 4
    Ceiling0 = 0
    Ceiling1 = 5
    Ceiling2 = 100
    AmlThreshold = 10
    VelocityBlock24h = 2
    VelocityReview24h = 1
    VelocityReview1h = 1
    ScoreBlock = 8
    ScoreReview = 5
    Announced <- TwoAnnounced
    Questions <- ThreeQuestions
    Evaluators = {v1}
    MaxEvaluations = 1
    MaxAgeings = 2
    MaxRiskTroubles = 1
    PageRows = {1, 2, 3}
    PageLimit = 1
    MaxPageTime = 1
    LogWriters = {a1, a2}
    LogTimes = {1, 2}
    MaxEntryId = 3
    MaxChecks = 1
INVARIANTS
     LedgerSound  WalksComplete ChainIsLinear VerificationExact
PROPERTIES
    MintsOnce 
