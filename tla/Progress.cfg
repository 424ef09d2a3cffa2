SPECIFICATION ProgressSpec
CHECK_DEADLOCK FALSE
CONSTANTS
    r1 = r1
    e1 = e1
    m1 = m1
    m2 = m2
    w1 = w1
    w2 = w2
    p1 = p1
    p2 = p2
    q1 = q1
    q2 = q2
    x = x
    y = y
    Entities = {e1, e2}
    Relays = {r1, r2}
    Deployments = {{r1}, {r1, r2}}
    RelayBatch = 2
    PollSize = 2
    MaxEvents = 2
    MaxLog = 4
    MaxTroubles = 1
    Invoices = {i1}
    LineLists <- ThreeLineLists
    Scale = 10
    InvWorkers = {w1, w2}
    NoPl = NoPl
    MaxInvRequests = 3
    MaxInvTroubles = 2
    Merchants = {m1, m2}
    Payments <- FourPayments
    LastPeriod = 2
    Sweeper = sweeper
    Operators = {op}
    MaxAccruals = 2
    MaxRuns = 1
    MaxFeeTroubles = 1
    Notices <- TwoNotices
    Templated = {"paylink.verified", "payment.failed"}
    IntakeWorkers = {w1, w2}
    TaskWorkers = {p1, p2}
    PrefWriters = {q1, q2}
    PrefPatches <- FourPatches
    MaxRetries = 1
    MaxNoticeCalls = 2
    MaxNoticeTroubles = 1
    Creator = creator
    Payee = payee
    EscApprovers = {x, y}
    Offsets = {1, 2}
    LastTime = 2
    MaxEscTroubles = 1
INVARIANTS
    DeliveredOnce EscrowSafe
PROPERTIES
      InvoicesSettle  
    OutcomeFinal EscrowDecided
