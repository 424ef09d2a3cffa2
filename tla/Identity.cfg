SPECIFICATION IdentitySpec
CHECK_DEADLOCK FALSE
CONSTANTS
    s1 = s1
    s2 = s2
    adminOrg = adminOrg
    AuthWorkers = {w1, w2}
    MaxSessions = 3
    MaxResetTokens = 2
    MaxAuthCalls = 4
    Emails = {e1, e2}
    NoEmail = NoEmail
    Subjects = {sub1}
    RegisterKeys = {k1}
    AccountWorkers = {w1, w2}
    MaxUsers = 3
    MaxAccountCalls = 4
    MaxAccountMishaps = 1
    OrgUsers = {u1, u2}
    NotMember = NotMember
    InvitedRoles = {"owner", "developer"}
    ScopeLists = {{"paylinks:read"}, {"payments:write"}}
    IssueKeys = {k1}
    OrgWorkers = {w1, w2}
    MaxApiKeys = 2
    MaxOrgCalls = 4
    MaxOrgMishaps = 1
    TokenUsers = {u1}
    TokenOrgs = {adminOrg}
    OrgTypeOf <- OneAdminOrg
    NoRole = NoRole
    IssueWorkers = {w1}
    AccessTtl = 1
    IssueTime = 1
    MaxClock = 3
    MaxTokens = 2
    MaxChanges = 3
    KycWorkers = {w1, w2}
    NoRecord = NoRecord
    MaxKycCalls = 3
    MaxKycTroubles = 1
    BankAccounts = {b1}
    Documents = {d1}
    FeeTiers = {standard, startup}
    StandardTier = standard
    RequireBank = TRUE
    RequireContract = TRUE
    MerchantWorkers = {w1, w2}
    NoMerchant = NoMerchant
    MaxMerchantCalls = 5
    MaxMerchantTroubles = 1
    Providers = {userSearch, merchantSearch}
    Staff = {s1, s2}
    Grants <- TwoGrants
    Tokens <- WithAndWithoutMfa
    MaxReads = 2
    MaxAuditLosses = 1
    Subscribers = {r1, r2}
    WantedKinds = {"paylink.verified", "paylink.cancelled"}
    BusBuffer = 1
    SubscriberBuffer = 1
    PayLinks = {p}
    MaxEmitted = 2
    MaxCalls = 2
    MaxFaults = 1
SYMMETRY Replicas
INVARIANTS
     AccountsReachable MembershipsSound AccessIsCurrent TiersSound
     

    
