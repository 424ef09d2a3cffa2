SPECIFICATION RegistrySpec
CONSTANTS
    a1 = a1
    a2 = a2
    a3 = a3
    p1 = p1
    h1 = h1
    Addr = {a1, a2, a3}
    Zero = zero
    Admin = a1
    PayLinkId = {p1, p2}
    Proof = {h1, h2}
    NoProof = noproof
    RequiredValidations = 2
    Amounts = {0, 4, 6}
    RuleSets <- AllRules
    Creators = {a2}
    TransferTo = {a1, a2, a3}
    Delegates = {a3}
    MaxTime = 2
    MaxTransferCount = 2
INVARIANTS
    ProofSettlesOnce QuorumExact RulesHonoured NoStaleApproval
PROPERTIES
    KeepsPromise
