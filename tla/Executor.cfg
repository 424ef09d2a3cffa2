SPECIFICATION ChainSpec
CONSTANTS
    Addr = {1, 2, 3}
    Admin = 1
    Treasury = 9
    InitialBalance <- Balances
    MaxSupply = 24
    MinimumStake = 3
    WithdrawalCooldown = 0
    FeeRateBasisPoints = 200
    ValidatorShare = 70
    BurnShare = 10
    Word = 1048576
    TransferAmounts = {}
    StakeAmounts = {3}
    UnstakeAmounts = {3}
    SlashAmounts = {}
    RewardAmounts = {}
    SettledAmounts = {}
    Offences = {}
    KeyHolders = {}
    MaxTime = 1
    MaxSupplySeen = 40
    Zero = 0
    PayLinkId = {p1, p2}
    Proof = {h1, h2}
    NoProof = NoProof
    RequiredValidations = 2
    Amounts = {500}
    RuleSets <- NoRules
    Creators = {1}
    TransferTo = {}
    Delegates = {}
    MaxTransferCount = 0
INVARIANTS FeesOnlyForSettlements
PROPERTIES ImplementsRegistry
SYMMETRY PayLinksAndProofs
