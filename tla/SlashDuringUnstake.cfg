SPECIFICATION BothSpec
CONSTANTS
    Addr = {1, 2}
    Admin = 1
    Treasury = 9
    InitialBalance <- UnstakeBalances
    MaxSupply = 24
    MinimumStake = 3
    WithdrawalCooldown = 1
    FeeRateBasisPoints = 200
    ValidatorShare = 70
    BurnShare = 10
    Word = 1048576
    TransferAmounts = {}
    StakeAmounts = {1, 3}
    UnstakeAmounts = {3}
    SlashAmounts = {1, 2}
    RewardAmounts = {}
    SettledAmounts = {}
    Offences <- OffencesOfTwo
    KeyHolders = {}
    MaxTime = 1
    MaxSupplySeen = 12
    Txs <- RacingTxs
    MaxPool = 3
    MaxTxsPerBlock = 2
    MaxHeight = 3
    MaxCrashes = 1
    MaxAborts = 1
    Followers = {f1}
    Proposer = proposer
    MaxGossipHeight = 4
    SyncBatchMax = 1
    MaxSeen = 3
    MaxStarts = 3
INVARIANTS SupplyBacked
