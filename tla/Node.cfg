SPECIFICATION NodeSpec
CONSTANTS
    Addr = {1, 2}
    Admin = 1
    Treasury = 9
    InitialBalance <- UnstakeBalances
    MaxSupply = 24
    MinimumStake = 3
    WithdrawalCooldown = 1
    FeeRateBasisPoints = 200
    ValidatorShare = 70
    BurnShare = 10
    Word = 1048576
    TransferAmounts = {1}
    StakeAmounts = {1, 3}
    UnstakeAmounts = {3, 4}
    SlashAmounts = {1}
    RewardAmounts = {1}
    SettledAmounts = {500}
    Offences <- OffencesOfTwo
    KeyHolders = {2}
    MaxTime = 1
    MaxSupplySeen = 20
    Txs <- RacingTxs
    MaxPool = 3
    MaxTxsPerBlock = 2
    MaxHeight = 3
    MaxCrashes = 1
    MaxAborts = 1
    Followers = {f1}
    Proposer = proposer
    MaxGossipHeight = 4
    SyncBatchMax = 1
    MaxSeen = 3
    MaxStarts = 3
INVARIANTS
    SupplyBacked RestartSafe
PROPERTIES
     GossipKeepsUp
CHECK_DEADLOCK FALSE
