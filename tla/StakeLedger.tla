---------------------------- MODULE StakeLedger ----------------------------
(***************************************************************************)
(* The token half of the paylink-chain executor: PLN balances, validator   *)
(* stakes with delayed withdrawal, slashing (by the admin or by evidence), *)
(* rewards, and the fees that a settlement mints.                          *)
(*                                                                         *)
(* One action is one transaction that the executor applies successfully.   *)
(* Addresses are numbers, since the fee distributor sorts them; quantities *)
(* are uint64 in the code and wrap at Word here.                           *)
(***************************************************************************)
EXTENDS Integers, FiniteSets, FiniteSetsExt, Functions

CONSTANTS
    Addr,               \* addresses that send transactions, positive numbers
    Admin,              \* genesis.AdminAddress
    Treasury,           \* genesis.TreasuryAddress (0 when unset)
    InitialBalance,     \* genesis.InitialBalances, a function on Accounts
    MaxSupply,          \* genesis.MaxSupply
    MinimumStake,       \* genesis.MinimumStake
    WithdrawalCooldown, \* genesis.WithdrawalCooldown
    FeeRateBasisPoints, \* genesis.FeeRateBasisPoints
    ValidatorShare,     \* genesis.ValidatorRewardShare, percent
    BurnShare,          \* genesis.BurnShare, percent
    Word,               \* 2^64 in the code
    TransferAmounts, StakeAmounts, UnstakeAmounts, SlashAmounts, RewardAmounts,
                        \* amounts offered to the transactions
    SettledAmounts,     \* amounts of PayLinks that settle
    Offences,           \* offences that valid evidence exists for
    KeyHolders,         \* addresses that register a VRF key
    MaxTime,            \* bound on block timestamps
    MaxSupplySeen       \* bound on the supply reached by minting

Accounts == Addr \cup {Treasury}

ASSUME LedgerAssumption ==
    /\ Addr \subseteq Nat \ {0}
    /\ Admin \in Addr
    /\ KeyHolders \subseteq Addr
    /\ Treasury \in Nat
    /\ InitialBalance \in [Accounts -> Nat]
    /\ IsFiniteSet(Addr)
    /\ \A e \in Offences : e.validator \in Addr

ASSUME AmountsAssumption ==
    TransferAmounts \cup StakeAmounts \cup UnstakeAmounts \cup SlashAmounts
        \cup RewardAmounts \cup SettledAmounts \subseteq Nat

ASSUME GenesisAssumption ==
    /\ MaxSupply \in Nat /\ MinimumStake \in Nat /\ WithdrawalCooldown \in Nat
    /\ FeeRateBasisPoints \in Nat /\ ValidatorShare \in Nat /\ BurnShare \in Nat
    /\ ValidatorShare + BurnShare <= 100
    /\ Word \in Nat /\ Word > MaxSupply
    /\ MaxTime \in Nat /\ MaxSupplySeen \in Nat

(* Genesis mints less than the cap, and the cap leaves room for the largest *)
(* fee that a word can hold (10^17 of 2^64 in the code).                    *)
ASSUME SupplyAssumption ==
    /\ SumFunction(InitialBalance) <= MaxSupply
    /\ MaxSupply + Word \div 10000 < Word

VARIABLES
    balance,           \* accounts[a].Balance
    staked,            \* validators[a].StakedAmount (0: no record)
    pending,           \* validators[a].PendingWithdrawal
    withdrawableAt,    \* validators[a].WithdrawableAt
    active,            \* {a : validators[a].IsActive}
    vrfKeys,           \* the validators with a registered VRF key
    totalSupply, totalBurned,
    processedEvidence, \* offences already punished
    now                \* timestamp of the block being executed

stakeVars == <<staked, pending, withdrawableAt, active, vrfKeys, processedEvidence>>
supplyVars == <<totalSupply, totalBurned>>
vars == <<balance, stakeVars, supplyVars, now>>

Wrap(n) == n % Word

-----------------------------------------------------------------------------
(* The fee calculator and the split among the voters (package fee).        *)

(* No minimum fee is configured.  Treasury takes the rounding remainder. *)
CalculateFee(amount) ==
    LET total == Wrap(amount * FeeRateBasisPoints) \div 10000
        validators == Wrap(total * ValidatorShare) \div 100
        burn == Wrap(total * BurnShare) \div 100
    IN  [total |-> total, validators |-> validators, burn |-> burn,
         treasury |-> Wrap(total - validators - burn)]

VoterStake(voters) == Wrap(SumFunctionOnSet(staked, voters))

(* Mutant: voters share alike, whatever they staked. *)
ShareEqual(reward, voters, v) == reward \div Cardinality(voters)

(* The share of a voter that is not the last one in address order. *)
Share(reward, voters, v) == Wrap(reward * staked[v]) \div VoterStake(voters)

(* The last voter in address order takes what the others leave. *)
Payout(reward, voters) ==
    LET last == Max(voters)
        share == [v \in voters \ {last} |-> Share(reward, voters, v)]
    IN  [v \in voters |-> IF v = last THEN Wrap(reward - SumFunction(share)) ELSE share[v]]

(* Mutant: no check of the cap before the first mint. *)
DistributesUnchecked(fee, voters) ==
    /\ fee.total # 0
    /\ VoterStake(voters) # 0

(* The checks of DistributeFees before it mints anything. *)
Distributes(fee, voters) ==
    /\ fee.total # 0
    /\ VoterStake(voters) # 0
    /\ Wrap(totalSupply + Wrap(fee.validators + fee.treasury)) <= MaxSupply

(* Voters are minted to in address order; the first mint that would pass    *)
(* the cap ends the distribution, and what was minted before it stays.      *)
MintsVoter(payout, v) ==
    \A w \in {u \in DOMAIN payout : u <= v} :
        Wrap(totalSupply + SumFunctionOnSet(payout, {u \in DOMAIN payout : u <= w})) <= MaxSupply

CollectAndDistributeFees(amount, voters) ==
    LET fee == CalculateFee(amount)
        payout == Payout(fee.validators, voters \cap active)
        minted == {v \in DOMAIN payout : MintsVoter(payout, v)}
        whole == minted = DOMAIN payout
        funded == whole /\ Wrap(totalSupply + SumFunction(payout) + fee.treasury) <= MaxSupply
        toTreasury == IF funded THEN fee.treasury ELSE 0
    IN  IF Distributes(fee, voters \cap active)
        THEN /\ balance' = [a \in Accounts |->
                    Wrap(balance[a] + (IF a \in minted THEN payout[a] ELSE 0)
                                    + (IF a = Treasury THEN toTreasury ELSE 0))]
             /\ totalSupply' = Wrap(totalSupply + SumFunctionOnSet(payout, minted) + toTreasury)
             /\ totalBurned' = Wrap(totalBurned + (IF funded THEN fee.burn ELSE 0))
        ELSE UNCHANGED <<balance, totalSupply, totalBurned>>

-----------------------------------------------------------------------------
(* Transactions.                                                           *)

(* AddBalance and SubBalance of an account; nothing is taken from an        *)
(* account that holds less.                                                 *)
AddBalance(balances, a, amount) == [balances EXCEPT ![a] = Wrap(@ + amount)]
SubBalance(balances, a, amount) == [balances EXCEPT ![a] = @ - amount]

(* Sender and recipient may be the same account. *)
Transfer(from, to, amount) ==
    /\ amount # 0
    /\ to # 0
    /\ balance[from] >= amount
    /\ balance' = AddBalance(SubBalance(balance, from, amount), to, amount)
    /\ UNCHANGED <<stakeVars, supplyVars, now>>

(* Mutant: stakes what the sender does not have. *)
StakeUnfunded(from, amount) ==
    /\ amount # 0
    /\ balance' = [balance EXCEPT ![from] = @ - amount]
    /\ staked' = [staked EXCEPT ![from] = Wrap(@ + amount)]
    /\ UNCHANGED <<pending, withdrawableAt, active, vrfKeys, processedEvidence, supplyVars, now>>

(* Stake never looks at a pending withdrawal. *)
Stake(from, amount) ==
    LET after == Wrap(staked[from] + amount)
    IN  /\ amount # 0
        /\ balance[from] >= amount
        /\ balance' = SubBalance(balance, from, amount)
        /\ staked' = [staked EXCEPT ![from] = after]
        /\ active' = IF after >= MinimumStake THEN active \cup {from} ELSE active
        /\ UNCHANGED <<pending, withdrawableAt, vrfKeys, processedEvidence, supplyVars, now>>

(* Mutant: the amount is not compared with the stake. *)
InitiateUnstakeUncovered(from, amount) ==
    /\ amount # 0
    /\ pending[from] = 0
    /\ pending' = [pending EXCEPT ![from] = amount]
    /\ withdrawableAt' = [withdrawableAt EXCEPT ![from] = now + WithdrawalCooldown]
    /\ UNCHANGED <<balance, staked, active, vrfKeys, processedEvidence, supplyVars, now>>

(* The stake itself is only reduced when the withdrawal completes. *)
InitiateUnstake(from, amount) ==
    LET remaining == staked[from] - amount
    IN  /\ amount # 0
        /\ pending[from] = 0
        /\ amount <= staked[from]
        /\ remaining = 0 \/ remaining >= MinimumStake
        /\ pending' = [pending EXCEPT ![from] = amount]
        /\ withdrawableAt' = [withdrawableAt EXCEPT ![from] = now + WithdrawalCooldown]
        /\ active' = IF remaining < MinimumStake THEN active \ {from} ELSE active
        /\ UNCHANGED <<balance, staked, vrfKeys, processedEvidence, supplyVars, now>>

(* Mutant: the stake is paid out and kept. *)
CompleteUnstakeKeepsStake(from) ==
    /\ pending[from] # 0
    /\ now >= withdrawableAt[from]
    /\ balance' = [balance EXCEPT ![from] = Wrap(@ + pending[from])]
    /\ pending' = [pending EXCEPT ![from] = 0]
    /\ withdrawableAt' = [withdrawableAt EXCEPT ![from] = 0]
    /\ UNCHANGED <<staked, active, vrfKeys, processedEvidence, supplyVars, now>>

(* Neither the stake nor the active flag is checked here. *)
CompleteUnstake(from) ==
    /\ pending[from] # 0
    /\ now >= withdrawableAt[from]
    /\ staked' = [staked EXCEPT ![from] = Wrap(@ - pending[from])]
    /\ balance' = AddBalance(balance, from, pending[from])
    /\ pending' = [pending EXCEPT ![from] = 0]
    /\ withdrawableAt' = [withdrawableAt EXCEPT ![from] = 0]
    /\ UNCHANGED <<active, vrfKeys, processedEvidence, supplyVars, now>>

(* Mutant: a slashed validator stays active. *)
SlashStakeKeepsActive(v, amount) ==
    /\ amount <= staked[v]
    /\ staked' = [staked EXCEPT ![v] = @ - amount]
    /\ totalSupply' = IF totalSupply < amount THEN 0 ELSE totalSupply - amount
    /\ totalBurned' = Wrap(totalBurned + amount)
    /\ UNCHANGED active

(* Mutant: slashed tokens stay in the supply. *)
SlashStakeKeepsSupply(v, amount) ==
    /\ amount <= staked[v]
    /\ staked' = [staked EXCEPT ![v] = @ - amount]
    /\ totalBurned' = Wrap(totalBurned + amount)
    /\ active' = IF staked[v] - amount < MinimumStake THEN active \ {v} ELSE active
    /\ UNCHANGED totalSupply

(* StateDB.Slash: slashed tokens are destroyed. *)
SlashStake(v, amount) ==
    /\ amount <= staked[v]
    /\ staked' = [staked EXCEPT ![v] = @ - amount]
    /\ totalSupply' = IF totalSupply < amount THEN 0 ELSE totalSupply - amount
    /\ totalBurned' = Wrap(totalBurned + amount)
    /\ active' = IF staked[v] - amount < MinimumStake THEN active \ {v} ELSE active

Slash(from, v, amount) ==
    /\ from = Admin
    /\ SlashStake(v, amount)
    /\ UNCHANGED <<balance, pending, withdrawableAt, vrfKeys, processedEvidence, now>>

(* Half the stake for a double sign, a quarter for an equivocation, all of  *)
(* it when the percentage rounds to nothing.                                *)
Penalty(kind, stake) ==
    LET pct == IF kind = "double_sign" THEN 50 ELSE 25
        part == Wrap(stake * pct) \div 100
    IN  IF part = 0 THEN stake ELSE part

(* The evidence itself (signatures, VRF proofs) is verified by the          *)
(* detector; equivocation evidence also needs the offender's VRF key.       *)
(* Liveness evidence is always rejected.                                    *)
SubmitEvidence(e) ==
    /\ staked[e.validator] # 0
    /\ e.kind \in {"double_sign", "equivocation"}
    /\ e.kind = "equivocation" => e.validator \in vrfKeys
    /\ e \notin processedEvidence
    /\ processedEvidence' = processedEvidence \cup {e}
    /\ SlashStake(e.validator, Penalty(e.kind, staked[e.validator]))
    /\ UNCHANGED <<balance, pending, withdrawableAt, vrfKeys, now>>

DistributeReward(from, v, amount) ==
    /\ from = Admin
    /\ balance[from] >= amount
    /\ v \in active
    /\ balance' = AddBalance(SubBalance(balance, from, amount), v, amount)
    /\ UNCHANGED <<stakeVars, supplyVars, now>>

RegisterVRFKey(from) ==
    /\ from \in active
    /\ vrfKeys' = vrfKeys \cup {from}
    /\ UNCHANGED <<balance, staked, pending, withdrawableAt, active, processedEvidence,
                   supplyVars, now>>

(* The fee part of the vote that settles a PayLink: any voters, of whom at  *)
(* least the last one is active.                                            *)
SettlementFees(amount, voters) ==
    /\ voters \cap active # {}
    /\ CollectAndDistributeFees(amount, voters)
    /\ UNCHANGED <<stakeVars, now>>

NextBlock ==
    /\ now' \in (0..MaxTime) \ {now}
    /\ UNCHANGED <<balance, stakeVars, supplyVars>>

-----------------------------------------------------------------------------

Init ==
    /\ balance = InitialBalance
    /\ staked = [a \in Addr |-> 0]
    /\ pending = [a \in Addr |-> 0]
    /\ withdrawableAt = [a \in Addr |-> 0]
    /\ active = {}
    /\ vrfKeys = {}
    /\ totalSupply = SumFunction(InitialBalance)
    /\ totalBurned = 0
    /\ processedEvidence = {}
    /\ now = 0

TransferStep == \E from, to \in Addr, n \in TransferAmounts : Transfer(from, to, n)
StakeStep == \E from \in Addr, n \in StakeAmounts : Stake(from, n)
InitiateUnstakeStep == \E from \in Addr, n \in UnstakeAmounts : InitiateUnstake(from, n)
CompleteUnstakeStep == \E from \in Addr : CompleteUnstake(from)
SlashStep == \E from, v \in Addr, n \in SlashAmounts : Slash(from, v, n)
EvidenceStep == \E e \in Offences : SubmitEvidence(e)
RewardStep == \E from, v \in Addr, n \in RewardAmounts : DistributeReward(from, v, n)
VRFKeyStep == \E from \in KeyHolders : RegisterVRFKey(from)
FeeStep ==
    /\ totalSupply < MaxSupplySeen
    /\ \E n \in SettledAmounts, voters \in SUBSET Addr : SettlementFees(n, voters)

Next ==
    \/ TransferStep
    \/ StakeStep
    \/ InitiateUnstakeStep
    \/ CompleteUnstakeStep
    \/ SlashStep
    \/ EvidenceStep
    \/ RewardStep
    \/ VRFKeyStep
    \/ FeeStep
    \/ NextBlock

Spec == Init /\ [][Next]_vars

-----------------------------------------------------------------------------
(* Properties.                                                             *)

(* Types; no balance or stake goes below zero in any transaction.           *)
TypeOK ==
    /\ balance \in [Accounts -> Nat]
    /\ staked \in [Addr -> Nat]
    /\ pending \in [Addr -> Nat]
    /\ withdrawableAt \in [Addr -> Nat]
    /\ active \subseteq Addr
    /\ vrfKeys \subseteq Addr
    /\ totalSupply \in Nat /\ totalBurned \in Nat
    /\ processedEvidence \subseteq Offences
    /\ now \in 0..MaxTime

(* What the comment on Slash claims: the supply is the sum of balances and  *)
(* stakes.  It holds while no slash meets a pending withdrawal.             *)
SupplyBacked == totalSupply = SumFunction(balance) + SumFunction(staked)

(* A pending withdrawal is always covered by the stake it is taken from.    *)
(* CompleteWithdrawal relies on it: it subtracts without a check.           *)
WithdrawalCovered == \A a \in Addr : pending[a] <= staked[a]

(* The flag that gates voting outlives the minimum stake in one way only: a *)
(* validator that adds stake while a withdrawal is pending is active again, *)
(* and CompleteWithdrawal takes the stake without looking at the flag.      *)
(* Slashes, evidence and withdrawals that begin always clear it in time.    *)
FlagOutlivesStakeOnlyByWithdrawal ==
    [][\A a \in active' : staked'[a] < MinimumStake =>
           \/ a \in active /\ staked[a] < MinimumStake
           \/ pending[a] > 0 /\ pending'[a] = 0]_vars

(* A fee is distributed entirely or not at all: what a settlement mints and *)
(* withholds adds up to the fee of one PayLink amount, and all that is      *)
(* minted arrives in accounts.                                              *)
FeeStepWhole ==
    totalSupply' > totalSupply =>
        /\ \E n \in SettledAmounts :
               (totalSupply' - totalSupply) + (totalBurned' - totalBurned) = CalculateFee(n).total
        /\ SumFunction(balance') - SumFunction(balance) = totalSupply' - totalSupply

FeesAllOrNothing == [][FeeStepWhole]_vars

(* Voters are paid by the stake behind their vote, whatever was slashed     *)
(* before: each gets its proportional part of the reward up to rounding,    *)
(* the last one in address order included, who takes what the others leave  *)
(* (at most one unit for each of them).  It holds while the product of      *)
(* reward and stake stays below Word.                                       *)
SharesProportional ==
    \A n \in SettledAmounts : \A paid \in (SUBSET active) \ {{}} :
        LET reward == CalculateFee(n).validators
            total == SumFunctionOnSet(staked, paid)
            payout == Payout(reward, paid)
        IN  \A v \in paid :
                /\ payout[v] * total > reward * staked[v] - total
                /\ payout[v] * total < reward * staked[v] + Cardinality(paid) * total

(* Staking as the executor relies on it: amounts stay natural numbers,      *)
(* CompleteWithdrawal never takes more than is staked, a settlement pays    *)
(* its validators all or nothing and in proportion to their stakes, and     *)
(* only a withdrawal that completes leaves a validator active below the     *)
(* minimum stake.                                                           *)
StakingSound ==
    /\ [](TypeOK /\ WithdrawalCovered /\ SharesProportional)
    /\ FeesAllOrNothing
    /\ FlagOutlivesStakeOnlyByWithdrawal
=============================================================================
