--------------------------- MODULE ExecutorProofs ---------------------------
(***************************************************************************)
(* The executor that runs the ledger and the PayLinks as one chain, for    *)
(* any accounts, stakes, amounts, PayLinks and quorum.                     *)
(***************************************************************************)
EXTENDS ChainExecutor, LedgerProofs

-----------------------------------------------------------------------------
(* ChainExecutor: a transaction of the ledger is at most a change of the    *)
(* validator set, and a settlement with its fee is a settlement.            *)

ActiveInv == active \subseteq Addr

(* Only addresses become active, so the ledger never makes a validator the  *)
(* registry does not know.                                                  *)
LEMMA ActiveNext == ActiveInv /\ [ChainNext]_chainVars => ActiveInv'
<1> SUFFICES ASSUME ActiveInv, [ChainNext]_chainVars
             PROVE  active' \subseteq Addr
    BY Zenon DEF ActiveInv
<1> USE DEF ActiveInv
<1>1. CASE VoteStep
    BY <1>1, Zenon DEF VoteStep, SubmitVote, ledgerVars, stakeVars
<1>2. CASE SettleStep
    BY <1>2, Zenon DEF SettleStep, SubmitSettlingVote, stakeVars
<1>3. CASE PayLinkStep
    BY <1>3, Zenon DEF PayLinkStep, ledgerVars, stakeVars
<1>4. CASE LedgerStep
    <2>1. CASE TransferStep
        BY <2>1, Zenon DEF TransferStep, Transfer, stakeVars
    <2>2. CASE StakeStep
        BY <2>2, Zenon DEF StakeStep, Stake
    <2>3. CASE InitiateUnstakeStep
        BY <2>3, Zenon DEF InitiateUnstakeStep, InitiateUnstake
    <2>4. CASE CompleteUnstakeStep
        BY <2>4, Zenon DEF CompleteUnstakeStep, CompleteUnstake
    <2>5. CASE SlashStep
        BY <2>5, Zenon DEF SlashStep, Slash, SlashStake
    <2>6. CASE EvidenceStep
        BY <2>6, Zenon DEF EvidenceStep, SubmitEvidence, SlashStake
    <2>7. CASE RewardStep
        BY <2>7, Zenon DEF RewardStep, DistributeReward, stakeVars
    <2>8. CASE VRFKeyStep
        BY <2>8, Zenon DEF VRFKeyStep, RegisterVRFKey
    <2>9. CASE NextBlock
        BY <2>9, Zenon DEF NextBlock, stakeVars
    <2> QED
        BY <1>4, <2>1, <2>2, <2>3, <2>4, <2>5, <2>6, <2>7, <2>8, <2>9 DEF LedgerStep
<1>5. CASE UNCHANGED chainVars
    BY <1>5, Zenon DEF chainVars, ledgerVars, stakeVars
<1> QED
    BY <1>1, <1>2, <1>3, <1>4, <1>5, Zenon DEF ChainNext

(* Every transaction but NextBlock executes at the current block's time. *)
LEMMA LedgerMapsToRegistry ==
    ASSUME LedgerStep, ActiveInv, ActiveInv'
    PROVE  Registry!Next \/ UNCHANGED Registry!vars
<1>1. UNCHANGED registryVars
    BY Zenon DEF LedgerStep
<1>2. CASE NextBlock
    <2>1. Registry!NextBlock
        BY <1>1, <1>2, Zenon DEF NextBlock, Registry!NextBlock, registryVars, stakeVars
    <2> QED
        BY <2>1, Zenon DEF Registry!Next
<1>3. CASE ~ NextBlock
    <2>1. UNCHANGED now
        BY <1>3 DEF LedgerStep, TransferStep, Transfer, StakeStep, Stake,
                    InitiateUnstakeStep, InitiateUnstake, CompleteUnstakeStep,
                    CompleteUnstake, SlashStep, Slash, EvidenceStep, SubmitEvidence,
                    RewardStep, DistributeReward, VRFKeyStep, RegisterVRFKey
    <2>2. CASE active' = active
        BY <1>1, <2>1, <2>2, Zenon DEF registryVars, Registry!vars
    <2>3. CASE active' # active
        <3>1. Registry!ValidatorSetChange
            BY <1>1, <2>1, <2>3, Zenon DEF ActiveInv, registryVars, Registry!ValidatorSetChange
        <3> QED
            BY <3>1, Zenon DEF Registry!Next
    <2> QED
        BY <2>2, <2>3, Zenon
<1> QED
    BY <1>2, <1>3, Zenon

(* Every transaction of the executor is one of the registry, or hidden. *)
LEMMA ChainStepMaps ==
    ASSUME [ChainNext]_chainVars, ActiveInv, ActiveInv'
    PROVE  Registry!Next \/ UNCHANGED Registry!vars
<1>1. CASE VoteStep
    <2>1. Registry!VoteStep
        BY <1>1, Zenon DEF VoteStep, SubmitVote, Registry!VoteStep
    <2> QED
        BY <2>1, Zenon DEF Registry!Next
<1>2. CASE SettleStep
    <2>1. Registry!SettleStep
        BY <1>2, Zenon DEF SettleStep, SubmitSettlingVote, Registry!SettleStep
    <2> QED
        BY <2>1, Zenon DEF Registry!Next
<1>3. CASE PayLinkStep
    BY <1>3, Zenon DEF PayLinkStep, Registry!Next
<1>4. CASE LedgerStep
    BY <1>4, LedgerMapsToRegistry, Zenon
<1>5. CASE UNCHANGED chainVars
    BY <1>5, Zenon DEF chainVars, registryVars, ledgerVars, stakeVars, Registry!vars
<1> QED
    BY <1>1, <1>2, <1>3, <1>4, <1>5, Zenon DEF ChainNext

(* The executor with its real staking, slashing and fee transactions        *)
(* behaves like the registry, whose validator set changes arbitrarily: what *)
(* is proved of PayLinkRegistry holds of every chain.                       *)
THEOREM ExecutorImplementsRegistry == ChainSpec => ImplementsRegistry
<1>1. ChainInit => ActiveInv /\ Registry!Init
    BY Zenon DEF ChainInit, Init, ActiveInv, Registry!Init
<1>2. ActiveInv /\ [ChainNext]_chainVars => ActiveInv'
    BY ActiveNext, Zenon
<1>3. ActiveInv /\ ActiveInv' /\ [ChainNext]_chainVars => [Registry!Next]_(Registry!vars)
    BY ChainStepMaps, Zenon
<1> QED
    BY <1>1, <1>2, <1>3, PTL DEF ChainSpec, ImplementsRegistry, Registry!Spec

-----------------------------------------------------------------------------
(* ChainExecutor: the ledger as the executor drives it.                     *)

(* What the fees need to know of a PayLink: its amount is a number, it has   *)
(* no votes before it exists, and an open one is below the quorum.           *)
LinkOk(r) ==
    /\ r.status = "NONE" => r.voteCount = 0
    /\ r.status = "CREATED" => r.voteCount < RequiredValidations

LinksInv == paylinks \in [PayLinkId -> Registry!PayLink] /\ \A p \in PayLinkId : LinkOk(paylinks[p])

(* Settled PayLinks stay settled, for the amount they were settled for. *)
SettledKept ==
    \A p \in PayLinkId : Registry!Settled(p) =>
        paylinks'[p].voteCount >= RequiredValidations /\ paylinks'[p].amount = paylinks[p].amount

(* A transaction on one PayLink, told by the fields of its new record. *)
LEMMA LinkChanges ==
    ASSUME LinksInv, NEW id \in PayLinkId, paylinks' \in [PayLinkId -> Registry!PayLink],
           \A p \in PayLinkId \ {id} : paylinks'[p] = paylinks[p], LinkOk(paylinks'[id]),
           Registry!Settled(id) =>
               paylinks'[id].voteCount >= RequiredValidations /\ paylinks'[id].amount = paylinks[id].amount
    PROVE  LinksInv' /\ SettledKept
<1>1. \A p \in PayLinkId : LinkOk(paylinks'[p])
    BY Zenon DEF LinksInv
<1>2. LinksInv'
    BY <1>1, Zenon DEF LinksInv, LinkOk, Registry!PayLink, Registry!Status
<1>3. SettledKept
    BY Zenon DEF SettledKept, Registry!Settled
<1>4. QED  BY <1>2, <1>3, Zenon

(* A transaction that writes the whole record. *)
LEMMA LinkSet ==
    ASSUME LinksInv, NEW id \in PayLinkId, NEW r \in Registry!PayLink, LinkOk(r),
           paylinks' = [paylinks EXCEPT ![id] = r],
           Registry!Settled(id) => r.voteCount >= RequiredValidations /\ r.amount = paylinks[id].amount
    PROVE  LinksInv' /\ SettledKept
<1>1. paylinks \in [PayLinkId -> Registry!PayLink]
    BY Zenon DEF LinksInv
<1>2. paylinks' \in [PayLinkId -> Registry!PayLink] /\ paylinks'[id] = r
      /\ \A p \in PayLinkId \ {id} : paylinks'[p] = paylinks[p]
    BY <1>1, Zenon
<1>3. QED  BY <1>2, LinkChanges, Zenon

(* The transactions that touch PayLinks only, and the votes below quorum. *)
LEMMA LinksStep ==
    ASSUME LinksInv, PayLinkStep \/ VoteStep
    PROVE  LinksInv' /\ SettledKept
<1>0. paylinks \in [PayLinkId -> Registry!PayLink] /\ RequiredValidations \in Nat \ {0}
    BY ChainAssumption, Zenon DEF LinksInv
<1>a. ASSUME NEW id \in PayLinkId
      PROVE  paylinks[id] \in Registry!PayLink /\ LinkOk(paylinks[id])
    BY <1>0, Zenon DEF LinksInv
<1>1. CASE Registry!CreateStep
    <2>1. PICK from \in Creators, id \in PayLinkId, receiver \in {Zero, Admin},
               amount \in Amounts, expiry \in 0..MaxTime, ruleSet \in RuleSets :
                   Registry!CreatePayLink(from, id, receiver, amount, expiry, ruleSet)
        BY <1>1, Zenon DEF Registry!CreateStep
    <2> DEFINE r == [status |-> "CREATED", creator |-> from, owner |-> from, approved |-> Zero,
                     amount |-> amount, expiry |-> expiry, voteCount |-> 0, transferCount |-> 0,
                     rules |-> ruleSet]
    <2>2. paylinks[id].status = "NONE" /\ paylinks' = [paylinks EXCEPT ![id] = r]
        BY <2>1, Zenon DEF Registry!CreatePayLink
    <2>3. r \in Registry!PayLink
        BY ChainAssumption, GenesisAssumption DEF Registry!PayLink, Registry!Status
    <2>4. LinkOk(r)
        BY <1>0 DEF LinkOk
    <2>5. ~ Registry!Settled(id)
        BY <1>0, <1>a, <2>2 DEF LinkOk, Registry!Settled
    <2> HIDE DEF r
    <2>6. QED  BY <2>2, <2>3, <2>4, <2>5, LinkSet, Zenon
<1>2. CASE Registry!CancelStep
    <2>1. PICK id \in PayLinkId : paylinks' = [paylinks EXCEPT ![id].status = "CANCELLED"]
        BY <1>2, Zenon DEF Registry!CancelStep, Registry!CancelPayLink
    <2> DEFINE r == [paylinks[id] EXCEPT !.status = "CANCELLED"]
    <2>2. paylinks' = [paylinks EXCEPT ![id] = r]
        BY <2>1, Zenon
    <2>3. /\ r \in Registry!PayLink /\ r.voteCount = paylinks[id].voteCount
          /\ r.amount = paylinks[id].amount /\ r.status = "CANCELLED"
        BY <1>a DEF Registry!PayLink, Registry!Status
    <2> HIDE DEF r
    <2>4. LinkOk(r)
        BY <2>3, Zenon DEF LinkOk
    <2>5. QED  BY <2>2, <2>3, <2>4, LinkSet, Zenon DEF Registry!Settled
<1>3. CASE Registry!FailStep
    <2>1. PICK id \in PayLinkId : paylinks' = [paylinks EXCEPT ![id].status = "FAILED"]
        BY <1>3, Zenon DEF Registry!FailStep, Registry!FailPayLink
    <2> DEFINE r == [paylinks[id] EXCEPT !.status = "FAILED"]
    <2>2. paylinks' = [paylinks EXCEPT ![id] = r]
        BY <2>1, Zenon
    <2>3. /\ r \in Registry!PayLink /\ r.voteCount = paylinks[id].voteCount
          /\ r.amount = paylinks[id].amount /\ r.status = "FAILED"
        BY <1>a DEF Registry!PayLink, Registry!Status
    <2> HIDE DEF r
    <2>4. LinkOk(r)
        BY <2>3, Zenon DEF LinkOk
    <2>5. QED  BY <2>2, <2>3, <2>4, LinkSet, Zenon DEF Registry!Settled
<1>4. CASE Registry!TransferStep
    <2>1. PICK id \in PayLinkId, to \in TransferTo :
              paylinks' = [paylinks EXCEPT ![id].owner = to, ![id].approved = Zero,
                                           ![id].transferCount = @ + 1]
        BY <1>4, Zenon DEF Registry!TransferStep, Registry!TransferPayLink, Registry!SetPayLinkOwner
    <2>2. to \in Addr
        BY ChainAssumption, Zenon
    <2>3. /\ paylinks' \in [PayLinkId -> Registry!PayLink]
          /\ \A p \in PayLinkId \ {id} : paylinks'[p] = paylinks[p]
        BY <1>0, <2>1, <2>2 DEF Registry!PayLink
    <2>4. /\ paylinks'[id].voteCount = paylinks[id].voteCount
          /\ paylinks'[id].amount = paylinks[id].amount /\ paylinks'[id].status = paylinks[id].status
        BY <1>0, <2>1 DEF Registry!PayLink
    <2>5. LinkOk(paylinks'[id])
        BY <1>a, <2>4, Zenon DEF LinkOk
    <2>6. QED  BY <2>3, <2>4, <2>5, LinkChanges, Zenon DEF Registry!Settled
<1>5. CASE Registry!ApproveStep
    <2>1. PICK id \in PayLinkId, a \in Delegates \cup {Zero} :
              paylinks' = [paylinks EXCEPT ![id].approved = a]
        BY <1>5, Zenon DEF Registry!ApproveStep, Registry!ApprovePayLink
    <2> DEFINE r == [paylinks[id] EXCEPT !.approved = a]
    <2>2. paylinks' = [paylinks EXCEPT ![id] = r]
        BY <2>1, Zenon
    <2>3. /\ r \in Registry!PayLink /\ r.voteCount = paylinks[id].voteCount
          /\ r.amount = paylinks[id].amount /\ r.status = paylinks[id].status
        BY <1>a, ChainAssumption DEF Registry!PayLink, Registry!Status
    <2> HIDE DEF r
    <2>4. LinkOk(r)
        BY <1>a, <2>3, Zenon DEF LinkOk
    <2>5. QED  BY <2>2, <2>3, <2>4, LinkSet, Zenon DEF Registry!Settled
<1>6. CASE Registry!OperatorStep
    <2>1. paylinks' = paylinks
        BY <1>6, Zenon DEF Registry!OperatorStep, Registry!SetApprovalForAll
    <2>2. QED  BY <2>1, Zenon DEF LinksInv, LinkOk, SettledKept, Registry!Settled, Registry!PayLink, Registry!Status
<1>7. CASE VoteStep
    <2>1. PICK from \in Addr, id \in PayLinkId, proof \in Proof : Registry!SubmitVote(from, id, proof)
        BY <1>7, Zenon DEF VoteStep, SubmitVote
    <2> DEFINE r == [paylinks[id] EXCEPT !.voteCount = paylinks[id].voteCount + 1]
    <2>2. paylinks' = [paylinks EXCEPT ![id].voteCount = @ + 1] /\ ~ Registry!ReachesQuorum(id)
        BY <2>1, Zenon DEF Registry!SubmitVote
    <2>3. paylinks' = [paylinks EXCEPT ![id] = r]
        BY <2>2, Zenon
    <2>4. /\ r \in Registry!PayLink /\ r.voteCount = paylinks[id].voteCount + 1
          /\ r.amount = paylinks[id].amount /\ r.status = paylinks[id].status
          /\ paylinks[id].voteCount \in Nat
        BY <1>a DEF Registry!PayLink, Registry!Status
    <2>5. r.status # "NONE"
        BY <2>1, <2>4, Zenon DEF Registry!SubmitVote, Registry!MayVote
    <2> HIDE DEF r
    <2>6. LinkOk(r) /\ ~ Registry!Settled(id)
        BY <1>0, <2>2, <2>4, <2>5 DEF LinkOk, Registry!ReachesQuorum, Registry!Settled
    <2>7. QED  BY <2>3, <2>4, <2>6, LinkSet, Zenon
<1>8. QED  BY <1>1, <1>2, <1>3, <1>4, <1>5, <1>6, <1>7, Zenon DEF PayLinkStep

(* The vote that settles. *)
LEMMA LinksSettle ==
    ASSUME LinksInv, NEW from \in Addr, NEW id \in PayLinkId, NEW proof \in Proof,
           Registry!SubmitSettlingVote(from, id, proof)
    PROVE  /\ LinksInv' /\ SettledKept /\ ~ Registry!Settled(id)
           /\ paylinks'[id].voteCount >= RequiredValidations
           /\ paylinks'[id].amount = paylinks[id].amount /\ paylinks[id].amount \in Nat
<1>0. /\ RequiredValidations \in Nat \ {0} /\ paylinks \in [PayLinkId -> Registry!PayLink]
      /\ paylinks[id] \in Registry!PayLink /\ LinkOk(paylinks[id])
    BY ChainAssumption, Zenon DEF LinksInv
<1>1. /\ paylinks' = [paylinks EXCEPT ![id].status = "VERIFIED", ![id].voteCount = @ + 1]
      /\ Registry!ReachesQuorum(id) /\ paylinks[id].status = "CREATED"
    BY Zenon DEF Registry!SubmitSettlingVote, Registry!MayVote
<1>2. paylinks[id].voteCount + 1 \in Nat /\ paylinks[id].voteCount \in Nat /\ paylinks[id].amount \in Nat
      /\ "VERIFIED" \in Registry!Status
    BY <1>0 DEF Registry!PayLink, Registry!Status
<1>3. paylinks' \in [PayLinkId -> Registry!PayLink]
    BY <1>0, <1>1, <1>2, Zenon DEF Registry!PayLink
<1>4. \A p \in PayLinkId \ {id} : paylinks'[p] = paylinks[p]
    BY <1>0, <1>1, Zenon
<1>5. /\ paylinks'[id].voteCount = paylinks[id].voteCount + 1
      /\ paylinks'[id].amount = paylinks[id].amount /\ paylinks'[id].status = "VERIFIED"
    BY <1>0, <1>1 DEF Registry!PayLink
<1>6. LinkOk(paylinks'[id])
    BY <1>5, Zenon DEF LinkOk
<1>7. ~ Registry!Settled(id)
    BY <1>0, <1>1, <1>2 DEF LinkOk, Registry!Settled
<1>8. paylinks'[id].voteCount >= RequiredValidations
    BY <1>1, <1>5, Zenon DEF Registry!ReachesQuorum
<1>9. LinksInv' /\ SettledKept
    BY <1>3, <1>4, <1>6, <1>7, LinkChanges, Zenon
<1>10. QED  BY <1>2, <1>5, <1>7, <1>8, <1>9, Zenon

(* Without slashes and evidence no stake is cut under a withdrawal. *)
LEMMA UnslashedSpares ==
    ASSUME LedgerInv, WithdrawalCovered, Next, ~ SlashStep, ~ EvidenceStep
    PROVE  SparesWithdrawals
<1>0. /\ staked \in [Addr -> Nat] /\ pending \in [Addr -> Nat]
      /\ \A a \in Addr : staked[a] \in Nat /\ pending[a] \in Nat
    BY Zenon DEF LedgerInv, TypeOK
<1>1. CASE staked' = staked
    BY <1>0, <1>1 DEF SparesWithdrawals
<1>2. CASE StakeStep
    <2>1. PICK from \in Addr, n \in StakeAmounts : Stake(from, n)
        BY <1>2, Zenon DEF StakeStep
    <2>2. n \in Nat
        BY AmountsAssumption, Zenon
    <2>3. staked' = [staked EXCEPT ![from] = staked[from] + n]
        BY <2>1, <2>2, StakeKeeps, Zenon
    <2>4. QED  BY <1>0, <2>2, <2>3 DEF SparesWithdrawals
<1>3. CASE CompleteUnstakeStep
    <2>1. PICK from \in Addr : CompleteUnstake(from)
        BY <1>3, Zenon DEF CompleteUnstakeStep
    <2>2. /\ pending' = [pending EXCEPT ![from] = 0]
          /\ staked' = [staked EXCEPT ![from] = staked[from] - pending[from]]
        BY <2>1, WithdrawKeeps, Zenon DEF CompleteUnstake
    <2>3. QED  BY <1>0, <2>2 DEF SparesWithdrawals
<1>4. CASE TransferStep \/ InitiateUnstakeStep \/ RewardStep \/ VRFKeyStep \/ FeeStep \/ NextBlock
    BY <1>1, <1>4, Zenon DEF TransferStep, Transfer, InitiateUnstakeStep, InitiateUnstake, RewardStep,
             DistributeReward, VRFKeyStep, RegisterVRFKey, FeeStep, SettlementFees, NextBlock, stakeVars
<1>5. QED  BY <1>2, <1>3, <1>4, Zenon DEF Next

(* Transactions on PayLinks only leave the ledger and the clock alone. *)
LEMMA PayLinkStepQuiet ==
    ASSUME PayLinkStep \/ VoteStep
    PROVE  UNCHANGED vars
<1>1. UNCHANGED ledgerVars
    BY Zenon DEF PayLinkStep, VoteStep, SubmitVote
<1>2. now' = now
    <2>1. CASE PayLinkStep
        BY <2>1, Zenon DEF PayLinkStep, Registry!CreateStep, Registry!CreatePayLink, Registry!CancelStep,
                 Registry!CancelPayLink, Registry!FailStep, Registry!FailPayLink, Registry!TransferStep,
                 Registry!TransferPayLink, Registry!ApproveStep, Registry!ApprovePayLink,
                 Registry!OperatorStep, Registry!SetApprovalForAll
    <2>2. CASE VoteStep
        BY <2>2, Zenon DEF VoteStep, SubmitVote, Registry!SubmitVote
    <2>3. QED  BY <2>1, <2>2, Zenon
<1>3. QED  BY <1>1, <1>2, Zenon DEF ledgerVars, vars

(* The settling vote pays the fee of its PayLink, of whose voters at least  *)
(* the last one is active.                                                  *)
LEMMA SettleIsFee ==
    ASSUME SettleStep
    PROVE  \E from \in Addr, id \in PayLinkId, proof \in Proof, voters \in SUBSET Addr :
               /\ Registry!SubmitSettlingVote(from, id, proof)
               /\ SettlementFees(paylinks[id].amount, voters)
<1>1. PICK from \in Addr, id \in PayLinkId, proof \in Proof : SubmitSettlingVote(from, id, proof)
    BY Zenon DEF SettleStep
<1> DEFINE voters == Registry!Voters(id) \cup {from}
<1>2. Registry!SubmitSettlingVote(from, id, proof) /\ CollectAndDistributeFees(paylinks[id].amount, voters)
      /\ UNCHANGED stakeVars
    BY <1>1, Zenon DEF SubmitSettlingVote
<1>3. from \in active /\ now' = now
    BY <1>2, Zenon DEF Registry!SubmitSettlingVote, Registry!MayVote
<1>4. voters \in SUBSET Addr /\ voters \cap active # {}
    BY <1>3, Zenon DEF Registry!Voters
<1> HIDE DEF voters
<1>5. SettlementFees(paylinks[id].amount, voters)
    BY <1>2, <1>3, <1>4, Zenon DEF SettlementFees
<1>6. QED  BY <1>2, <1>4, <1>5, Zenon

(* The invariant of the whole executor. *)
ChainInv == LedgerInv /\ WithdrawalCovered /\ LinksInv /\ totalBurned < Word

(* A new chain. *)
LEMMA ChainInvInit == ASSUME ChainInit PROVE ChainInv
<1>1. LedgerInv /\ WithdrawalCovered /\ totalBurned < Word
    BY LedgerInit, Zenon DEF ChainInit
<1>2. LinksInv
    BY ChainAssumption, Zenon DEF ChainInit, LinksInv, LinkOk, Registry!NoPayLink, Registry!PayLink, Registry!Status
<1>3. QED  BY <1>1, <1>2, Zenon DEF ChainInv

(* Every transaction of the executor keeps it. *)
LEMMA ChainInvStep ==
    ASSUME ChainInv, ChainNext, SparesWithdrawals
    PROVE  ChainInv'
<1>0. LedgerInv /\ WithdrawalCovered /\ LinksInv /\ totalBurned < Word
    BY Zenon DEF ChainInv
<1>1. CASE LedgerStep
    <2>1. Next /\ paylinks' = paylinks
        BY <1>1, Zenon DEF LedgerStep, Next, registryVars
    <2>2. LedgerInv' /\ totalBurned' < Word
        BY <1>0, <2>1, LedgerStepKeeps, BurnedStep, Zenon
    <2>3. WithdrawalCovered'
        BY <1>0, <2>1, <2>2, CoverKept, Zenon
    <2>4. LinksInv'
        BY <1>0, <2>1, Zenon DEF LinksInv, LinkOk, Registry!PayLink, Registry!Status
    <2>5. QED  BY <2>2, <2>3, <2>4, Zenon DEF ChainInv
<1>2. CASE PayLinkStep \/ VoteStep
    <2>1. UNCHANGED vars /\ LinksInv'
        BY <1>0, <1>2, PayLinkStepQuiet, LinksStep, Zenon
    <2>2. LedgerInv' /\ WithdrawalCovered'
        BY <1>0, <2>1, LedgerStutters, Zenon
    <2>3. totalBurned' < Word
        BY <1>0, <2>1, Zenon DEF vars, supplyVars
    <2>4. QED  BY <2>1, <2>2, <2>3, Zenon DEF ChainInv
<1>3. CASE SettleStep
    <2>1. PICK from \in Addr, id \in PayLinkId, proof \in Proof, voters \in SUBSET Addr :
              Registry!SubmitSettlingVote(from, id, proof) /\ SettlementFees(paylinks[id].amount, voters)
        BY <1>3, SettleIsFee, Zenon
    <2>2. LinksInv' /\ paylinks[id].amount \in Nat
        BY <1>0, <2>1, LinksSettle, Zenon
    <2>3. LedgerInv' /\ (totalBurned' = totalBurned \/ \E b \in Nat : totalBurned' = Wrap(totalBurned + b))
        BY <1>0, <2>1, <2>2, FeeKeeps, Zenon
    <2>4. totalBurned' < Word
        <3>1. totalBurned \in Nat
            BY <1>0, Zenon DEF LedgerInv, TypeOK
        <3>2. \A b \in Nat : totalBurned + b \in Nat
            BY <3>1
        <3>3. QED  BY <1>0, <2>3, <3>2, NoWrap, Zenon
    <2>5. WithdrawalCovered'
        BY <1>0, <2>1, Zenon DEF WithdrawalCovered, SettlementFees, stakeVars
    <2>6. QED  BY <2>2, <2>3, <2>4, <2>5, Zenon DEF ChainInv
<1>4. QED  BY <1>1, <1>2, <1>3, Zenon DEF ChainNext

(* A step that changes nothing. *)
LEMMA ChainInvStutters == ASSUME ChainInv, UNCHANGED chainVars PROVE ChainInv'
<1>1. UNCHANGED vars /\ paylinks' = paylinks
    BY Zenon DEF chainVars, ledgerVars, registryVars, vars
<1>2. LedgerInv' /\ WithdrawalCovered'
    BY <1>1, LedgerStutters, Zenon DEF ChainInv
<1>3. totalBurned' < Word
    BY <1>1, Zenon DEF ChainInv, vars, supplyVars
<1>4. LinksInv'
    BY <1>1, Zenon DEF ChainInv, LinksInv, LinkOk, Registry!PayLink, Registry!Status
<1>5. QED  BY <1>2, <1>3, <1>4, Zenon DEF ChainInv

(* The executor as a whole keeps the books, with the votes, settlements and *)
(* fees of real PayLinks, on the same condition as the ledger alone.        *)
THEOREM ExecutorSupplyBacked ==
    ChainSpec /\ [][SparesWithdrawals]_chainVars => [](TypeOK /\ SupplyBacked /\ WithdrawalCovered)
<1>1. ChainInit => ChainInv
    BY ChainInvInit, Zenon
<1>2. ChainInv /\ [ChainNext]_chainVars /\ [SparesWithdrawals]_chainVars => ChainInv'
    BY ChainInvStep, ChainInvStutters, Zenon
<1>3. ChainInv => TypeOK /\ SupplyBacked /\ WithdrawalCovered
    BY Zenon DEF ChainInv, LedgerInv
<1>4. QED  BY <1>1, <1>2, <1>3, PTL DEF ChainSpec

-----------------------------------------------------------------------------
(* ChainExecutor: tokens are minted and withheld for settlements only.      *)

Minted(paid) == [p \in paid |-> MintOf(p).minted]
Withheld(paid) == [p \in paid |-> MintOf(p).withheld]

(* What the ledger shows is the fees of the PayLinks in a set. *)
PaidFor(paid) ==
    /\ IsFiniteSet(paid) /\ paid \subseteq PayLinkId
    /\ \A p \in paid : Registry!Settled(p)
    /\ totalSupply = SumFunction(InitialBalance) + SumFunction(Minted(paid))
    /\ totalBurned = SumFunction(Withheld(paid))

(* The fee of a settled PayLink does not change. *)
LEMMA MintKept ==
    ASSUME SettledKept, NEW p \in PayLinkId, Registry!Settled(p)
    PROVE  MintOf(p)' = MintOf(p) /\ Registry!Settled(p)'
<1>1. paylinks'[p].voteCount >= RequiredValidations /\ paylinks'[p].amount = paylinks[p].amount
    BY Zenon DEF SettledKept
<1>2. Registry!Settled(p)'
    BY <1>1, Zenon DEF Registry!Settled
<1>3. MintOf(p)' = MintOf(p)
    BY <1>1 DEF MintOf, CalculateFee, Wrap
<1>4. QED  BY <1>2, <1>3, Zenon

(* A transaction that moves no fee. *)
LEMMA FeesQuiet ==
    ASSUME NEW paid, PaidFor(paid), SettledKept, totalSupply' = totalSupply, totalBurned' = totalBurned
    PROVE  PaidFor(paid)'
<1>1. paid \subseteq PayLinkId /\ \A p \in paid : Registry!Settled(p)
    BY Zenon DEF PaidFor
<1>2. \A p \in paid : MintOf(p)' = MintOf(p) /\ Registry!Settled(p)'
    BY <1>1, MintKept, Zenon
<1>3. Minted(paid)' = Minted(paid) /\ Withheld(paid)' = Withheld(paid)
    BY <1>2, Zenon DEF Minted, Withheld
<1>4. QED  BY <1>1, <1>2, <1>3, Zenon DEF PaidFor

(* A settlement adds its own PayLink to those that were paid for. *)
LEMMA FeesSettle ==
    ASSUME ChainInv, LinksInv', NEW paid, PaidFor(paid), SettledKept, NEW id \in PayLinkId,
           ~ Registry!Settled(id), Registry!Settled(id)', paylinks'[id].amount = paylinks[id].amount,
           totalSupply' = totalSupply + MintOf(id).minted, totalBurned' = totalBurned + MintOf(id).withheld
    PROVE  PaidFor(paid \cup {id})'
<1> DEFINE all == paid \cup {id}
<1>0. ASSUME NEW f, NEW g, DOMAIN f = paid, DOMAIN g = paid \cup {id},
             \A p \in paid : g[p] = f[p] /\ f[p] \in Int, g[id] \in Int
      PROVE  SumFunction(g) = SumFunction(f) + g[id]
    <2>1. IsFiniteSet(paid) /\ id \notin paid
        BY Zenon DEF PaidFor
    <2>2. \A p \in paid : g[p] = f[p]
        BY <1>0, Zenon
    <2>3. \A p \in paid : f[p] \in Int
        BY <1>0, Zenon
    <2>4. SumFunctionOnSet(g, paid \cup {id}) = SumFunctionOnSet(f, paid) + g[id]
        <3>1. g[id] \in Int
            BY <1>0, Zenon
        <3>2. PICK Q : Q = paid \cup {id}
            BY Zenon
        <3>3. IsFiniteSet(Q) /\ id \in Q /\ Q \ {id} = paid
            BY <2>1, <3>2, FS_AddElement
        <3>4. \A p \in Q : g[p] \in Int
            BY <2>2, <2>3, <3>1, <3>2
        <3>5. SumFunctionOnSet(g, Q) = g[id] + SumFunctionOnSet(g, paid)
            BY <3>3, <3>4, SumRemove
        <3>6. SumFunctionOnSet(g, paid) = SumFunctionOnSet(f, paid)
            BY <2>1, <2>2, SumSame, Zenon
        <3>7. SumFunctionOnSet(f, paid) \in Int
            BY <2>1, <2>3, SumType, Zenon
        <3>8. QED  BY <3>1, <3>2, <3>5, <3>6, <3>7
    <2>5. QED  BY <1>0, <2>4, Zenon DEF SumFunction
<1>1. /\ IsFiniteSet(paid) /\ paid \subseteq PayLinkId /\ id \notin paid
      /\ \A p \in paid : Registry!Settled(p)
    BY Zenon DEF PaidFor
<1>2. \A p \in paid : MintOf(p)' = MintOf(p) /\ Registry!Settled(p)'
    BY <1>1, MintKept, Zenon
<1>3. MintOf(id)' = MintOf(id)
    BY DEF MintOf, CalculateFee, Wrap
<1>4. ASSUME NEW p \in PayLinkId PROVE MintOf(p).minted \in Nat /\ MintOf(p).withheld \in Nat
    <2>1. paylinks[p].amount \in Nat
        BY DEF ChainInv, LinksInv, Registry!PayLink
    <2>2. /\ CalculateFee(paylinks[p].amount).validators \in Nat
          /\ CalculateFee(paylinks[p].amount).treasury \in Nat
          /\ CalculateFee(paylinks[p].amount).burn \in Nat
        BY <2>1, FeeParts
    <2>3. QED  BY <2>2 DEF MintOf
<1>5. /\ DOMAIN Minted(paid) = paid /\ DOMAIN Withheld(paid) = paid
      /\ DOMAIN Minted(all)' = all /\ DOMAIN Withheld(all)' = all
    BY Zenon DEF Minted, Withheld
<1>6. /\ \A p \in paid : Minted(all)'[p] = Minted(paid)[p] /\ Withheld(all)'[p] = Withheld(paid)[p]
      /\ Minted(all)'[id] = MintOf(id).minted /\ Withheld(all)'[id] = MintOf(id).withheld
    BY <1>2, <1>3, Zenon DEF Minted, Withheld
<1>7. \A p \in paid : Minted(paid)[p] \in Int /\ Withheld(paid)[p] \in Int
    BY <1>1, <1>4 DEF Minted, Withheld
<1>8. MintOf(id).minted \in Int /\ MintOf(id).withheld \in Int
    BY <1>4
<1>9. SumFunction(Minted(all)') = SumFunction(Minted(paid)) + MintOf(id).minted
    <2>1. PICK f, g : f = Minted(paid) /\ g = Minted(all)'
        BY Zenon
    <2>2. DOMAIN f = paid /\ DOMAIN g = paid \cup {id}
        BY <1>5, <2>1, Zenon
    <2>3. \A p \in paid : g[p] = f[p] /\ f[p] \in Int
        BY <1>6, <1>7, <2>1, Zenon
    <2>4. g[id] = MintOf(id).minted
        BY <1>6, <2>1, Zenon
    <2>7. g[id] \in Int
        BY <1>8, <2>4, Zenon
    <2>5. SumFunction(g) = SumFunction(f) + g[id]
        BY <1>0, <2>2, <2>3, <2>7, Zenon
    <2>6. QED  BY <2>1, <2>4, <2>5, Zenon
<1>10. SumFunction(Withheld(all)') = SumFunction(Withheld(paid)) + MintOf(id).withheld
    <2>1. PICK f, g : f = Withheld(paid) /\ g = Withheld(all)'
        BY Zenon
    <2>2. DOMAIN f = paid /\ DOMAIN g = paid \cup {id}
        BY <1>5, <2>1, Zenon
    <2>3. \A p \in paid : g[p] = f[p] /\ f[p] \in Int
        BY <1>6, <1>7, <2>1, Zenon
    <2>4. g[id] = MintOf(id).withheld
        BY <1>6, <2>1, Zenon
    <2>7. g[id] \in Int
        BY <1>8, <2>4, Zenon
    <2>5. SumFunction(g) = SumFunction(f) + g[id]
        BY <1>0, <2>2, <2>3, <2>7, Zenon
    <2>6. QED  BY <2>1, <2>4, <2>5, Zenon
<1>11. SumFunction(Minted(paid)) \in Int /\ SumFunction(InitialBalance) \in Int
    <2>1. SumFunction(Minted(paid)) \in Int
        BY <1>1, <1>5, <1>7, SumType DEF SumFunction
    <2>2. InitialBalance \in [Accounts -> Nat] /\ Admin \in Accounts
        BY LedgerAssumption, Zenon DEF Accounts
    <2>3. SumFunction(InitialBalance) \in Nat
        BY <2>2, FinitelyMany, SumElement, Zenon
    <2>4. QED  BY <2>1, <2>3
<1>12. totalSupply' = SumFunction(InitialBalance) + SumFunction(Minted(all)')
    BY <1>8, <1>9, <1>11 DEF PaidFor
<1>13. totalBurned' = SumFunction(Withheld(all)')
    BY <1>10, Zenon DEF PaidFor
<1>14. IsFiniteSet(all) /\ all \subseteq PayLinkId /\ \A p \in all : Registry!Settled(p)'
    BY <1>1, <1>2, FS_AddElement
<1>15. QED  BY <1>12, <1>13, <1>14, Zenon DEF PaidFor

(* One transaction, with nobody slashed. *)
LEMMA FeesStep ==
    ASSUME ChainInv, ChainNext, ~ SlashStep, ~ EvidenceStep, totalBurned' >= totalBurned,
           NEW paid, PaidFor(paid)
    PROVE  \E more : PaidFor(more)'
<1>0. LedgerInv /\ WithdrawalCovered /\ LinksInv /\ totalBurned < Word
    BY Zenon DEF ChainInv
<1>1. CASE LedgerStep
    <2>1. paylinks' = paylinks
        BY <1>1, Zenon DEF LedgerStep, registryVars
    <2>2. SettledKept
        BY <2>1, Zenon DEF SettledKept, Registry!Settled
    <2>3. totalSupply' = totalSupply /\ totalBurned' = totalBurned
        BY <1>1, Zenon DEF LedgerStep, TransferStep, Transfer, StakeStep, Stake, InitiateUnstakeStep,
                 InitiateUnstake, CompleteUnstakeStep, CompleteUnstake, RewardStep, DistributeReward,
                 VRFKeyStep, RegisterVRFKey, NextBlock, supplyVars
    <2>4. QED  BY <2>2, <2>3, FeesQuiet, Zenon
<1>2. CASE PayLinkStep \/ VoteStep
    <2>1. totalSupply' = totalSupply /\ totalBurned' = totalBurned
        BY <1>2, PayLinkStepQuiet, Zenon DEF vars, supplyVars
    <2>2. SettledKept
        BY <1>0, <1>2, LinksStep, Zenon
    <2>3. QED  BY <2>1, <2>2, FeesQuiet, Zenon
<1>3. CASE SettleStep
    <2>1. PICK from \in Addr, id \in PayLinkId, proof \in Proof, voters \in SUBSET Addr :
              Registry!SubmitSettlingVote(from, id, proof) /\ SettlementFees(paylinks[id].amount, voters)
        BY <1>3, SettleIsFee, Zenon
    <2> DEFINE fee == CalculateFee(paylinks[id].amount)
    <2>2. /\ LinksInv' /\ SettledKept /\ ~ Registry!Settled(id)
          /\ paylinks'[id].voteCount >= RequiredValidations
          /\ paylinks'[id].amount = paylinks[id].amount /\ paylinks[id].amount \in Nat
        BY <1>0, <2>1, LinksSettle, Zenon
    <2>3. CASE totalSupply' = totalSupply /\ totalBurned' = totalBurned
        BY <2>2, <2>3, FeesQuiet, Zenon
    <2>4. CASE \E b \in Nat : /\ totalBurned' = Wrap(totalBurned + b) /\ b < Word /\ b = fee.burn
                              /\ (totalSupply' - totalSupply) + b = fee.total
        <3>1. PICK b \in Nat : /\ totalBurned' = Wrap(totalBurned + b) /\ b < Word /\ b = fee.burn
                               /\ (totalSupply' - totalSupply) + b = fee.total
            BY <2>4, Zenon
        <3>2. totalBurned \in Nat /\ totalSupply \in Nat /\ totalSupply' \in Nat
            <4>1. LedgerInv'
                BY <1>0, <2>1, <2>2, FeeKeeps, Zenon
            <4>2. QED  BY <1>0, <4>1, Zenon DEF LedgerInv, TypeOK
        <3>3. totalBurned' = totalBurned + b
            <4>1. PICK x \in Nat : x = totalBurned /\ x < Word
                BY <1>0, <3>2, Zenon
            <4>2. Wrap(x + b) >= x
                BY <3>1, <4>1, Zenon
            <4>3. Wrap(x + b) = x + b
                BY <3>1, <4>1, <4>2, NoWrap, SMT DEF Wrap
            <4>4. QED  BY <3>1, <4>1, <4>3, Zenon
        <3>4. /\ fee.validators \in Nat /\ fee.treasury \in Nat /\ fee.burn \in Nat /\ fee.total \in Nat
              /\ fee.validators + fee.burn + fee.treasury = fee.total
            BY <2>2, FeeParts
        <3>5. MintOf(id).minted = fee.validators + fee.treasury /\ MintOf(id).withheld = fee.burn
            BY Zenon DEF MintOf
        <3> HIDE DEF fee
        <3>6. totalSupply' = totalSupply + MintOf(id).minted
            BY <3>1, <3>2, <3>4, <3>5
        <3>7. totalBurned' = totalBurned + MintOf(id).withheld
            BY <3>1, <3>3, <3>5, Zenon
        <3>8. Registry!Settled(id)'
            BY <2>2, Zenon DEF Registry!Settled
        <3>9. QED  BY <2>2, <3>6, <3>7, <3>8, FeesSettle, Zenon
    <2>5. QED  BY <1>0, <2>1, <2>2, <2>3, <2>4, FeeKeeps, Zenon
<1>4. QED  BY <1>1, <1>2, <1>3, Zenon DEF ChainNext

(* Tokens appear only with settlements, and once for each: as long as       *)
(* nobody is slashed and the burn counter does not wrap, what was minted    *)
(* and withheld is the fee of some of the settled PayLinks.                 *)
THEOREM FeesOnlyForSettlementsAlways ==
    /\ ChainSpec
    /\ [][~ SlashStep /\ ~ EvidenceStep]_chainVars
    /\ [][totalBurned' >= totalBurned]_chainVars
    => []FeesOnlyForSettlements
<1> DEFINE FeesInv == ChainInv /\ \E paid : PaidFor(paid)
           Quiet == ~ SlashStep /\ ~ EvidenceStep
           Grows == totalBurned' >= totalBurned
<1>1. ChainInit => FeesInv
    <2>1. SUFFICES ASSUME ChainInit PROVE FeesInv
        BY Zenon
    <2>2. totalSupply = SumFunction(InitialBalance) /\ totalBurned = 0 /\ ChainInv
        BY <2>1, ChainInvInit, Zenon DEF ChainInit, Init
    <2>3. DOMAIN Minted({}) = {} /\ DOMAIN Withheld({}) = {}
        BY Zenon DEF Minted, Withheld
    <2>4. SumFunction(Minted({})) = 0 /\ SumFunction(Withheld({})) = 0
        BY <2>3, SumEmpty, Zenon DEF SumFunction
    <2>5. totalSupply \in Nat
        BY <2>2, Zenon DEF ChainInv, LedgerInv, TypeOK
    <2>6. totalSupply = SumFunction(InitialBalance) + SumFunction(Minted({}))
        BY <2>2, <2>4, <2>5
    <2>7. PaidFor({})
        BY <2>2, <2>4, <2>6, FS_EmptySet DEF PaidFor
    <2>8. QED  BY <2>2, <2>7, Zenon
<1>2. FeesInv /\ UNCHANGED chainVars => FeesInv'
    <2>1. SUFFICES ASSUME FeesInv, UNCHANGED chainVars PROVE FeesInv'
        BY Zenon
    <2>2. SettledKept /\ totalSupply' = totalSupply /\ totalBurned' = totalBurned
        BY <2>1, Zenon DEF chainVars, registryVars, ledgerVars, supplyVars, SettledKept, Registry!Settled
    <2>3. QED  BY <2>1, <2>2, ChainInvStutters, FeesQuiet, Zenon
<1>3. FeesInv /\ ChainNext /\ Quiet /\ Grows => FeesInv'
    <2>1. SUFFICES ASSUME FeesInv, ChainNext, Quiet, Grows PROVE FeesInv'
        BY Zenon
    <2>2. SparesWithdrawals
        <3>1. LedgerInv /\ WithdrawalCovered
            BY <2>1, Zenon DEF ChainInv
        <3>2. CASE LedgerStep
            <4>1. Next
                BY <3>2, Zenon DEF LedgerStep, Next
            <4>2. QED  BY <2>1, <3>1, <4>1, UnslashedSpares, Zenon
        <3>3. CASE ~ LedgerStep
            <4>1. staked' = staked
                BY <2>1, <3>3, Zenon DEF ChainNext, PayLinkStep, VoteStep, SubmitVote, SettleStep,
                         SubmitSettlingVote, ledgerVars, stakeVars
            <4>2. \A a \in Addr : staked[a] \in Nat
                BY <3>1 DEF LedgerInv, TypeOK
            <4>3. QED  BY <4>1, <4>2 DEF SparesWithdrawals
        <3>4. QED  BY <3>2, <3>3, Zenon
    <2>3. ChainInv'
        BY <2>1, <2>2, ChainInvStep, Zenon
    <2>4. QED  BY <2>1, <2>3, FeesStep, Zenon
<1>4. FeesInv => FeesOnlyForSettlements
    BY Zenon DEF PaidFor, Minted, Withheld, FeesOnlyForSettlements
<1>5. QED
    <2> HIDE DEF FeesInv
    <2>1. QED  BY <1>1, <1>2, <1>3, <1>4, PTL DEF ChainSpec
=============================================================================
