--------------------------- MODULE ChainExecutor ---------------------------
(***************************************************************************)
(* The whole executor: the token ledger of StakeLedger and the PayLinks of *)
(* PayLinkRegistry over one state.  The two halves meet in two places: the *)
(* active flag of a validator, written by the ledger, decides who may vote *)
(* in the registry; and the vote that settles a PayLink mints its fee, in  *)
(* the same transaction.                                                   *)
(***************************************************************************)
EXTENDS StakeLedger

CONSTANTS
    Zero, PayLinkId, Proof, NoProof, RequiredValidations, Amounts, RuleSets,
    Creators, TransferTo, Delegates, MaxTransferCount

ASSUME ChainAssumption ==
    /\ Creators \cup TransferTo \cup Delegates \subseteq Addr
    /\ Amounts \subseteq Nat
    /\ RequiredValidations \in Nat \ {0}

VARIABLES paylinks, votes, submittedProofs, usedProofs, operatorApprovals

registryVars == <<paylinks, votes, submittedProofs, usedProofs, operatorApprovals>>
ledgerVars == <<balance, stakeVars, supplyVars>>
chainVars == <<registryVars, ledgerVars, now>>

Registry == INSTANCE PayLinkRegistry WITH activeValidators <- active

-----------------------------------------------------------------------------

(* Mutant: fees are collected for every vote, not only the settling one. *)
SubmitVoteWithFee(from, id, proof) ==
    /\ Registry!SubmitVote(from, id, proof)
    /\ CollectAndDistributeFees(paylinks[id].amount, Registry!Voters(id) \cup {from})
    /\ UNCHANGED stakeVars

(* A vote below quorum moves no tokens. *)
SubmitVote(from, id, proof) ==
    /\ Registry!SubmitVote(from, id, proof)
    /\ UNCHANGED ledgerVars

(* Mutant: the proof is marked used only when the fee could be paid. *)
SettleMarksIfPaid(from, id, proof) ==
    LET voters == Registry!Voters(id) \cup {from}
    IN  /\ Registry!MayVote(from, id, proof)
        /\ Registry!ReachesQuorum(id)
        /\ Registry!RecordVote(from, id, proof)
        /\ paylinks' = [paylinks EXCEPT ![id].status = "VERIFIED", ![id].voteCount = @ + 1]
        /\ usedProofs' = IF Distributes(CalculateFee(paylinks[id].amount), voters \cap active)
                         THEN usedProofs \cup {proof} ELSE usedProofs
        /\ CollectAndDistributeFees(paylinks[id].amount, voters)
        /\ UNCHANGED <<operatorApprovals, stakeVars, now>>

(* The settling vote pays the fee to those voters that are still active;    *)
(* a fee that cannot be paid does not undo the settlement.                  *)
SubmitSettlingVote(from, id, proof) ==
    /\ Registry!SubmitSettlingVote(from, id, proof)
    /\ CollectAndDistributeFees(paylinks[id].amount, Registry!Voters(id) \cup {from})
    /\ UNCHANGED stakeVars

VoteStep ==
    \E from \in Addr, id \in PayLinkId, proof \in Proof : SubmitVote(from, id, proof)

SettleStep ==
    \E from \in Addr, id \in PayLinkId, proof \in Proof : SubmitSettlingVote(from, id, proof)

(* The transactions that touch PayLinks only. *)
PayLinkStep ==
    /\ \/ Registry!CreateStep
       \/ Registry!CancelStep
       \/ Registry!FailStep
       \/ Registry!TransferStep
       \/ Registry!ApproveStep
       \/ Registry!OperatorStep
    /\ UNCHANGED ledgerVars

(* The transactions that touch tokens and validators only, and the clock.   *)
LedgerStep ==
    /\ \/ TransferStep
       \/ StakeStep
       \/ InitiateUnstakeStep
       \/ CompleteUnstakeStep
       \/ SlashStep
       \/ EvidenceStep
       \/ RewardStep
       \/ VRFKeyStep
       \/ NextBlock
    /\ UNCHANGED registryVars

ChainInit ==
    /\ Init
    /\ paylinks = [p \in PayLinkId |-> Registry!NoPayLink]
    /\ votes = {}
    /\ submittedProofs = [p \in PayLinkId |-> NoProof]
    /\ usedProofs = {}
    /\ operatorApprovals = {}

ChainNext == VoteStep \/ SettleStep \/ PayLinkStep \/ LedgerStep

ChainSpec == ChainInit /\ [][ChainNext]_chainVars

-----------------------------------------------------------------------------
(* Properties.                                                             *)

(* The registry's specification, with the active validators decided by the  *)
(* real staking and slashing transactions.  All that is proved of           *)
(* PayLinkRegistry therefore holds of the executor.                         *)
ImplementsRegistry == Registry!Spec

(* Tokens appear only with a settlement, once per PayLink: as long as       *)
(* nobody is slashed, what has been minted and withheld is the fee of some  *)
(* of the settled PayLinks (a fee the distributor refused is never made up  *)
(* for).                                                                    *)
MintOf(p) ==
    LET fee == CalculateFee(paylinks[p].amount)
    IN  [minted |-> fee.validators + fee.treasury, withheld |-> fee.burn]

FeesOnlyForSettlements ==
    \E paid \in SUBSET {p \in PayLinkId : Registry!Settled(p)} :
        /\ totalSupply = SumFunction(InitialBalance) + SumFunction([p \in paid |-> MintOf(p).minted])
        /\ totalBurned = SumFunction([p \in paid |-> MintOf(p).withheld])
=============================================================================
