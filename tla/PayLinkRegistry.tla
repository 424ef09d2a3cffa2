-------------------------- MODULE PayLinkRegistry --------------------------
(***************************************************************************)
(* The PayLink half of the paylink-chain executor: the life cycle of a     *)
(* PayLink (create, vote, settle, cancel, fail), its NFT-style ownership   *)
(* (transfer, approve, operator approval) and the rules attached to it.    *)
(*                                                                         *)
(* One action is one transaction that the executor applies successfully;   *)
(* a transaction that fails a check is reverted by ExecuteBlock and leaves *)
(* no trace, so it is a step that is not enabled.  Who is an active        *)
(* validator is decided by the staking half (module StakeLedger); here the *)
(* set may change arbitrarily between two transactions, and ChainExecutor  *)
(* shows that the real staking transactions are an instance of that.       *)
(***************************************************************************)
EXTENDS Integers, Sequences, FiniteSets

CONSTANTS
    Addr,                \* addresses that send transactions
    Zero,                \* the zero address
    Admin,               \* genesis.AdminAddress
    PayLinkId,           \* PayLink identifiers
    Proof,               \* settlement proof hashes
    NoProof,             \* "no proof submitted yet"
    RequiredValidations, \* genesis.RequiredValidations
    Amounts,             \* amounts offered to CreatePayLink
    RuleSets,            \* rule sets offered to CreatePayLink
    Creators,            \* addresses that create PayLinks
    TransferTo,          \* destinations offered to TransferPayLink
    Delegates,           \* addresses offered as approved or as operator
    MaxTime,             \* bound on block timestamps
    MaxTransferCount     \* bound on the transfers of one PayLink

ASSUME AddressAssumption ==
    /\ Admin \in Addr
    /\ Zero \notin Addr
    /\ Creators \subseteq Addr
    /\ TransferTo \subseteq Addr
    /\ Delegates \subseteq Addr

ASSUME ProofAssumption == NoProof \notin Proof

ASSUME BoundAssumption ==
    /\ RequiredValidations \in Nat \ {0}
    /\ MaxTime \in Nat
    /\ MaxTransferCount \in Nat
    /\ Amounts \subseteq Nat

ASSUME RuleAssumption ==
    \A ruleSet \in RuleSets : \A r \in ruleSet :
        /\ r.type = "MultiApproval" => r.required \in Nat
        /\ r.type = "MaxTransfers" => r.max \in Nat

VARIABLES
    paylinks,          \* StateDB.paylinks (status NONE: no record)
    votes,             \* StateDB.votes, a set of <<PayLink, validator>>
    submittedProofs,   \* StateDB.submittedProofs
    usedProofs,        \* StateDB.usedProofs
    operatorApprovals, \* StateDB.operatorApprovals, <<owner, operator>>
    activeValidators,  \* {v : validators[v].IsActive}
    now                \* timestamp of the block being executed

vars == <<paylinks, votes, submittedProofs, usedProofs, operatorApprovals,
          activeValidators, now>>

Status == {"NONE", "CREATED", "VERIFIED", "FAILED", "CANCELLED"}

PayLink == [status : Status, creator : Addr \cup {Zero}, owner : Addr \cup {Zero},
            approved : Addr \cup {Zero}, amount : Nat, expiry : Nat,
            voteCount : Nat, transferCount : Nat, rules : RuleSets \cup {{}}]

NoPayLink == [status |-> "NONE", creator |-> Zero, owner |-> Zero,
              approved |-> Zero, amount |-> 0, expiry |-> 0,
              voteCount |-> 0, transferCount |-> 0, rules |-> {}]

Voters(p) == {v \in Addr : <<p, v>> \in votes}

-----------------------------------------------------------------------------
(* The rules engine.  A rule set is a set: every rule must pass, so the    *)
(* order only decides which error is reported.                             *)

ValidRule(r) ==
    CASE r.type = "TimeLock"          -> r.actions # {}
      [] r.type = "MultiApproval"     -> r.required > 0 /\ Len(r.approvers) >= r.required
      [] r.type = "AmountThreshold"   -> ~ (0 < r.max /\ r.max < r.min)
      [] r.type = "AddressWhitelist"  -> r.addresses # {} /\ r.actions # {}
      [] r.type = "ReceiverWhitelist" -> r.addresses # {}
      [] r.type = "MaxTransfers"      -> r.max > 0
      [] OTHER                        -> FALSE

ValidateRules(ruleSet) == \A r \in ruleSet : ValidRule(r)

Approvals(r, voters) == {v \in voters : \E i \in DOMAIN r.approvers : r.approvers[i] = v}

EvaluateOne(r, ctx) ==
    CASE r.type = "TimeLock" ->
             ctx.action \in r.actions =>
                 /\ r.notBefore > 0 => ctx.time >= r.notBefore
                 /\ r.notAfter > 0 => ctx.time <= r.notAfter
      [] r.type = "MultiApproval" ->
             ctx.action = "settle" =>
                 Cardinality(Approvals(r, ctx.approvals)) >= r.required
      [] r.type = "AmountThreshold" ->
             /\ r.min > 0 => ctx.amount >= r.min
             /\ r.max > 0 => ctx.amount <= r.max
      [] r.type = "AddressWhitelist" ->
             ctx.action \in r.actions => ctx.sender \in r.addresses
      [] r.type = "ReceiverWhitelist" ->
             ctx.action = "transfer" => ctx.receiver \in r.addresses
      [] r.type = "MaxTransfers" ->
             ctx.action = "transfer" => ctx.transferCount < r.max
      [] OTHER -> FALSE

Evaluate(ruleSet, ctx) == \A r \in ruleSet : EvaluateOne(r, ctx)

Context(p, kind, from, to, voters) ==
    [action |-> kind, time |-> now, sender |-> from, receiver |-> to,
     amount |-> paylinks[p].amount, transferCount |-> paylinks[p].transferCount,
     approvals |-> voters]

-----------------------------------------------------------------------------
(* Transactions.                                                           *)

CreatePayLink(from, id, receiver, amount, expiry, ruleSet) ==
    /\ receiver # Zero
    /\ amount # 0
    /\ expiry > now
    /\ ValidateRules(ruleSet)
    /\ paylinks[id].status = "NONE"
    /\ paylinks' = [paylinks EXCEPT ![id] =
           [status |-> "CREATED", creator |-> from, owner |-> from, approved |-> Zero,
            amount |-> amount, expiry |-> expiry, voteCount |-> 0, transferCount |-> 0,
            rules |-> ruleSet]]
    /\ UNCHANGED <<votes, submittedProofs, usedProofs, operatorApprovals,
                   activeValidators, now>>

(* Mutant: the global proof check is dropped. *)
MayVoteReplay(from, id, proof) ==
    /\ from \in activeValidators
    /\ paylinks[id].status = "CREATED"
    /\ now <= paylinks[id].expiry
    /\ <<id, from>> \notin votes
    /\ submittedProofs[id] \in {NoProof, proof}

(* Mutant: the double-vote check is dropped. *)
MayVoteTwice(from, id, proof) ==
    /\ from \in activeValidators
    /\ proof \notin usedProofs
    /\ paylinks[id].status = "CREATED"
    /\ now <= paylinks[id].expiry
    /\ submittedProofs[id] \in {NoProof, proof}

(* The checks of executeSubmitValidation, in its order. *)
MayVote(from, id, proof) ==
    /\ from \in activeValidators
    /\ proof \notin usedProofs
    /\ paylinks[id].status = "CREATED"
    /\ now <= paylinks[id].expiry
    /\ <<id, from>> \notin votes
    /\ submittedProofs[id] \in {NoProof, proof}

(* Mutant: the count is compared before it is incremented. *)
ReachesQuorumLate(id) == paylinks[id].voteCount >= RequiredValidations

ReachesQuorum(id) == paylinks[id].voteCount + 1 >= RequiredValidations

SettleContext(from, id) == Context(id, "settle", from, Zero, Voters(id) \cup {from})

RecordVote(from, id, proof) ==
    /\ votes' = votes \cup {<<id, from>>}
    /\ submittedProofs' = [submittedProofs EXCEPT ![id] = proof]

(* Mutant: the count goes the wrong way. *)
SubmitVoteDown(from, id, proof) ==
    /\ MayVote(from, id, proof)
    /\ ~ ReachesQuorum(id)
    /\ RecordVote(from, id, proof)
    /\ paylinks' = [paylinks EXCEPT ![id].voteCount = @ - 1]
    /\ UNCHANGED <<usedProofs, operatorApprovals, activeValidators, now>>

(* A vote below quorum. *)
SubmitVote(from, id, proof) ==
    /\ MayVote(from, id, proof)
    /\ ~ ReachesQuorum(id)
    /\ RecordVote(from, id, proof)
    /\ paylinks' = [paylinks EXCEPT ![id].voteCount = @ + 1]
    /\ UNCHANGED <<usedProofs, operatorApprovals, activeValidators, now>>

(* Mutant: MarkProofUsed is forgotten. *)
SettleWithoutMark(from, id, proof) ==
    /\ MayVote(from, id, proof)
    /\ ReachesQuorum(id)
    /\ Evaluate(paylinks[id].rules, SettleContext(from, id))
    /\ RecordVote(from, id, proof)
    /\ paylinks' = [paylinks EXCEPT ![id].status = "VERIFIED", ![id].voteCount = @ + 1]
    /\ UNCHANGED <<usedProofs, operatorApprovals, activeValidators, now>>

(* Mutant: the rules are not evaluated at settlement. *)
SettleWithoutRules(from, id, proof) ==
    /\ MayVote(from, id, proof)
    /\ ReachesQuorum(id)
    /\ RecordVote(from, id, proof)
    /\ paylinks' = [paylinks EXCEPT ![id].status = "VERIFIED", ![id].voteCount = @ + 1]
    /\ usedProofs' = usedProofs \cup {proof}
    /\ UNCHANGED <<operatorApprovals, activeValidators, now>>

(* The vote that reaches quorum settles the PayLink in the same             *)
(* transaction.  If the rules reject the settlement the transaction fails,  *)
(* and its vote is reverted with it.                                        *)
SubmitSettlingVote(from, id, proof) ==
    /\ MayVote(from, id, proof)
    /\ ReachesQuorum(id)
    /\ Evaluate(paylinks[id].rules, SettleContext(from, id))
    /\ RecordVote(from, id, proof)
    /\ paylinks' = [paylinks EXCEPT ![id].status = "VERIFIED", ![id].voteCount = @ + 1]
    /\ usedProofs' = usedProofs \cup {proof}
    /\ UNCHANGED <<operatorApprovals, activeValidators, now>>

(* Mutant: the status check of cancellation is dropped. *)
CancelAnyStatus(from, id) ==
    /\ from \in {paylinks[id].creator, paylinks[id].owner}
    /\ paylinks' = [paylinks EXCEPT ![id].status = "CANCELLED"]
    /\ UNCHANGED <<votes, submittedProofs, usedProofs, operatorApprovals,
                   activeValidators, now>>

CancelPayLink(from, id) ==
    /\ paylinks[id].status = "CREATED"
    /\ from \in {paylinks[id].creator, paylinks[id].owner}
    /\ Evaluate(paylinks[id].rules, Context(id, "cancel", from, Zero, {}))
    /\ paylinks' = [paylinks EXCEPT ![id].status = "CANCELLED"]
    /\ UNCHANGED <<votes, submittedProofs, usedProofs, operatorApprovals,
                   activeValidators, now>>

(* The admin may fail a PayLink in any status: there is no status check.    *)
FailPayLink(from, id) ==
    /\ from = Admin
    /\ paylinks[id].status # "NONE"
    /\ paylinks' = [paylinks EXCEPT ![id].status = "FAILED"]
    /\ UNCHANGED <<votes, submittedProofs, usedProofs, operatorApprovals,
                   activeValidators, now>>

IsApprovedOrOwner(id, spender) ==
    \/ spender = paylinks[id].owner
    \/ spender = paylinks[id].approved
    \/ <<paylinks[id].owner, spender>> \in operatorApprovals

(* Mutant: the single-PayLink approval survives the transfer. *)
SetOwnerKeepApproval(id, to) ==
    paylinks' = [paylinks EXCEPT ![id].owner = to, ![id].transferCount = @ + 1]

SetPayLinkOwner(id, to) ==
    paylinks' = [paylinks EXCEPT ![id].owner = to, ![id].approved = Zero,
                                 ![id].transferCount = @ + 1]

TransferPayLink(from, id, to) ==
    /\ to # Zero
    /\ paylinks[id].status = "CREATED"
    /\ to # paylinks[id].owner
    /\ IsApprovedOrOwner(id, from)
    /\ Evaluate(paylinks[id].rules, Context(id, "transfer", from, to, {}))
    /\ SetPayLinkOwner(id, to)
    /\ UNCHANGED <<votes, submittedProofs, usedProofs, operatorApprovals,
                   activeValidators, now>>

(* approved = Zero revokes.  The status is not checked. *)
ApprovePayLink(from, id, approved) ==
    /\ paylinks[id].status # "NONE"
    /\ from = paylinks[id].owner
    /\ approved # paylinks[id].owner
    /\ paylinks' = [paylinks EXCEPT ![id].approved = approved]
    /\ UNCHANGED <<votes, submittedProofs, usedProofs, operatorApprovals,
                   activeValidators, now>>

SetApprovalForAll(from, operator, approved) ==
    /\ operator # from
    /\ operator # Zero
    /\ operatorApprovals' = IF approved THEN operatorApprovals \cup {<<from, operator>>}
                                        ELSE operatorApprovals \ {<<from, operator>>}
    /\ UNCHANGED <<paylinks, votes, submittedProofs, usedProofs, activeValidators, now>>

(* The next block.  Its timestamp is the proposer's wall clock, and no      *)
(* check anywhere makes block timestamps increase.                          *)
NextBlock ==
    /\ now' \in (0..MaxTime) \ {now}
    /\ UNCHANGED <<paylinks, votes, submittedProofs, usedProofs, operatorApprovals,
                   activeValidators>>

(* A staking, unstaking or slashing transaction changes who is active. *)
ValidatorSetChange ==
    /\ activeValidators' \in (SUBSET Addr) \ {activeValidators}
    /\ UNCHANGED <<paylinks, votes, submittedProofs, usedProofs, operatorApprovals, now>>

-----------------------------------------------------------------------------

Init ==
    /\ paylinks = [p \in PayLinkId |-> NoPayLink]
    /\ votes = {}
    /\ submittedProofs = [p \in PayLinkId |-> NoProof]
    /\ usedProofs = {}
    /\ operatorApprovals = {}
    /\ activeValidators = {}
    /\ now = 0

CreateStep ==
    \E from \in Creators, id \in PayLinkId, receiver \in {Zero, Admin},
       amount \in Amounts, expiry \in 0..MaxTime, ruleSet \in RuleSets :
        CreatePayLink(from, id, receiver, amount, expiry, ruleSet)

VoteStep ==
    \E from \in Addr, id \in PayLinkId, proof \in Proof : SubmitVote(from, id, proof)

SettleStep ==
    \E from \in Addr, id \in PayLinkId, proof \in Proof : SubmitSettlingVote(from, id, proof)

CancelStep == \E from \in Addr, id \in PayLinkId : CancelPayLink(from, id)

FailStep == \E from \in Addr, id \in PayLinkId : FailPayLink(from, id)

TransferStep ==
    \E from \in Addr, id \in PayLinkId, to \in TransferTo :
        /\ paylinks[id].transferCount < MaxTransferCount
        /\ TransferPayLink(from, id, to)

ApproveStep ==
    \E from \in Addr, id \in PayLinkId, approved \in Delegates \cup {Zero} :
        ApprovePayLink(from, id, approved)

OperatorStep ==
    \E from \in Addr, operator \in Delegates, approved \in BOOLEAN :
        SetApprovalForAll(from, operator, approved)

Next ==
    \/ CreateStep
    \/ VoteStep
    \/ SettleStep
    \/ CancelStep
    \/ FailStep
    \/ TransferStep
    \/ ApproveStep
    \/ OperatorStep
    \/ NextBlock
    \/ ValidatorSetChange

Spec == Init /\ [][Next]_vars

-----------------------------------------------------------------------------
(* Properties.                                                             *)

(* Types of the PayLink half of StateDB and of its environment.             *)
TypeOK ==
    /\ paylinks \in [PayLinkId -> PayLink]
    /\ votes \subseteq PayLinkId \X Addr
    /\ submittedProofs \in [PayLinkId -> Proof \cup {NoProof}]
    /\ usedProofs \subseteq Proof
    /\ operatorApprovals \subseteq Addr \X Addr
    /\ activeValidators \subseteq Addr
    /\ now \in 0..MaxTime

(* A PayLink that ever reached quorum keeps its vote count, so this tells   *)
(* a settled PayLink also after the admin has failed it.                    *)
Settled(p) == paylinks[p].voteCount >= RequiredValidations

(* A proof settles at most one PayLink, although any number of PayLinks may *)
(* collect votes for the same proof at the same time: usedProofs holds      *)
(* exactly the proofs of the settled PayLinks, and no two share one.        *)
ProofSettlesOnce ==
    /\ usedProofs = {submittedProofs[p] : p \in {q \in PayLinkId : Settled(q)}}
    /\ \A p, q \in PayLinkId :
           Settled(p) /\ Settled(q) /\ submittedProofs[p] = submittedProofs[q] => p = q

(* The stored VoteCount is the number of distinct validators that voted,    *)
(* an open PayLink is below quorum, and a VERIFIED one has exactly the      *)
(* required number of voters: votes never race past the quorum check.       *)
QuorumExact ==
    \A p \in PayLinkId :
        /\ paylinks[p].voteCount = Cardinality(Voters(p))
        /\ paylinks[p].status = "CREATED" => paylinks[p].voteCount < RequiredValidations
        /\ paylinks[p].status = "VERIFIED" => paylinks[p].voteCount = RequiredValidations

(* The inductive strengthening of QuorumExact and ProofSettlesOnce: votes   *)
(* are finitely many and match the count, a PayLink without a record has    *)
(* none, and no vote is recorded without pinning a proof.                   *)
PayLinkInv(p) ==
    /\ IsFiniteSet(Voters(p))
    /\ paylinks[p].voteCount = Cardinality(Voters(p))
    /\ paylinks[p].voteCount <= RequiredValidations
    /\ paylinks[p].status = "NONE" => paylinks[p].voteCount = 0
    /\ paylinks[p].status = "CREATED" => paylinks[p].voteCount < RequiredValidations
    /\ paylinks[p].status = "VERIFIED" => paylinks[p].voteCount = RequiredValidations
    /\ paylinks[p].voteCount > 0 => submittedProofs[p] \in Proof

SettlementInv ==
    /\ TypeOK
    /\ ProofSettlesOnce
    /\ \A p \in PayLinkId : PayLinkInv(p)

(* Rules hold for as long as the PayLink lives: the transfers never exceed  *)
(* a MaxTransfers rule, and the voters of a settled PayLink contain the     *)
(* approvals its MultiApproval rules ask for, whoever voted in which order  *)
(* and whoever lost its stake since.                                        *)
RulesHonoured ==
    \A p \in PayLinkId : \A r \in paylinks[p].rules :
        /\ r.type = "MaxTransfers" => paylinks[p].transferCount <= r.max
        /\ r.type = "MultiApproval" /\ Settled(p) =>
               Cardinality(Approvals(r, Voters(p))) >= r.required
        /\ r.type = "AmountThreshold" /\ Settled(p) =>
               /\ r.min > 0 => paylinks[p].amount >= r.min
               /\ r.max > 0 => paylinks[p].amount <= r.max

(* A consequence nobody wrote down: the vote that reaches quorum is         *)
(* reverted when the approvals are short, so votes never accumulate past    *)
(* the quorum, and a MultiApproval rule asking for more approvals than      *)
(* RequiredValidations (which ValidateRules accepts) can never settle.      *)
ApprovalsWithinQuorum ==
    \A p \in PayLinkId : \A r \in paylinks[p].rules :
        Settled(p) /\ r.type = "MultiApproval" => r.required <= RequiredValidations

(* Status moves along the life cycle only: created once, closed once by     *)
(* settlement or cancellation, and the only way out of a closed status is   *)
(* the admin's FailPayLink.  A settled PayLink stays settled by the proof   *)
(* it was settled with.                                                     *)
LifecycleStep ==
    \A p \in PayLinkId :
        /\ paylinks'[p].status # paylinks[p].status =>
               \/ paylinks[p].status = "NONE" /\ paylinks'[p].status = "CREATED"
               \/ paylinks[p].status = "CREATED" /\ paylinks'[p].status \in {"VERIFIED", "CANCELLED"}
               \/ paylinks[p].status # "NONE" /\ paylinks'[p].status = "FAILED"
        /\ Settled(p) => Settled(p)' /\ submittedProofs'[p] = submittedProofs[p]
        /\ Settled(p)' => paylinks[p].status = "CREATED" \/ Settled(p)

LifecycleOrder == [][LifecycleStep]_vars

(* An approval given by a former owner never outlives the transfer: the     *)
(* approved address of a PayLink is never its own owner, so a PayLink that  *)
(* was sold to its approved address carries no approval any more.           *)
NoStaleApproval ==
    \A p \in PayLinkId :
        paylinks[p].status # "NONE" => paylinks[p].approved # paylinks[p].owner

(* The registry implements the promise of module PayLinkPromise. *)
Promise == INSTANCE PayLinkPromise WITH
    status <- [p \in PayLinkId |-> paylinks[p].status],
    settledBy <- [p \in PayLinkId |-> IF Settled(p) THEN submittedProofs[p] ELSE NoProof]

(* Every step of the registry is a step of the promise or leaves status and *)
(* settling proof of every PayLink alone.                                   *)
KeepsPromise == Promise!Spec
=============================================================================
