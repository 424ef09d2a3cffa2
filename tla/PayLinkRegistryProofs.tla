----------------------- MODULE PayLinkRegistryProofs -----------------------
(***************************************************************************)
(* Proofs about PayLinkRegistry for any number of PayLinks, proofs,        *)
(* addresses and rule sets, and any quorum.                                *)
(***************************************************************************)
EXTENDS PayLinkRegistry, FiniteSetTheorems, TLAPS

(* Init, and every transaction the executor applies, keeps the StateDB      *)
(* maps within their types.                                                 *)
LEMMA TypeInit == Init => TypeOK
  BY AddressAssumption, BoundAssumption
  DEF Init, TypeOK, PayLink, NoPayLink, Status, AddressAssumption, BoundAssumption

(* Every transaction, block and validator change keeps them there. *)
LEMMA TypeNext == TypeOK /\ [Next]_vars => TypeOK'
<1> SUFFICES ASSUME TypeOK, [Next]_vars PROVE TypeOK'
  BY Zenon
<1> USE AddressAssumption, BoundAssumption DEF TypeOK, AddressAssumption, BoundAssumption
<1>1. CASE CreateStep
  <2>1. PICK from \in Creators, id \in PayLinkId, receiver \in {Zero, Admin},
             amount \in Amounts, expiry \in 0..MaxTime, ruleSet \in RuleSets :
               CreatePayLink(from, id, receiver, amount, expiry, ruleSet)
    BY <1>1, Zenon DEF CreateStep
  <2> QED BY <2>1 DEF CreatePayLink, PayLink, Status
<1>2. CASE VoteStep
  <2>1. PICK from \in Addr, id \in PayLinkId, proof \in Proof : SubmitVote(from, id, proof)
    BY <1>2, Zenon DEF VoteStep
  <2>2. paylinks' \in [PayLinkId -> PayLink]
    BY <2>1 DEF SubmitVote, PayLink
  <2> QED BY <2>1, <2>2 DEF SubmitVote, RecordVote
<1>3. CASE SettleStep
  <2>1. PICK from \in Addr, id \in PayLinkId, proof \in Proof : SubmitSettlingVote(from, id, proof)
    BY <1>3, Zenon DEF SettleStep
  <2>2. paylinks' \in [PayLinkId -> PayLink]
    <3>1. paylinks' = [paylinks EXCEPT ![id].status = "VERIFIED", ![id].voteCount = @ + 1]
      BY <2>1, Zenon DEF SubmitSettlingVote
    <3>2. paylinks[id].voteCount + 1 \in Nat /\ "VERIFIED" \in Status
      BY DEF PayLink, Status
    <3> QED BY <3>1, <3>2 DEF PayLink
  <2> QED BY <2>1, <2>2 DEF SubmitSettlingVote, RecordVote
<1>4. CASE CancelStep
  BY <1>4 DEF CancelStep, CancelPayLink, PayLink, Status
<1>5. CASE FailStep
  BY <1>5 DEF FailStep, FailPayLink, PayLink, Status
<1>6. CASE TransferStep
  BY <1>6 DEF TransferStep, TransferPayLink, SetPayLinkOwner, PayLink
<1>7. CASE ApproveStep
  BY <1>7 DEF ApproveStep, ApprovePayLink, PayLink
<1>8. CASE OperatorStep
  BY <1>8 DEF OperatorStep, SetApprovalForAll
<1>9. CASE NextBlock
  BY <1>9, Zenon DEF NextBlock
<1>10. CASE ValidatorSetChange
  BY <1>10, Zenon DEF ValidatorSetChange
<1>11. CASE UNCHANGED vars
  BY <1>11, Zenon DEF vars
<1> QED
  BY <1>1, <1>2, <1>3, <1>4, <1>5, <1>6, <1>7, <1>8, <1>9, <1>10, <1>11, Zenon DEF Next

(* The types of the PayLink half of StateDB are invariant. *)
THEOREM TypeCorrect == Spec => []TypeOK
  BY TypeInit, TypeNext, PTL DEF Spec

-----------------------------------------------------------------------------
(* Steps that touch neither the status and votes of a PayLink nor a proof:  *)
(* ownership changes, the clock and the validator set.                      *)
Quiet ==
    /\ UNCHANGED <<votes, submittedProofs, usedProofs>>
    /\ \A p \in PayLinkId :
           /\ paylinks'[p].status = paylinks[p].status
           /\ paylinks'[p].voteCount = paylinks[p].voteCount

(* Ownership transactions, a new block and staking leave settlement alone. *)
LEMMA QuietSteps ==
  ASSUME TypeOK,
         TransferStep \/ ApproveStep \/ OperatorStep \/ NextBlock \/ ValidatorSetChange
            \/ UNCHANGED vars
  PROVE  Quiet
<1>1. CASE TransferStep
  <2>1. PICK from \in Addr, id \in PayLinkId, to \in TransferTo : TransferPayLink(from, id, to)
    BY <1>1, Zenon DEF TransferStep
  <2>2. UNCHANGED <<votes, submittedProofs, usedProofs>> /\ SetPayLinkOwner(id, to)
    BY <2>1, Zenon DEF TransferPayLink
  <2>3. ASSUME NEW p \in PayLinkId
        PROVE  /\ paylinks'[p].status = paylinks[p].status
               /\ paylinks'[p].voteCount = paylinks[p].voteCount
    BY <2>2 DEF SetPayLinkOwner, TypeOK, PayLink
  <2> QED BY <2>2, <2>3, Zenon DEF Quiet
<1>2. CASE ApproveStep
  BY <1>2 DEF TypeOK, Quiet, ApproveStep, ApprovePayLink, PayLink
<1>3. CASE OperatorStep
  BY <1>3, Zenon DEF Quiet, OperatorStep, SetApprovalForAll
<1>4. CASE NextBlock
  BY <1>4, Zenon DEF Quiet, NextBlock
<1>5. CASE ValidatorSetChange
  BY <1>5, Zenon DEF Quiet, ValidatorSetChange
<1>6. CASE UNCHANGED vars
  BY <1>6, Zenon DEF Quiet, vars
<1> QED BY <1>1, <1>2, <1>3, <1>4, <1>5, <1>6, Zenon

(* The voters of a PayLink after one more vote. *)
LEMMA VotersAfterVote ==
  ASSUME NEW id \in PayLinkId, NEW from \in Addr, NEW p \in PayLinkId,
         votes' = votes \cup {<<id, from>>}
  PROVE  Voters(p)' = IF p = id THEN Voters(p) \cup {from} ELSE Voters(p)
  BY Zenon DEF Voters

(* A vote that the executor accepts, settling or not, is by a new voter, so *)
(* the count and the set of voters grow together.                           *)
LEMMA VoteCounts ==
  ASSUME NEW id \in PayLinkId, NEW from \in Addr, NEW proof \in Proof, TypeOK,
         PayLinkInv(id), MayVote(from, id, proof), RecordVote(from, id, proof)
  PROVE  /\ IsFiniteSet(Voters(id)')
         /\ Cardinality(Voters(id)') = paylinks[id].voteCount + 1
         /\ submittedProofs'[id] = proof
<1>1. Voters(id)' = Voters(id) \cup {from}
  BY VotersAfterVote, Zenon DEF RecordVote
<1>2. from \notin Voters(id)
  BY Zenon DEF MayVote, Voters
<1>3. IsFiniteSet(Voters(id)) /\ paylinks[id].voteCount = Cardinality(Voters(id))
  BY Zenon DEF PayLinkInv
<1>4. IsFiniteSet(Voters(id)') /\ Cardinality(Voters(id)') = Cardinality(Voters(id)) + 1
  BY <1>1, <1>2, <1>3, FS_AddElement
<1>5. submittedProofs'[id] = proof
  BY Zenon DEF RecordVote, TypeOK
<1> QED BY <1>3, <1>4, <1>5, Zenon

(* One step keeps what SettlementInv says of a single PayLink. *)
LEMMA PayLinkInvNext ==
  ASSUME SettlementInv, [Next]_vars, NEW p \in PayLinkId
  PROVE  PayLinkInv(p)'
<1>0. TypeOK /\ PayLinkInv(p) /\ paylinks[p] \in PayLink
  BY Zenon DEF SettlementInv, TypeOK
<1> USE <1>0, BoundAssumption DEF BoundAssumption
<1>1. CASE CreateStep
  <2>1. PICK from \in Creators, id \in PayLinkId, receiver \in {Zero, Admin},
             amount \in Amounts, expiry \in 0..MaxTime, ruleSet \in RuleSets :
               CreatePayLink(from, id, receiver, amount, expiry, ruleSet)
    BY <1>1, Zenon DEF CreateStep
  <2>2. Voters(p)' = Voters(p) /\ submittedProofs' = submittedProofs
    BY <2>1, Zenon DEF CreatePayLink, Voters
  <2>3. CASE p = id
    <3>1. paylinks'[p].status = "CREATED" /\ paylinks'[p].voteCount = 0
      BY <2>1, <2>3, Zenon DEF CreatePayLink, TypeOK
    <3>2. paylinks[p].voteCount = 0
      BY <2>1, <2>3, Zenon DEF CreatePayLink, PayLinkInv
    <3> QED BY <2>2, <3>1, <3>2 DEF PayLinkInv
  <2>4. CASE p # id
    BY <2>1, <2>2, <2>4, Zenon DEF CreatePayLink, TypeOK, PayLinkInv
  <2> QED BY <2>3, <2>4, Zenon
<1>2. CASE VoteStep
  <2>1. PICK from \in Addr, id \in PayLinkId, proof \in Proof : SubmitVote(from, id, proof)
    BY <1>2, Zenon DEF VoteStep
  <2>2. /\ MayVote(from, id, proof) /\ ~ ReachesQuorum(id) /\ RecordVote(from, id, proof)
        /\ paylinks' = [paylinks EXCEPT ![id].voteCount = @ + 1]
    BY <2>1, Zenon DEF SubmitVote
  <2>3. CASE p = id
    <3>1. /\ IsFiniteSet(Voters(p)') /\ Cardinality(Voters(p)') = paylinks[p].voteCount + 1
          /\ submittedProofs'[p] = proof
      BY <2>2, <2>3, VoteCounts, Zenon
    <3>2. paylinks'[p].voteCount = paylinks[p].voteCount + 1 /\ paylinks'[p].status = "CREATED"
      BY <2>2, <2>3 DEF MayVote, TypeOK, PayLink
    <3>3. paylinks[p].voteCount + 1 < RequiredValidations
      BY <2>2, <2>3 DEF ReachesQuorum, PayLink
    <3> QED BY <3>1, <3>2, <3>3 DEF PayLinkInv, PayLink
  <2>4. CASE p # id
    BY <2>2, <2>4, VotersAfterVote, Zenon DEF RecordVote, PayLinkInv, TypeOK
  <2> QED BY <2>3, <2>4, Zenon
<1>3. CASE SettleStep
  <2>1. PICK from \in Addr, id \in PayLinkId, proof \in Proof : SubmitSettlingVote(from, id, proof)
    BY <1>3, Zenon DEF SettleStep
  <2>2. /\ MayVote(from, id, proof) /\ ReachesQuorum(id) /\ RecordVote(from, id, proof)
        /\ paylinks' = [paylinks EXCEPT ![id].status = "VERIFIED", ![id].voteCount = @ + 1]
    BY <2>1, Zenon DEF SubmitSettlingVote
  <2>3. CASE p = id
    <3>1. /\ IsFiniteSet(Voters(p)') /\ Cardinality(Voters(p)') = paylinks[p].voteCount + 1
          /\ submittedProofs'[p] = proof
      BY <2>2, <2>3, VoteCounts, Zenon
    <3>2. paylinks'[p].voteCount = paylinks[p].voteCount + 1 /\ paylinks'[p].status = "VERIFIED"
      BY <2>2, <2>3, Zenon DEF TypeOK, PayLink
    <3>3. paylinks[p].voteCount + 1 = RequiredValidations
      BY <2>2, <2>3 DEF ReachesQuorum, MayVote, PayLink, PayLinkInv
    <3> QED BY <3>1, <3>2, <3>3 DEF PayLinkInv
  <2>4. CASE p # id
    BY <2>2, <2>4, VotersAfterVote, Zenon DEF RecordVote, PayLinkInv, TypeOK
  <2> QED BY <2>3, <2>4, Zenon
<1>4. CASE CancelStep \/ FailStep
  <2>1. /\ UNCHANGED <<votes, submittedProofs>>
        /\ paylinks'[p].voteCount = paylinks[p].voteCount
        /\ paylinks'[p].status \in {paylinks[p].status, "CANCELLED", "FAILED"}
    BY <1>4 DEF CancelStep, CancelPayLink, FailStep, FailPayLink, TypeOK, PayLink
  <2> QED BY <2>1, Zenon DEF PayLinkInv, Voters
<1>5. CASE Quiet
  BY <1>5, Zenon DEF Quiet, PayLinkInv, Voters
<1> QED BY <1>1, <1>2, <1>3, <1>4, <1>5, QuietSteps, Zenon DEF Next

(* One step keeps the anti-replay invariant: only the settling vote uses a  *)
(* proof, and it uses one that no settled PayLink carries.                  *)
LEMMA ProofSettlesOnceNext ==
  ASSUME SettlementInv, [Next]_vars
  PROVE  ProofSettlesOnce'
<1>0. TypeOK /\ ProofSettlesOnce /\ \A p \in PayLinkId : PayLinkInv(p)
  BY Zenon DEF SettlementInv
<1> USE <1>0, BoundAssumption DEF BoundAssumption
<1>1. CASE CreateStep
  <2>1. PICK from \in Creators, id \in PayLinkId, receiver \in {Zero, Admin},
             amount \in Amounts, expiry \in 0..MaxTime, ruleSet \in RuleSets :
               CreatePayLink(from, id, receiver, amount, expiry, ruleSet)
    BY <1>1, Zenon DEF CreateStep
  <2>2. paylinks'[id].voteCount = 0 /\ paylinks[id].voteCount = 0
    BY <2>1, Zenon DEF CreatePayLink, TypeOK, PayLinkInv
  <2>3. \A p \in PayLinkId : Settled(p)' = Settled(p)
    BY <2>1, <2>2, Zenon DEF CreatePayLink, TypeOK, Settled
  <2> QED BY <2>1, <2>3, Zenon DEF CreatePayLink, ProofSettlesOnce
<1>2. CASE VoteStep
  <2>1. PICK from \in Addr, id \in PayLinkId, proof \in Proof : SubmitVote(from, id, proof)
    BY <1>2, Zenon DEF VoteStep
  <2>2. ~ Settled(id) /\ ~ Settled(id)'
    BY <2>1 DEF SubmitVote, ReachesQuorum, Settled, TypeOK, PayLink
  <2>3. \A p \in PayLinkId : p # id => Settled(p)' = Settled(p) /\ submittedProofs'[p] = submittedProofs[p]
    BY <2>1, Zenon DEF SubmitVote, RecordVote, Settled, TypeOK
  <2>4. usedProofs' = usedProofs
    BY <2>1, Zenon DEF SubmitVote
  <2> QED BY <2>2, <2>3, <2>4, Zenon DEF ProofSettlesOnce
<1>3. CASE SettleStep
  <2>1. PICK from \in Addr, id \in PayLinkId, proof \in Proof : SubmitSettlingVote(from, id, proof)
    BY <1>3, Zenon DEF SettleStep
  <2>2. ~ Settled(id) /\ Settled(id)' /\ submittedProofs'[id] = proof
    BY <2>1 DEF SubmitSettlingVote, RecordVote, MayVote, ReachesQuorum, Settled, TypeOK, PayLink, PayLinkInv
  <2>3. \A p \in PayLinkId : p # id => Settled(p)' = Settled(p) /\ submittedProofs'[p] = submittedProofs[p]
    BY <2>1, Zenon DEF SubmitSettlingVote, RecordVote, Settled, TypeOK
  <2>4. usedProofs' = usedProofs \cup {proof} /\ proof \notin usedProofs
    BY <2>1, Zenon DEF SubmitSettlingVote, MayVote
  <2>5. \A p \in PayLinkId : Settled(p) => submittedProofs[p] # proof
    BY <2>4, Zenon DEF ProofSettlesOnce
  <2> QED BY <2>2, <2>3, <2>4, <2>5 DEF ProofSettlesOnce
<1>4. CASE CancelStep \/ FailStep
  <2>1. /\ UNCHANGED <<submittedProofs, usedProofs>>
        /\ \A p \in PayLinkId : paylinks'[p].voteCount = paylinks[p].voteCount
    BY <1>4 DEF CancelStep, CancelPayLink, FailStep, FailPayLink, TypeOK, PayLink
  <2> QED BY <2>1, Zenon DEF ProofSettlesOnce, Settled
<1>5. CASE Quiet
  BY <1>5, Zenon DEF Quiet, ProofSettlesOnce, Settled
<1> QED BY <1>1, <1>2, <1>3, <1>4, <1>5, QuietSteps, Zenon DEF Next

(* The invariant holds initially. *)
LEMMA SettlementInit == Init => SettlementInv
<1> SUFFICES ASSUME Init PROVE SettlementInv
  BY Zenon
<1>1. TypeOK
  BY TypeInit, Zenon
<1>2. \A p \in PayLinkId : Voters(p) = {} /\ paylinks[p].voteCount = 0 /\ paylinks[p].status = "NONE"
  BY Zenon DEF Init, Voters, NoPayLink
<1>3. IsFiniteSet({}) /\ Cardinality({}) = 0
  BY FS_EmptySet, Zenon
<1>4. ASSUME NEW p \in PayLinkId PROVE PayLinkInv(p)
  <2>1. IsFiniteSet(Voters(p)) /\ Cardinality(Voters(p)) = 0
    BY <1>2, <1>3, Zenon
  <2>2. paylinks[p].voteCount = 0 /\ paylinks[p].status = "NONE"
    BY <1>2, Zenon
  <2> QED BY <2>1, <2>2, BoundAssumption DEF PayLinkInv, BoundAssumption
<1>5. ProofSettlesOnce
  BY <1>2, BoundAssumption DEF Init, ProofSettlesOnce, Settled, BoundAssumption
<1> QED BY <1>1, <1>4, <1>5, Zenon DEF SettlementInv

(* The inductive invariant of settlement holds in every reachable state. *)
THEOREM SettlementInvariant == Spec => []SettlementInv
<1>1. SettlementInv /\ [Next]_vars => SettlementInv'
  BY TypeNext, PayLinkInvNext, ProofSettlesOnceNext, Zenon DEF SettlementInv
<1> QED BY SettlementInit, <1>1, PTL DEF Spec

(* A settlement proof settles at most one PayLink, for any number of        *)
(* PayLinks voted on concurrently with the same proof.                      *)
THEOREM ProofSettlesOnceAlways == Spec => []ProofSettlesOnce
<1>1. SettlementInv => ProofSettlesOnce
  BY Zenon DEF SettlementInv
<1> QED BY SettlementInvariant, <1>1, PTL

(* The stored count is the number of distinct voters, and a VERIFIED        *)
(* PayLink has exactly RequiredValidations of them.                         *)
THEOREM QuorumExactAlways == Spec => []QuorumExact
<1>1. SettlementInv => QuorumExact
  BY Zenon DEF SettlementInv, PayLinkInv, QuorumExact
<1> QED BY SettlementInvariant, <1>1, PTL

-----------------------------------------------------------------------------
(* Refinement of PayLinkPromise.                                            *)

(* The initial states of the registry are initial states of the promise. *)
LEMMA PromiseInit == Init => Promise!Init
  BY BoundAssumption DEF Init, Promise!Init, NoPayLink, Settled, BoundAssumption

(* Every transaction is a step of the promise or hides from it. *)
LEMMA PromiseNext ==
  ASSUME SettlementInv, [Next]_vars
  PROVE  [Promise!Next]_Promise!vars
<1>0. TypeOK /\ ProofSettlesOnce /\ \A p \in PayLinkId : PayLinkInv(p)
  BY Zenon DEF SettlementInv
<1> USE <1>0, BoundAssumption, ProofAssumption DEF BoundAssumption, ProofAssumption
<1> DEFINE status == [p \in PayLinkId |-> paylinks[p].status]
           settledBy == [p \in PayLinkId |-> IF Settled(p) THEN submittedProofs[p] ELSE NoProof]
<1>1. CASE CreateStep
  <2>1. PICK from \in Creators, id \in PayLinkId, receiver \in {Zero, Admin},
             amount \in Amounts, expiry \in 0..MaxTime, ruleSet \in RuleSets :
               CreatePayLink(from, id, receiver, amount, expiry, ruleSet)
    BY <1>1, Zenon DEF CreateStep
  <2>2. paylinks'[id].voteCount = 0 /\ paylinks[id].voteCount = 0 /\ paylinks[id].status = "NONE"
    BY <2>1, Zenon DEF CreatePayLink, TypeOK, PayLinkInv
  <2>3. \A p \in PayLinkId : Settled(p)' = Settled(p)
    BY <2>1, <2>2, Zenon DEF CreatePayLink, TypeOK, Settled
  <2>4. settledBy' = settledBy
    BY <2>1, <2>3, Zenon DEF CreatePayLink
  <2>5. status' = [status EXCEPT ![id] = "CREATED"]
    BY <2>1, Zenon DEF CreatePayLink, TypeOK
  <2>6. Promise!Create(id)
    BY <2>2, <2>4, <2>5, Zenon DEF Promise!Create
  <2> QED BY <2>6, Zenon DEF Promise!Next
<1>2. CASE VoteStep
  <2>1. PICK from \in Addr, id \in PayLinkId, proof \in Proof : SubmitVote(from, id, proof)
    BY <1>2, Zenon DEF VoteStep
  <2>2. ~ Settled(id) /\ ~ Settled(id)'
    BY <2>1 DEF SubmitVote, ReachesQuorum, Settled, TypeOK, PayLink
  <2>3. \A p \in PayLinkId : p # id => Settled(p)' = Settled(p) /\ submittedProofs'[p] = submittedProofs[p]
    BY <2>1, Zenon DEF SubmitVote, RecordVote, Settled, TypeOK
  <2>4. settledBy' = settledBy
    BY <2>2, <2>3, Zenon
  <2>5. status' = status
    BY <2>1 DEF SubmitVote, TypeOK, PayLink
  <2> QED BY <2>4, <2>5, Zenon DEF Promise!vars
<1>3. CASE SettleStep
  <2>1. PICK from \in Addr, id \in PayLinkId, proof \in Proof : SubmitSettlingVote(from, id, proof)
    BY <1>3, Zenon DEF SettleStep
  <2>2. Settled(id)' /\ submittedProofs'[id] = proof /\ paylinks[id].status = "CREATED"
    BY <2>1 DEF SubmitSettlingVote, RecordVote, MayVote, ReachesQuorum, Settled, TypeOK, PayLink
  <2>3. \A p \in PayLinkId : p # id => Settled(p)' = Settled(p) /\ submittedProofs'[p] = submittedProofs[p]
    BY <2>1, Zenon DEF SubmitSettlingVote, RecordVote, Settled, TypeOK
  <2>4. proof \notin usedProofs
    BY <2>1, Zenon DEF SubmitSettlingVote, MayVote
  <2>5. \A q \in PayLinkId : settledBy[q] # proof
    BY <2>4, Zenon DEF ProofSettlesOnce
  <2>6. settledBy' = [settledBy EXCEPT ![id] = proof]
    BY <2>2, <2>3, Zenon
  <2>7. status' = [status EXCEPT ![id] = "VERIFIED"]
    BY <2>1 DEF SubmitSettlingVote, TypeOK, PayLink
  <2>8. Promise!Settle(id, proof)
    BY <2>2, <2>5, <2>6, <2>7, Zenon DEF Promise!Settle
  <2> QED BY <2>8, Zenon DEF Promise!Next
<1>4. CASE CancelStep
  <2>1. PICK from \in Addr, id \in PayLinkId : CancelPayLink(from, id)
    BY <1>4, Zenon DEF CancelStep
  <2>2. settledBy' = settledBy
    BY <2>1 DEF CancelPayLink, TypeOK, PayLink, Settled
  <2>3. status' = [status EXCEPT ![id] = "CANCELLED"] /\ status[id] = "CREATED"
    BY <2>1, Zenon DEF CancelPayLink, TypeOK, PayLink
  <2> QED BY <2>2, <2>3, Zenon DEF Promise!Cancel, Promise!Next
<1>5. CASE FailStep
  <2>1. PICK from \in Addr, id \in PayLinkId : FailPayLink(from, id)
    BY <1>5, Zenon DEF FailStep
  <2>2. settledBy' = settledBy
    BY <2>1 DEF FailPayLink, TypeOK, PayLink, Settled
  <2>3. status' = [status EXCEPT ![id] = "FAILED"] /\ status[id] # "NONE"
    BY <2>1, Zenon DEF FailPayLink, TypeOK, PayLink
  <2> QED BY <2>2, <2>3, Zenon DEF Promise!Fail, Promise!Next
<1>6. CASE Quiet
  <2>1. status' = status /\ settledBy' = settledBy
    BY <1>6, Zenon DEF Quiet, Settled
  <2> QED BY <2>1, Zenon DEF Promise!vars
<1> QED BY <1>1, <1>2, <1>3, <1>4, <1>5, <1>6, QuietSteps, Zenon DEF Next

(* The executor's PayLink transactions implement the promise: created once, *)
(* settled at most once, by a proof that settles nothing else.              *)
THEOREM ImplementsPromise == Spec => KeepsPromise
  BY PromiseInit, PromiseNext, SettlementInvariant, PTL DEF Spec, Promise!Spec, KeepsPromise

-----------------------------------------------------------------------------
(* The rules of a PayLink are those it was created with. *)
LEMMA RulesFixed ==
  ASSUME TypeOK, [Next]_vars, ~ CreateStep, NEW p \in PayLinkId
  PROVE  paylinks'[p].rules = paylinks[p].rules
<1> USE DEF TypeOK, PayLink
<1>1. CASE VoteStep
  BY <1>1 DEF VoteStep, SubmitVote
<1>2. CASE SettleStep
  BY <1>2 DEF SettleStep, SubmitSettlingVote
<1>3. CASE CancelStep \/ FailStep
  BY <1>3 DEF CancelStep, CancelPayLink, FailStep, FailPayLink
<1>4. CASE TransferStep
  <2>1. PICK from \in Addr, id \in PayLinkId, to \in TransferTo : SetPayLinkOwner(id, to)
    BY <1>4, Zenon DEF TransferStep, TransferPayLink
  <2> QED BY <2>1 DEF SetPayLinkOwner
<1>5. CASE ApproveStep
  BY <1>5 DEF ApproveStep, ApprovePayLink
<1>6. CASE OperatorStep \/ NextBlock \/ ValidatorSetChange \/ UNCHANGED vars
  BY <1>6, Zenon DEF OperatorStep, SetApprovalForAll, NextBlock, ValidatorSetChange, vars
<1> QED BY <1>1, <1>2, <1>3, <1>4, <1>5, <1>6, Zenon DEF Next

(* What a MultiApproval rule asks for at settlement is bounded by the       *)
(* voters, whose number is the quorum.                                      *)
LEMMA ApprovalsNext ==
  ASSUME SettlementInv, SettlementInv', ApprovalsWithinQuorum, [Next]_vars
  PROVE  ApprovalsWithinQuorum'
<1>0. TypeOK /\ (\A p \in PayLinkId : PayLinkInv(p)) /\ \A p \in PayLinkId : PayLinkInv(p)'
  BY Zenon DEF SettlementInv
<1> USE <1>0, BoundAssumption DEF BoundAssumption
<1> SUFFICES ASSUME NEW p \in PayLinkId, NEW r \in paylinks'[p].rules,
                    Settled(p)', r.type = "MultiApproval"
             PROVE  r.required <= RequiredValidations
  BY Zenon DEF ApprovalsWithinQuorum
<1>1. CASE CreateStep
  <2>1. PICK from \in Creators, id \in PayLinkId, receiver \in {Zero, Admin},
             amount \in Amounts, expiry \in 0..MaxTime, ruleSet \in RuleSets :
               CreatePayLink(from, id, receiver, amount, expiry, ruleSet)
    BY <1>1, Zenon DEF CreateStep
  <2>2. p # id
    BY <2>1 DEF CreatePayLink, TypeOK, Settled
  <2>3. paylinks'[p] = paylinks[p]
    BY <2>1, <2>2, Zenon DEF CreatePayLink, TypeOK
  <2> QED BY <2>3, Zenon DEF ApprovalsWithinQuorum, Settled
<1>2. CASE ~ CreateStep
  <2>1. r \in paylinks[p].rules
    BY <1>2, RulesFixed, Zenon
  <2>2. CASE Settled(p)
    BY <2>1, <2>2, Zenon DEF ApprovalsWithinQuorum
  <2>3. CASE ~ Settled(p)
    <3>1. SettleStep
      <4>1. CASE VoteStep
        <5>1. PICK from \in Addr, id \in PayLinkId, proof \in Proof : SubmitVote(from, id, proof)
          BY <4>1, Zenon DEF VoteStep
        <5> QED BY <5>1, <2>3 DEF SubmitVote, ReachesQuorum, Settled, TypeOK, PayLink
      <4>2. CASE CancelStep \/ FailStep
        BY <4>2, <2>3 DEF CancelStep, CancelPayLink, FailStep, FailPayLink, Settled, TypeOK, PayLink
      <4>3. CASE Quiet
        BY <4>3, <2>3, Zenon DEF Quiet, Settled
      <4> QED BY <4>1, <4>2, <4>3, <1>2, QuietSteps, Zenon DEF Next
    <3>2. PICK from \in Addr, id \in PayLinkId, proof \in Proof : SubmitSettlingVote(from, id, proof)
      BY <3>1, Zenon DEF SettleStep
    <3>3. id = p
      BY <3>2, <2>3, Zenon DEF SubmitSettlingVote, Settled, TypeOK
    <3>4. Voters(p)' = Voters(p) \cup {from}
      BY <3>2, <3>3, VotersAfterVote, Zenon DEF SubmitSettlingVote, RecordVote
    <3>5. EvaluateOne(r, SettleContext(from, p))
      BY <3>2, <3>3, <2>1, Zenon DEF SubmitSettlingVote, Evaluate
    <3>6. Cardinality(Approvals(r, Voters(p) \cup {from})) >= r.required
      BY <3>5, Zenon DEF EvaluateOne, SettleContext, Context
    <3>7. Approvals(r, Voters(p)') \subseteq Voters(p)'
      BY Zenon DEF Approvals
    <3>8. IsFiniteSet(Voters(p)') /\ Cardinality(Voters(p)') <= RequiredValidations
      BY Zenon DEF PayLinkInv
    <3>9. Cardinality(Approvals(r, Voters(p)')) <= Cardinality(Voters(p)')
          /\ IsFiniteSet(Approvals(r, Voters(p)'))
      BY <3>7, <3>8, FS_Subset, Zenon
    <3>10. Cardinality(Approvals(r, Voters(p)')) \in Nat /\ Cardinality(Voters(p)') \in Nat
      BY <3>8, <3>9, FS_CardinalityType, Zenon
    <3>11. r.required \in Nat
      BY <2>1, RuleAssumption, Zenon DEF TypeOK, PayLink, RuleAssumption
    <3> QED BY <3>4, <3>6, <3>8, <3>9, <3>10, <3>11
  <2> QED BY <2>2, <2>3, Zenon
<1> QED BY <1>1, <1>2, Zenon

(* A PayLink whose MultiApproval rule asks for more approvals than the      *)
(* quorum can never settle, although ValidateRules accepts it.              *)
THEOREM ApprovalsWithinQuorumAlways == Spec => []ApprovalsWithinQuorum
<1>1. Init => ApprovalsWithinQuorum
  BY DEF Init, ApprovalsWithinQuorum, NoPayLink
<1> QED BY <1>1, ApprovalsNext, SettlementInvariant, PTL DEF Spec

(* Status only moves along the life cycle, and what settled stays settled   *)
(* by the same proof.                                                       *)
THEOREM LifecycleOrderAlways == Spec => LifecycleOrder
<1>1. ASSUME SettlementInv, [Next]_vars
      PROVE  [LifecycleStep]_vars
  <2>0. TypeOK /\ \A p \in PayLinkId : PayLinkInv(p)
    BY <1>1, Zenon DEF SettlementInv
  <2> USE <2>0, BoundAssumption DEF BoundAssumption, TypeOK
  <2> SUFFICES LifecycleStep
    BY Zenon
  <2>1. CASE CreateStep
    <3>1. PICK from \in Creators, id \in PayLinkId, receiver \in {Zero, Admin},
             amount \in Amounts, expiry \in 0..MaxTime, ruleSet \in RuleSets :
               CreatePayLink(from, id, receiver, amount, expiry, ruleSet)
      BY <2>1, Zenon DEF CreateStep
    <3>2. paylinks'[id].voteCount = 0 /\ paylinks[id].voteCount = 0
      BY <3>1, Zenon DEF CreatePayLink, PayLinkInv
    <3> QED BY <3>1, <3>2, Zenon DEF CreatePayLink, LifecycleStep, Settled
  <2>2. CASE VoteStep
    <3>1. PICK from \in Addr, id \in PayLinkId, proof \in Proof : SubmitVote(from, id, proof)
      BY <2>2, Zenon DEF VoteStep
    <3>2. ~ Settled(id) /\ ~ Settled(id)' /\ paylinks'[id].status = paylinks[id].status
      BY <3>1 DEF SubmitVote, ReachesQuorum, Settled, PayLink
    <3>3. \A p \in PayLinkId : p # id => paylinks'[p] = paylinks[p] /\ submittedProofs'[p] = submittedProofs[p]
      BY <3>1, Zenon DEF SubmitVote, RecordVote
    <3> QED BY <3>2, <3>3, Zenon DEF LifecycleStep, Settled
  <2>3. CASE SettleStep
    <3>1. PICK from \in Addr, id \in PayLinkId, proof \in Proof : SubmitSettlingVote(from, id, proof)
      BY <2>3, Zenon DEF SettleStep
    <3>2. ~ Settled(id) /\ paylinks'[id].status = "VERIFIED" /\ paylinks[id].status = "CREATED"
      BY <3>1 DEF SubmitSettlingVote, MayVote, Settled, PayLink, PayLinkInv
    <3>3. \A p \in PayLinkId : p # id => paylinks'[p] = paylinks[p] /\ submittedProofs'[p] = submittedProofs[p]
      BY <3>1, Zenon DEF SubmitSettlingVote, RecordVote
    <3> QED BY <3>2, <3>3, Zenon DEF LifecycleStep, Settled
  <2>4. CASE CancelStep \/ FailStep
    BY <2>4 DEF CancelStep, CancelPayLink, FailStep, FailPayLink, LifecycleStep, Settled, PayLink
  <2>5. CASE Quiet
    BY <2>5, Zenon DEF Quiet, LifecycleStep, Settled
  <2> QED BY <1>1, <2>1, <2>2, <2>3, <2>4, <2>5, QuietSteps, Zenon DEF Next
<1> QED BY <1>1, SettlementInvariant, PTL DEF Spec, LifecycleOrder
-----------------------------------------------------------------------------
(* A transfer clears the approval, and approving refuses the owner, so no   *)
(* step leaves a PayLink approved for its own owner.                        *)
LEMMA ApprovalNext ==
  ASSUME TypeOK, NoStaleApproval, [Next]_vars
  PROVE  NoStaleApproval'
<1> USE AddressAssumption DEF TypeOK, NoStaleApproval, AddressAssumption
<1>1. CASE CreateStep
  BY <1>1 DEF CreateStep, CreatePayLink
<1>2. CASE VoteStep
  BY <1>2 DEF VoteStep, SubmitVote, PayLink
<1>3. CASE SettleStep
  <2>1. PICK id \in PayLinkId :
          /\ paylinks' = [paylinks EXCEPT ![id].status = "VERIFIED", ![id].voteCount = @ + 1]
          /\ paylinks[id].status = "CREATED"
    BY <1>3, ZenonT(30) DEF SettleStep, SubmitSettlingVote, MayVote
  <2> QED BY <2>1 DEF PayLink
<1>4. CASE CancelStep
  BY <1>4 DEF CancelStep, CancelPayLink, PayLink
<1>5. CASE FailStep
  BY <1>5 DEF FailStep, FailPayLink, PayLink
<1>6. CASE TransferStep
  <2>1. PICK id \in PayLinkId, to \in TransferTo : to # Zero /\ SetPayLinkOwner(id, to)
    BY <1>6, Zenon DEF TransferStep, TransferPayLink
  <2> QED BY <2>1 DEF SetPayLinkOwner, PayLink
<1>7. CASE ApproveStep
  BY <1>7 DEF ApproveStep, ApprovePayLink, PayLink
<1>8. CASE OperatorStep \/ NextBlock \/ ValidatorSetChange \/ UNCHANGED vars
  BY <1>8, Zenon DEF OperatorStep, SetApprovalForAll, NextBlock, ValidatorSetChange, vars
<1> QED BY <1>1, <1>2, <1>3, <1>4, <1>5, <1>6, <1>7, <1>8, Zenon DEF Next

(* An approval given by a former owner never outlives the transfer.         *)
THEOREM NoStaleApprovalAlways == Spec => []NoStaleApproval
<1>1. Init => NoStaleApproval
  BY DEF Init, NoStaleApproval, NoPayLink
<1> QED BY <1>1, ApprovalNext, TypeCorrect, PTL DEF Spec

(* The transfers of a PayLink are counted by TransferPayLink alone, which   *)
(* evaluates the MaxTransfers rules against the count before it adds one.   *)
LEMMA TransfersNext ==
  ASSUME TypeOK, [Next]_vars, NEW p \in PayLinkId, NEW r \in paylinks'[p].rules,
         r.type = "MaxTransfers",
         r \in paylinks[p].rules => paylinks[p].transferCount <= r.max
  PROVE  paylinks'[p].transferCount <= r.max
<1> USE DEF TypeOK
<1>0. r.max \in Nat
  BY TypeNext, RuleAssumption, Zenon DEF PayLink, RuleAssumption
<1>1. CASE CreateStep
  <2>1. PICK from \in Creators, id \in PayLinkId, receiver \in {Zero, Admin},
             amount \in Amounts, expiry \in 0..MaxTime, ruleSet \in RuleSets :
               CreatePayLink(from, id, receiver, amount, expiry, ruleSet)
    BY <1>1, Zenon DEF CreateStep
  <2>2. CASE p = id
    BY <1>0, <2>1, <2>2 DEF CreatePayLink
  <2>3. CASE p # id
    BY <2>1, <2>3, Zenon DEF CreatePayLink
  <2> QED BY <2>2, <2>3, Zenon
<1>2. CASE TransferStep
  <2>0. r \in paylinks[p].rules
    <3>1. PICK id \in PayLinkId, to \in TransferTo : SetPayLinkOwner(id, to)
      BY <1>2, Zenon DEF TransferStep, TransferPayLink
    <3> QED BY <3>1 DEF SetPayLinkOwner, PayLink
  <2>1. PICK from \in Addr, id \in PayLinkId, to \in TransferTo :
          /\ Evaluate(paylinks[id].rules, Context(id, "transfer", from, to, {}))
          /\ SetPayLinkOwner(id, to)
    BY <1>2, Zenon DEF TransferStep, TransferPayLink
  <2>2. CASE p = id
    <3>1. EvaluateOne(r, Context(p, "transfer", from, to, {}))
      BY <2>0, <2>1, <2>2, Zenon DEF Evaluate
    <3>2. paylinks[p].transferCount < r.max
      BY <3>1, Zenon DEF EvaluateOne, Context
    <3>3. paylinks'[p].transferCount = paylinks[p].transferCount + 1
      BY <2>1, <2>2 DEF SetPayLinkOwner, PayLink
    <3>4. paylinks[p].transferCount \in Nat
      BY Zenon DEF PayLink
    <3> QED BY <1>0, <3>2, <3>3, <3>4
  <2>3. CASE p # id
    BY <2>0, <2>1, <2>3, Zenon DEF SetPayLinkOwner
  <2> QED BY <2>2, <2>3, Zenon
<1>3. CASE ~ CreateStep /\ ~ TransferStep
  <2>1. r \in paylinks[p].rules
    BY <1>3, RulesFixed, Zenon
  <2>2. paylinks'[p].transferCount = paylinks[p].transferCount
    <3>1. CASE VoteStep
      BY <3>1 DEF VoteStep, SubmitVote, PayLink
    <3>2. CASE SettleStep
      BY <3>2 DEF SettleStep, SubmitSettlingVote, PayLink
    <3>3. CASE CancelStep \/ FailStep
      BY <3>3 DEF CancelStep, CancelPayLink, FailStep, FailPayLink, PayLink
    <3>4. CASE ApproveStep
      BY <3>4 DEF ApproveStep, ApprovePayLink, PayLink
    <3>5. CASE OperatorStep \/ NextBlock \/ ValidatorSetChange \/ UNCHANGED vars
      BY <3>5, Zenon DEF OperatorStep, SetApprovalForAll, NextBlock, ValidatorSetChange, vars
    <3> QED BY <1>3, <3>1, <3>2, <3>3, <3>4, <3>5, Zenon DEF Next
  <2> QED BY <2>1, <2>2, Zenon
<1> QED BY <1>1, <1>2, <1>3, Zenon

(* The only step after which a PayLink is settled that was not before is    *)
(* the settling vote on it.                                                 *)
LEMMA SettlesByVote ==
  ASSUME SettlementInv, [Next]_vars, NEW p \in PayLinkId, ~ Settled(p), Settled(p)'
  PROVE  \E from \in Addr, proof \in Proof : SubmitSettlingVote(from, p, proof)
<1>0. TypeOK /\ PayLinkInv(p)
  BY Zenon DEF SettlementInv
<1> USE <1>0, BoundAssumption DEF BoundAssumption, TypeOK
<1>1. CASE CreateStep
  BY <1>1 DEF CreateStep, CreatePayLink, Settled
<1>2. CASE VoteStep
  <2>1. PICK from \in Addr, id \in PayLinkId, proof \in Proof : SubmitVote(from, id, proof)
    BY <1>2, Zenon DEF VoteStep
  <2> QED BY <2>1, Zenon DEF SubmitVote, ReachesQuorum, Settled, PayLink
<1>3. CASE SettleStep
  <2>1. PICK from \in Addr, id \in PayLinkId, proof \in Proof : SubmitSettlingVote(from, id, proof)
    BY <1>3, Zenon DEF SettleStep
  <2>2. id = p
    BY <2>1, Zenon DEF SubmitSettlingVote, Settled
  <2> QED BY <2>1, <2>2, Zenon
<1>4. CASE CancelStep \/ FailStep
  BY <1>4 DEF CancelStep, CancelPayLink, FailStep, FailPayLink, Settled, PayLink
<1>5. CASE Quiet
  BY <1>5, Zenon DEF Quiet, Settled
<1> QED BY <1>1, <1>2, <1>3, <1>4, <1>5, QuietSteps, Zenon DEF Next

(* A settled PayLink takes no more votes, and no transaction changes its    *)
(* amount or its rules.                                                     *)
LEMMA SettledIsFixed ==
  ASSUME SettlementInv, [Next]_vars, NEW p \in PayLinkId, Settled(p)
  PROVE  /\ Voters(p)' = Voters(p)
         /\ paylinks'[p].amount = paylinks[p].amount
         /\ paylinks'[p].rules = paylinks[p].rules
<1>0. TypeOK /\ PayLinkInv(p)
  BY Zenon DEF SettlementInv
<1>1. paylinks[p].status # "CREATED" /\ paylinks[p].status # "NONE"
  BY <1>0, BoundAssumption DEF PayLinkInv, Settled, TypeOK, PayLink, BoundAssumption
<1> USE <1>0, <1>1 DEF TypeOK
<1>2. CASE CreateStep
  BY <1>2 DEF CreateStep, CreatePayLink, Voters
<1>3. CASE VoteStep
  <2>1. PICK from \in Addr, id \in PayLinkId, proof \in Proof : SubmitVote(from, id, proof)
    BY <1>3, Zenon DEF VoteStep
  <2>2. id # p
    BY <2>1, Zenon DEF SubmitVote, MayVote
  <2> QED BY <2>1, <2>2, VotersAfterVote, Zenon DEF SubmitVote, RecordVote
<1>4. CASE SettleStep
  <2>1. PICK from \in Addr, id \in PayLinkId, proof \in Proof : SubmitSettlingVote(from, id, proof)
    BY <1>4, Zenon DEF SettleStep
  <2>2. id # p
    BY <2>1, Zenon DEF SubmitSettlingVote, MayVote
  <2> QED BY <2>1, <2>2, VotersAfterVote, Zenon DEF SubmitSettlingVote, RecordVote
<1>5. CASE CancelStep \/ FailStep
  BY <1>5 DEF CancelStep, CancelPayLink, FailStep, FailPayLink, Voters, PayLink
<1>6. CASE TransferStep
  <2>1. PICK id \in PayLinkId, to \in TransferTo : SetPayLinkOwner(id, to) /\ votes' = votes
    BY <1>6, Zenon DEF TransferStep, TransferPayLink
  <2> QED BY <2>1 DEF SetPayLinkOwner, Voters, PayLink
<1>7. CASE ApproveStep
  BY <1>7 DEF ApproveStep, ApprovePayLink, Voters, PayLink
<1>8. CASE OperatorStep \/ NextBlock \/ ValidatorSetChange \/ UNCHANGED vars
  BY <1>8, Zenon DEF OperatorStep, SetApprovalForAll, NextBlock, ValidatorSetChange, vars, Voters
<1> QED BY <1>2, <1>3, <1>4, <1>5, <1>6, <1>7, <1>8, Zenon DEF Next

(* What the rules of a settled PayLink say of its voters and its amount:    *)
(* the settling vote evaluated them with itself among the approvals.        *)
LEMMA SettledRulesNext ==
  ASSUME SettlementInv, RulesHonoured, [Next]_vars, NEW p \in PayLinkId,
         NEW r \in paylinks'[p].rules, Settled(p)'
  PROVE  /\ r.type = "MultiApproval" =>
               Cardinality(Approvals(r, Voters(p)')) >= r.required
         /\ r.type = "AmountThreshold" =>
               /\ r.min > 0 => paylinks'[p].amount >= r.min
               /\ r.max > 0 => paylinks'[p].amount <= r.max
<1>1. CASE Settled(p)
  BY <1>1, SettledIsFixed, Zenon DEF RulesHonoured
<1>2. CASE ~ Settled(p)
  <2>1. PICK from \in Addr, proof \in Proof : SubmitSettlingVote(from, p, proof)
    BY <1>2, SettlesByVote, Zenon
  <2>2. paylinks'[p].rules = paylinks[p].rules /\ paylinks'[p].amount = paylinks[p].amount
    BY <2>1 DEF SubmitSettlingVote, SettlementInv, TypeOK, PayLink
  <2>3. Voters(p)' = Voters(p) \cup {from}
    BY <2>1, VotersAfterVote, Zenon DEF SubmitSettlingVote, RecordVote
  <2>4. EvaluateOne(r, SettleContext(from, p))
    BY <2>1, <2>2, Zenon DEF SubmitSettlingVote, Evaluate
  <2>5. r.type = "MultiApproval" =>
          Cardinality(Approvals(r, Voters(p) \cup {from})) >= r.required
    BY <2>4, Zenon DEF EvaluateOne, SettleContext, Context
  <2>6. r.type = "AmountThreshold" =>
          /\ r.min > 0 => paylinks[p].amount >= r.min
          /\ r.max > 0 => paylinks[p].amount <= r.max
    BY <2>4, Zenon DEF EvaluateOne, SettleContext, Context
  <2> QED BY <2>2, <2>3, <2>5, <2>6, Zenon
<1> QED BY <1>1, <1>2, Zenon

(* The rules a PayLink was created with hold for as long as it lives, for   *)
(* any rule sets, any validators and any order of votes and transfers.      *)
THEOREM RulesHonouredAlways == Spec => []RulesHonoured
<1>1. Init => RulesHonoured
  BY DEF Init, RulesHonoured, NoPayLink
<1>2. ASSUME SettlementInv, RulesHonoured, [Next]_vars
      PROVE  RulesHonoured'
  <2>1. ASSUME NEW p \in PayLinkId, NEW r \in paylinks'[p].rules, r.type = "MaxTransfers"
        PROVE  paylinks'[p].transferCount <= r.max
    BY <1>2, <2>1, TransfersNext, Zenon DEF SettlementInv, RulesHonoured
  <2> QED BY <1>2, <2>1, SettledRulesNext, Zenon DEF RulesHonoured
<1> QED BY <1>1, <1>2, SettlementInvariant, PTL DEF Spec
=============================================================================
