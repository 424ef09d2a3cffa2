--------------------------- MODULE EscrowManager ---------------------------
(***************************************************************************)
(* escrow-manager: the escrow of one PayLink.  Confirmations, disputes,     *)
(* funding events of the chain and the sweeper change its row, each in one  *)
(* transaction that holds the row's lock or updates it conditionally.  The  *)
(* rows of different PayLinks share nothing.                                *)
(*                                                                          *)
(* Domain events are published after the commit, from memory.              *)
(***************************************************************************)
EXTENDS Integers, Sequences, FiniteSets

CONSTANTS
    Creator, Payee,      \* parties of the escrow
    EscApprovers,        \* others that may be named as approvers
    Offsets,             \* times from now that a request may name
    LastTime,            \* bound on the clock
    MaxEscTroubles       \* bound on lost, repeated and failed steps

ASSUME EscrowManagerAssumption ==
    /\ Creator # Payee
    /\ Offsets \subseteq Nat
    /\ {LastTime, MaxEscTroubles} \subseteq Nat

VARIABLES
    escrow,       \* the row of the PayLink
    approvals,    \* escrow.approvals of that row
    fundingSeen,  \* the processed_events row of the PayLink's settlement
    escNow,       \* the clock
    settledTx,    \* the chain has verified the PayLink
    fundingMsgs,  \* deliveries of chain.paylink.verified to come
    sweep,        \* the sweeper's pass
    unsent,       \* states committed and not yet announced
    escEvents,    \* states announced, in the order of the bus
    passedBy,     \* history: a funding event was lost, or came before the escrow
    releaseFailed,  \* history: a pass went on after its release statement failed
    escTroubles

escRow == <<escrow, approvals, fundingSeen>>
escWorld == <<escNow, settledTx, fundingMsgs>>
escHistory == <<passedBy, releaseFailed>>
escrowVars == <<escRow, escWorld, sweep, unsent, escEvents, escHistory, escTroubles>>

EscParties == {Creator, Payee} \cup EscApprovers
Outcomes == {"RELEASED", "REFUNDED", "DISPUTED"}
NoEscrow == [state |-> "absent"]
NoPass == [stage |-> "none", now |-> 0]
EscTrouble == escTroubles < MaxEscTroubles /\ escTroubles' = escTroubles + 1

-----------------------------------------------------------------------------
(* Create.                                                                  *)

(* Conditions a request may ask for; the approvers are unique addresses.    *)
Requested == [type : {"delivery_confirmation"}, releaseAt : {0}, approvers : {{}}, threshold : {0}]
    \cup [type : {"time_lock"}, releaseAt : {escNow + d : d \in Offsets}, approvers : {{}}, threshold : {0}]
    \cup [type : {"multi_party_approval"}, releaseAt : {0},
          approvers : SUBSET EscApprovers, threshold : 0..Cardinality(EscApprovers)]

(* Mutant: a time lock may end after the timeout. *)
AnyLock(c, now, timeoutAt) ==
    /\ c.type = "time_lock" => c.releaseAt > now
    /\ c.type = "multi_party_approval" => c.threshold \in 1..Cardinality(c.approvers)

validateCondition(c, now, timeoutAt) ==
    /\ c.type = "time_lock" => c.releaseAt > now /\ c.releaseAt < timeoutAt
    /\ c.type = "multi_party_approval" => c.threshold \in 1..Cardinality(c.approvers)

(* A PayLink has one escrow: a second insert fails on pl_id. *)
CreateEscrow(c, timeoutAt) ==
    /\ escrow = NoEscrow
    /\ timeoutAt > escNow
    /\ validateCondition(c, escNow, timeoutAt)
    /\ escrow' = [state |-> "WAITING", cond |-> c, funded |-> FALSE, timeoutAt |-> timeoutAt]
    /\ unsent' = unsent \cup {"WAITING"}
    /\ UNCHANGED <<approvals, fundingSeen, escWorld, sweep, escEvents, escHistory, escTroubles>>

-----------------------------------------------------------------------------
(* Transitions of a WAITING row.                                            *)

conditionSatisfied(c, appr, now) ==
    \/ c.type = "delivery_confirmation" /\ Creator \in appr
    \/ c.type = "time_lock" /\ now >= c.releaseAt
    \/ c.type = "multi_party_approval" /\ Cardinality(c.approvers \cap appr) >= c.threshold

(* Mutant: ConditionsMet does not ask for the funding. *)
releaseUnfunded(funded, satisfied) == IF satisfied THEN "RELEASED" ELSE "WAITING"

(* ConditionsMet and Release, applied together. *)
tryRelease(funded, satisfied) == IF funded /\ satisfied THEN "RELEASED" ELSE "WAITING"

MayConfirm(c, caller) ==
    \/ c.type = "delivery_confirmation" /\ caller = Creator
    \/ c.type = "multi_party_approval" /\ caller \in c.approvers

(* Mutant: the update leaves out the funded column. *)
KeepsFunding(state, funded) ==
    /\ escrow' = [escrow EXCEPT !.state = state]
    /\ unsent' = unsent \cup ({state} \ {escrow.state})

(* Mutant: every update is announced, not only an outcome. *)
AlwaysTells(state, funded) ==
    /\ escrow' = [escrow EXCEPT !.state = state, !.funded = funded]
    /\ unsent' = unsent \cup {state}

(* applyUpdate, and the event that the caller publishes after the commit. *)
Becomes(state, funded) ==
    /\ escrow' = [escrow EXCEPT !.state = state, !.funded = funded]
    /\ unsent' = unsent \cup ({state} \ {escrow.state})

(* Mutant: the approval is inserted before the state is looked at. *)
ConfirmAnyState(caller) ==
    /\ escrow # NoEscrow
    /\ MayConfirm(escrow.cond, caller)
    /\ approvals' = approvals \cup {caller}
    /\ IF escrow.state # "WAITING" THEN UNCHANGED <<escrow, unsent>>
       ELSE Becomes(tryRelease(escrow.funded, conditionSatisfied(escrow.cond, approvals', escNow)), escrow.funded)
    /\ UNCHANGED <<fundingSeen, escWorld, sweep, escEvents, escHistory, escTroubles>>

Confirm(caller) ==
    /\ escrow.state = "WAITING"
    /\ MayConfirm(escrow.cond, caller)
    /\ approvals' = approvals \cup {caller}
    /\ Becomes(tryRelease(escrow.funded, conditionSatisfied(escrow.cond, approvals', escNow)), escrow.funded)
    /\ UNCHANGED <<fundingSeen, escWorld, sweep, escEvents, escHistory, escTroubles>>

(* IsParticipant: the creator, who also gets refunds here, and the payee. *)
Dispute(caller) ==
    /\ escrow.state = "WAITING"
    /\ caller \in {Creator, Payee}
    /\ Becomes("DISPUTED", escrow.funded)
    /\ UNCHANGED <<approvals, fundingSeen, escWorld, sweep, escEvents, escHistory, escTroubles>>

-----------------------------------------------------------------------------
(* HandlePaylinkVerified.                                                   *)

(* Mutant: funding is recorded, and the release left to the confirmations. *)
FundsOnly == "WAITING"

FundedState == tryRelease(TRUE, conditionSatisfied(escrow.cond, approvals, escNow))

(* The dedupe row and the update commit together; without an escrow the     *)
(* event is not ours, and a late event only leaves its dedupe row.          *)
HandlePaylinkVerified ==
    /\ fundingMsgs > 0
    /\ fundingMsgs' = fundingMsgs - 1
    /\ \/ escrow = NoEscrow /\ passedBy' = TRUE /\ UNCHANGED <<escRow, unsent>>
       \/ escrow # NoEscrow /\ fundingSeen /\ UNCHANGED <<escRow, unsent, passedBy>>
       \/ /\ escrow # NoEscrow /\ ~fundingSeen
          /\ fundingSeen' = TRUE
          /\ IF escrow.state = "WAITING" THEN Becomes(FundedState, TRUE) ELSE UNCHANGED <<escrow, unsent>>
          /\ UNCHANGED <<approvals, passedBy>>
    /\ UNCHANGED <<escNow, settledTx, sweep, escEvents, releaseFailed, escTroubles>>

(* The handler fails: the transaction rolls back, the bus delivers again or *)
(* moves on (EventDelivery); the mirror or the datastream may have lost the *)
(* event before.                                                            *)
LoseFunding ==
    /\ fundingMsgs > 0 /\ EscTrouble
    /\ fundingMsgs' = fundingMsgs - 1
    /\ passedBy' = TRUE
    /\ UNCHANGED <<escRow, escNow, settledTx, sweep, unsent, escEvents, releaseFailed>>

RepeatFunding ==
    /\ settledTx /\ EscTrouble
    /\ fundingMsgs' = fundingMsgs + 1
    /\ UNCHANGED <<escRow, escNow, settledTx, sweep, unsent, escEvents, escHistory>>

(* The chain settles a PayLink once; the mirror announces it. *)
SettlesOnChain ==
    /\ ~settledTx
    /\ settledTx' = TRUE
    /\ fundingMsgs' = fundingMsgs + 1
    /\ UNCHANGED <<escRow, escNow, sweep, unsent, escEvents, escHistory, escTroubles>>

-----------------------------------------------------------------------------
(* Sweep: one reading of the clock for two conditional updates.            *)

StartSweep ==
    /\ sweep = NoPass
    /\ sweep' = [stage |-> "release", now |-> escNow]
    /\ UNCHANGED <<escRow, escWorld, unsent, escEvents, escHistory, escTroubles>>

Due == /\ escrow.state = "WAITING"
       /\ escrow.funded /\ escrow.cond.type = "time_lock" /\ escrow.cond.releaseAt <= sweep.now

ReleaseDueTimeLocks ==
    /\ sweep.stage = "release"
    /\ sweep' = [sweep EXCEPT !.stage = "refund"]
    /\ IF Due THEN Becomes("RELEASED", TRUE) ELSE UNCHANGED <<escrow, unsent>>
    /\ UNCHANGED <<approvals, fundingSeen, escWorld, escEvents, escHistory, escTroubles>>

(* The error is logged and the pass goes on. *)
ReleaseFails ==
    /\ sweep.stage = "release" /\ EscTrouble
    /\ sweep' = [sweep EXCEPT !.stage = "refund"]
    /\ releaseFailed' = TRUE
    /\ UNCHANGED <<escRow, escWorld, unsent, escEvents, passedBy>>

(* Mutant: a funded escrow is left to its condition. *)
OverdueUnfunded == escrow.state = "WAITING" /\ ~escrow.funded /\ escrow.timeoutAt <= sweep.now

TimedOut == escrow.state = "WAITING" /\ escrow.timeoutAt <= sweep.now

RefundTimedOut ==
    /\ sweep.stage = "refund"
    /\ sweep' = NoPass
    /\ IF TimedOut THEN Becomes("REFUNDED", escrow.funded) ELSE UNCHANGED <<escrow, unsent>>
    /\ UNCHANGED <<approvals, fundingSeen, escWorld, escEvents, escHistory, escTroubles>>

RefundFails ==
    /\ sweep.stage = "refund" /\ EscTrouble
    /\ sweep' = NoPass
    /\ UNCHANGED <<escRow, escWorld, unsent, escEvents, escHistory>>

-----------------------------------------------------------------------------
(* publish, by the request or the pass that committed the state: requests   *)
(* overtake one another, an error is logged, a crash forgets the events.    *)

PublishEscrow(state) ==
    /\ state \in unsent
    /\ unsent' = unsent \ {state}
    /\ escEvents' = Append(escEvents, state)
    /\ UNCHANGED <<escRow, escWorld, sweep, escHistory, escTroubles>>

PublishEscrowFails(state) ==
    /\ state \in unsent /\ EscTrouble
    /\ unsent' = unsent \ {state}
    /\ UNCHANGED <<escRow, escWorld, sweep, escEvents, escHistory>>

EscrowCrash ==
    /\ EscTrouble
    /\ unsent' = {} /\ sweep' = NoPass
    /\ UNCHANGED <<escRow, escWorld, escEvents, escHistory>>

EscrowTick ==
    /\ escNow < LastTime
    /\ escNow' = escNow + 1
    /\ UNCHANGED <<escRow, settledTx, fundingMsgs, sweep, unsent, escEvents, escHistory, escTroubles>>

EscrowInit ==
    /\ escrow = NoEscrow /\ approvals = {} /\ fundingSeen = FALSE
    /\ escNow = 0 /\ settledTx = FALSE /\ fundingMsgs = 0
    /\ sweep = NoPass /\ unsent = {} /\ escEvents = <<>>
    /\ passedBy = FALSE /\ releaseFailed = FALSE /\ escTroubles = 0

EscSweepStep == StartSweep \/ ReleaseDueTimeLocks \/ RefundTimedOut

EscrowNext ==
    \/ \E c \in Requested, d \in Offsets : escNow + d <= LastTime /\ CreateEscrow(c, escNow + d)
    \/ \E caller \in EscParties : Confirm(caller) \/ Dispute(caller)
    \/ HandlePaylinkVerified \/ LoseFunding \/ RepeatFunding \/ SettlesOnChain
    \/ EscSweepStep \/ ReleaseFails \/ RefundFails
    \/ \E state \in unsent : PublishEscrow(state) \/ PublishEscrowFails(state)
    \/ EscrowCrash \/ EscrowTick

EscrowSpec == EscrowInit /\ [][EscrowNext]_escrowVars

-----------------------------------------------------------------------------
(* conditionsMetGuard: "allows ConditionsMet only when the escrow is funded *)
(* AND its condition is satisfied", whichever of a confirmation, a funding  *)
(* event and the sweeper released it, and with the chain's word for it.     *)
ReleasedIsDue ==
    escrow.state = "RELEASED" =>
        settledTx /\ escrow.funded /\ conditionSatisfied(escrow.cond, approvals, escNow)

(* Confirmations and the funding may come in either order: whichever comes  *)
(* last releases, so that no funded escrow waits although its condition is  *)
(* met (HandlePaylinkVerified evaluates the condition, Confirm the funding).*)
NothingLeftToRelease ==
    escrow.state = "WAITING" /\ escrow.funded /\ escrow.cond.type # "time_lock"
        => ~conditionSatisfied(escrow.cond, approvals, escNow)

(* Sweep: "(1) release due funded time_locks, then (2) refund timeouts".    *)
(* A funded time lock is never refunded, however late the pass and whatever *)
(* happens between its two statements, unless the first of them failed.     *)
FundedLockNotRefunded ==
    escrow.state = "REFUNDED" /\ escrow.funded /\ escrow.cond.type = "time_lock" => releaseFailed

(* The service knows of every settlement: a waiting escrow of a settled     *)
(* PayLink is funded or has its event still to come, unless the event was   *)
(* lost or came before the escrow was created.                              *)
FundingNotMissed ==
    escrow.state = "WAITING" /\ settledTx => escrow.funded \/ fundingMsgs > 0 \/ passedBy

(* Consumers learn of the creation and of one outcome, the one that was     *)
(* committed, each at most once, also when the sweeper races a confirmation *)
(* or a dispute and their events reach the bus in another order.            *)
OutcomeToldOnce ==
    /\ \A i \in DOMAIN escEvents : escEvents[i] \in {"WAITING", escrow.state}
    /\ \A i, j \in DOMAIN escEvents : escEvents[i] = escEvents[j] => i = j
    /\ \A i \in DOMAIN escEvents : escEvents[i] \notin unsent

(* "DISPUTED and already-advanced rows are never touched": an outcome, the  *)
(* funding and the approvals it rests on are final.                         *)
OutcomeFinal == [][escrow.state \in Outcomes => escrow' = escrow /\ approvals' = approvals]_escrowVars

(* "The sweeper loop never dies": no escrow waits for ever.                 *)
EscrowDecided == (escrow.state = "WAITING") ~> (escrow.state \in Outcomes)

(* However confirmations, disputes, funding events and the sweeper's        *)
(* statements are ordered, an escrow ends in favour of its condition and    *)
(* tells of it once: it is released only when due, does not wait when it is *)
(* due, is not refunded when it is a funded lock, and does not miss its     *)
(* funding, up to the losses named.                                         *)
EscrowSafe ==
    /\ ReleasedIsDue /\ NothingLeftToRelease /\ FundedLockNotRefunded
    /\ FundingNotMissed /\ OutcomeToldOnce
=============================================================================
