------------------------ MODULE PaymentOrchestrator ------------------------
(***************************************************************************)
(* payment-orchestrator: replicas that share a table of payments, project   *)
(* the chain's events onto it as the datastream delivers them, and          *)
(* reconcile a payment with the chain when it is read.                      *)
(*                                                                          *)
(* The chain is its events: a PayLink has the status of its last one.       *)
(***************************************************************************)
EXTENDS EventStream, FiniteSets

CONSTANTS
    PayLinks,
    MaxEmitted,      \* bound on events of the chain
    MaxCalls,        \* bound on requests
    MaxFaults        \* bound on disconnections, crashes and failures

ASSUME OrchestratorAssumption == {MaxEmitted, MaxCalls, MaxFaults} \subseteq Nat

VARIABLES
    payment,      \* payment.payments, by PayLink
    appliedEvents,   \* payment.applied_chain_events
    call,         \* the request each replica is serving
    toPublish,    \* domain events of committed changes, not yet published
    payEvents,    \* domain events published: how often each
    calls, faults

orchestratorVars == <<streamVars, payment, appliedEvents, call, toPublish, payEvents, calls, faults>>
payRest == <<payment, appliedEvents, call, toPublish, payEvents>>

Terminal == {"SETTLED", "CANCELLED", "FAILED"}
NoPayment == "none"
NoCall == [stage |-> "none"]
Fault == faults < MaxFaults /\ faults' = faults + 1

(* FromChainStatus. *)
FromChainStatus == [CREATED |-> "AWAITING_PAYMENT", VERIFIED |-> "SETTLED",
                    CANCELLED |-> "CANCELLED", FAILED |-> "FAILED"]

(* ChainStatusForEvent: paylink.voted and the like imply no status. *)
ChainStatusForEvent ==
    [k \in {"paylink.created", "paylink.verified", "paylink.cancelled", "paylink.failed"} |->
        CASE k = "paylink.created" -> "CREATED" [] k = "paylink.verified" -> "VERIFIED"
          [] k = "paylink.cancelled" -> "CANCELLED" [] k = "paylink.failed" -> "FAILED"]
ImpliesStatus(kind) == kind \in DOMAIN ChainStatusForEvent

StatusEventsOf(p) == {n \in DOMAIN emitted : emitted[n].pl = p /\ ImpliesStatus(emitted[n].kind)}
EndsOf(p) == {n \in StatusEventsOf(p) : emitted[n].kind # "paylink.created"}
ChainStatus(p) ==
    IF StatusEventsOf(p) = {} THEN "NONE"
    ELSE ChainStatusForEvent[emitted[CHOOSE n \in StatusEventsOf(p) : \A k \in StatusEventsOf(p) : k <= n].kind]

(* Mutant: a payment may leave a terminal state. *)
ProjectAlways(current, status) == FromChainStatus[status]

(* Mutant: any status but CREATED settles a payment. *)
SettlesOnAnyEnd(current, status) ==
    IF current = "AWAITING_PAYMENT" /\ status # "CREATED" THEN "SETTLED" ELSE current

(* Project: the new state of a payment.  What is not an edge, or no change, *)
(* leaves it as it is.                                                      *)
Project(current, status) ==
    IF current = "AWAITING_PAYMENT" THEN FromChainStatus[status] ELSE current

(* afterTransition: the goroutine that changed the row publishes before it  *)
(* does anything else.  A replica has one for the stream, one for a call.   *)
Changes(who, p, next) ==
    /\ payment' = [payment EXCEPT ![p] = next]
    /\ toPublish' = IF next = payment[p] THEN toPublish ELSE toPublish \cup {<<who, p, next>>}
Publishing(who) == \E job \in toPublish : job[1] = who
Idle(r) == call[r].stage \in {"none", "answered"} /\ ~Publishing(<<r, "call">>)

-----------------------------------------------------------------------------
(* The chain.                                                               *)

ChainEvent(p, kind) ==
    /\ Len(emitted) < MaxEmitted
    /\ ChainStatus(p) = IF kind = "paylink.created" THEN "NONE" ELSE "CREATED"
    /\ BusPublish(p, kind)
    /\ UNCHANGED <<payRest, calls, faults>>

ChainRestart == eventSeq > 0 /\ NodeRestarts /\ Fault /\ UNCHANGED <<payRest, calls>>

-----------------------------------------------------------------------------
(* Initiate.                                                                *)

(* paylink-service answers from the chain, or with what it had stored       *)
(* before when it cannot reach the chain.                                   *)
CheckPayable(r, p) ==
    /\ Idle(r) /\ calls < MaxCalls
    /\ calls' = calls + 1
    /\ \/ ChainStatus(p) \in {"NONE", "CREATED"} /\ UNCHANGED faults
       \/ Fault
    /\ call' = [call EXCEPT ![r] = [stage |-> "payable", pl |-> p]]
    /\ UNCHANGED <<streamVars, payment, appliedEvents, toPublish, payEvents>>

(* A second payment of the PayLink violates the unique index. *)
CreatePayment(r) ==
    /\ call[r].stage = "payable"
    /\ IF payment[call[r].pl] = NoPayment
       THEN /\ payment' = [payment EXCEPT ![call[r].pl] = "AWAITING_PAYMENT"]
            /\ toPublish' = toPublish \cup {<<<<r, "call">>, call[r].pl, "INITIATED">>}
       ELSE UNCHANGED <<payment, toPublish>>
    /\ call' = [call EXCEPT ![r] = NoCall]
    /\ UNCHANGED <<streamVars, appliedEvents, payEvents, calls, faults>>

-----------------------------------------------------------------------------
(* Get.  then is the chain's status when the request began; excused is      *)
(* whether it could not read the chain or the row had changed under it.     *)

AnswersCall(r, status, excused) ==
    call' = [call EXCEPT ![r] =
        [stage |-> "answered", then |-> call[r].then, answer |-> status, excused |-> excused]]

GetPayment(r, p) ==
    /\ Idle(r) /\ calls < MaxCalls
    /\ calls' = calls + 1
    /\ payment[p] # NoPayment
    /\ call' = [call EXCEPT ![r] =
           [stage |-> "row", pl |-> p, row |-> payment[p], then |-> ChainStatus(p)]]
    /\ UNCHANGED <<streamVars, payment, appliedEvents, toPublish, payEvents, faults>>

(* Mutant: a payment that waits is answered from the table. *)
AnswersFromRow(row) == TRUE

(* reconcile leaves a terminal payment alone. *)
NeedsNoChain(row) == row \in Terminal

PayLinkStatus(r) ==
    /\ call[r].stage = "row"
    /\ \/ NeedsNoChain(call[r].row) /\ AnswersCall(r, call[r].row, FALSE) /\ UNCHANGED faults
       \/ /\ ~NeedsNoChain(call[r].row)
          /\ Fault \/ (ChainStatus(call[r].pl) = "NONE" /\ UNCHANGED faults)
          /\ AnswersCall(r, call[r].row, TRUE)
       \/ /\ ~NeedsNoChain(call[r].row) /\ ChainStatus(call[r].pl) # "NONE"
          /\ call' = [call EXCEPT ![r] = [stage |-> "asked", pl |-> call[r].pl, row |-> call[r].row,
                                          then |-> call[r].then, status |-> ChainStatus(call[r].pl)]]
          /\ UNCHANGED faults
    /\ UNCHANGED <<streamVars, payment, appliedEvents, toPublish, payEvents, calls>>

(* Store.Reconcile, under the row's lock.  Unless it changed the row itself *)
(* the request answers with the row that it read at the beginning.          *)
Reconcile(r) ==
    /\ call[r].stage = "asked"
    /\ LET p == call[r].pl
           next == Project(payment[p], call[r].status)
       IN  /\ Changes(<<r, "call">>, p, next)
           /\ IF next # payment[p] THEN AnswersCall(r, next, FALSE)
              ELSE AnswersCall(r, call[r].row, payment[p] # call[r].row)
    /\ UNCHANGED <<streamVars, appliedEvents, payEvents, calls, faults>>

ReconcileFails(r) ==
    /\ call[r].stage = "asked" /\ Fault
    /\ AnswersCall(r, call[r].row, TRUE)
    /\ UNCHANGED <<streamVars, payment, appliedEvents, toPublish, payEvents, calls>>

-----------------------------------------------------------------------------
(* Mutant: one event of a PayLink stands for all. *)
AppliedAny(p, n) == \E k \in DOMAIN emitted : <<p, emitted[k].seq>> \in appliedEvents

Applied(p, n) == <<p, emitted[n].seq>> \in appliedEvents

(* Subscriber.handle and ApplyChainEvent.  Two replicas get the same event; *)
(* the (paylink_id, seq) row and the row lock keep them apart.              *)

Handle(r) ==
    /\ ~Publishing(<<r, "stream">>)
    /\ wire[r] # <<>>
    /\ LET n == Head(wire[r])
           p == emitted[n].pl
           kind == emitted[n].kind
       IN  /\ Take(r, payment[p] = NoPayment)
           /\ \/ ~ImpliesStatus(kind) /\ UNCHANGED <<payment, appliedEvents, toPublish>>
              \/ /\ ImpliesStatus(kind) /\ payment[p] = NoPayment
                 /\ UNCHANGED <<payment, appliedEvents, toPublish>>
              \/ /\ ImpliesStatus(kind) /\ payment[p] # NoPayment
                 /\ appliedEvents' = appliedEvents \cup {<<p, emitted[n].seq>>}
                 /\ Changes(<<r, "stream">>, p, IF Applied(p, n) THEN payment[p]
                                                ELSE Project(payment[p], ChainStatusForEvent[kind]))
    /\ UNCHANGED <<call, payEvents, calls, faults>>

(* "It NEVER returns a non-nil error": a failed transaction is logged. *)
HandleFails(r) ==
    /\ wire[r] # <<>>
    /\ ~Publishing(<<r, "stream">>)
    /\ ImpliesStatus(emitted[Head(wire[r])].kind) /\ Fault
    /\ Take(r, TRUE)
    /\ UNCHANGED <<payRest, calls>>

-----------------------------------------------------------------------------
(* publish: a failure is logged and the event is not sent again. *)
PublishPayment(job) ==
    /\ toPublish' = toPublish \ {job}
    /\ \/ payEvents' = [payEvents EXCEPT ![job[2]][job[3]] = @ + 1] /\ UNCHANGED faults
       \/ Fault /\ UNCHANGED payEvents
    /\ UNCHANGED <<streamVars, payment, appliedEvents, call, calls>>

Streams(r) ==
    /\ Connect(r) \/ handleSubscribe(r) \/ writePump(r)
    /\ UNCHANGED <<payRest, calls, faults>>

FansOut == FanOut /\ UNCHANGED <<payRest, calls, faults>>

Drops(r) ==
    /\ link[r] # "down" /\ Fault
    /\ Disconnect(r)
    /\ UNCHANGED <<payRest, calls>>

(* A replica restarts: its requests, its connection and what it had still   *)
(* to publish are gone.                                                     *)
OrchestratorCrash(r) ==
    /\ Fault
    /\ Disconnect(r)
    /\ call' = [call EXCEPT ![r] = NoCall]
    /\ toPublish' = {job \in toPublish : job[1][1] # r}
    /\ UNCHANGED <<payment, appliedEvents, payEvents, calls>>

OrchestratorInit ==
    /\ StreamInit
    /\ payment = [p \in PayLinks |-> NoPayment]
    /\ appliedEvents = {} /\ toPublish = {}
    /\ call = [r \in Subscribers |-> NoCall]
    /\ payEvents = [p \in PayLinks |-> [e \in Terminal \cup {"INITIATED"} |-> 0]]
    /\ calls = 0 /\ faults = 0

OrchestratorNext ==
    \/ \E p \in PayLinks, kind \in WantedKinds \cup {"paylink.created", "paylink.voted"} : ChainEvent(p, kind)
    \/ \E r \in Subscribers :
        \/ \E p \in PayLinks : CheckPayable(r, p) \/ GetPayment(r, p)
        \/ CreatePayment(r) \/ PayLinkStatus(r) \/ Reconcile(r) \/ ReconcileFails(r)
        \/ Handle(r) \/ HandleFails(r)
        \/ Streams(r) \/ Drops(r) \/ OrchestratorCrash(r)
    \/ \E job \in toPublish : PublishPayment(job)
    \/ FansOut \/ ChainRestart

-----------------------------------------------------------------------------
(* Project: "this machine only mirrors on-chain truth so the orchestrator *)
(* never invents settlement": a payment that is over is over in the same    *)
(* way on the chain, whatever stale status a read carried.                  *)
PaymentFollowsChain ==
    \A p \in PayLinks :
        payment[p] \in Terminal => EndsOf(p) # {} /\ payment[p] = FromChainStatus[ChainStatus(p)]

(* "Applying the same settlement twice can never double-advance": the end   *)
(* of a payment is announced at most once, whichever replicas and reads     *)
(* race for it.                                                             *)
EndAnnouncedOnce ==
    \A p \in PayLinks, e \in Terminal :
        /\ payEvents[p][e] + Cardinality({job \in toPublish : job[2] = p /\ job[3] = e}) <= 1
        /\ payEvents[p][e] > 0 => payment[p] = e

(* A later event of the PayLink that a restarted node gave an old number.   *)
NumberReused(p, n) == \E k \in StatusEventsOf(p) \ {n} : emitted[k].seq = emitted[n].seq

(* A payment lags behind the chain only while the event is on its way to a  *)
(* replica, or after every replica missed it: it was dropped, its handling  *)
(* failed, it found no payment yet, or its number was taken for that of     *)
(* another event ("the (paylink_id, seq) insert dedupes redelivered         *)
(* events").                                                                *)
LagsOnlyIfMissed ==
    \A p \in PayLinks : payment[p] = "AWAITING_PAYMENT" =>
        \A n \in EndsOf(p), r \in Subscribers :
            \/ n \in Numbers(OnTheWay(r)) \/ n \in gone[r]
            \/ NumberReused(p, n) /\ Applied(p, n)

(* Get: "reconciled against on-chain truth so the response is consistent    *)
(* with chain state".  A read that began after the end of a PayLink answers *)
(* with that end, unless the chain could not be asked or someone else had   *)
(* written the row after the read had fetched it.                           *)
ReadTellsChain ==
    \A r \in Subscribers : call[r].stage = "answered" =>
        \/ call[r].then \in {"NONE", "CREATED"} \/ call[r].excused
        \/ call[r].answer = FromChainStatus[call[r].then]

(* Replicas that share a stream with losses, a table and a node that        *)
(* restarts mirror the chain: payments end as the PayLink did, are          *)
(* announced once, lag only for a loss the stream or the handlers account   *)
(* for, and reads say what the chain said when they began, but for the      *)
(* overlap named.                                                           *)
MirrorsChain ==
    /\ StreamInOrder /\ PaymentFollowsChain /\ EndAnnouncedOnce
    /\ LagsOnlyIfMissed /\ ReadTellsChain
=============================================================================
