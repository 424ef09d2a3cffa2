----------------------------- MODULE MCProgress -----------------------------
(***************************************************************************)
(* The services that must make progress, in one run: each behaviour is one  *)
(* of one service, and the others stay in their initial states.             *)
(***************************************************************************)
EXTENDS EventDelivery, InvoiceService, PlatformFees, Notifications, EscrowManager

CONSTANTS r1, e1, m1, m2, w1, w2, p1, p2, q1, q2, x, y

VARIABLE selected   \* the service of this behaviour

progressVars == <<deliveryVars, invoiceVars, feeVars, noticeVars, escrowVars, selected>>

ProgressInit ==
    /\ selected \in {"delivery", "invoice", "fees", "notice", "escrow"}
    /\ DeliveryInit /\ InvoiceInit /\ FeeInit /\ NoticeInit /\ EscrowInit
    /\ selected # "delivery" => deployed = {r1} /\ durable

Unmoved(name, v) == selected # name => UNCHANGED v

(* Entities are interchangeable: the first event is one of e1's. *)
FirstOfE1 == outbox = <<>> \/ outbox[1].entity = e1

(* So are workers, the second of which begins only when the first is busy,  *)
(* and approvers: x is named first and approves first.                      *)
NoticeWorkersInOrder ==
    /\ intake[w2] = NoIntake /\ intake'[w2] # NoIntake => intake[w1] # NoIntake
    /\ running[p2] = NoTask /\ running'[p2] # NoTask => running[p1] # NoTask
    /\ putting[q2] = NoPut /\ putting'[q2] # NoPut => putting[q1] # NoPut
ApproversInOrder ==
    /\ y \in approvals => x \in approvals
    /\ escrow # NoEscrow => escrow.cond.approvers # {y}

(* Escrows time out at the end of the clock: no time passes after that. *)
TimeoutIsLast == escrow # NoEscrow => escrow.timeoutAt = LastTime

ProgressNext ==
    /\ UNCHANGED selected
    /\ \/ selected = "delivery" /\ DeliveryNext /\ FirstOfE1'
       \/ selected = "invoice"  /\ InvoiceNext
       \/ selected = "fees"     /\ FeeNext
       \/ selected = "notice"   /\ NoticeNext /\ NoticeWorkersInOrder
       \/ selected = "escrow"   /\ EscrowNext /\ ApproversInOrder' /\ TimeoutIsLast'
    /\ Unmoved("delivery", deliveryVars) /\ Unmoved("invoice", invoiceVars)
    /\ Unmoved("fees", feeVars) /\ Unmoved("notice", noticeVars)
    /\ Unmoved("escrow", escrowVars)

(* The relay and the consumer loop for as long as their services run. *)
FairDelivery ==
    /\ WF_deliveryVars(selected = "delivery" /\ DrainStep)
    /\ WF_deliveryVars(selected = "delivery" /\ ConsumeStep)

(* A request that was accepted goes on; the sweeper and the consumer loop   *)
(* for as long as the service runs.                                         *)
FairInvoices ==
    /\ WF_invoiceVars(selected = "invoice" /\ ServeInvRequest)
    /\ WF_invoiceVars(selected = "invoice" /\ SweepStep)
    /\ WF_invoiceVars(selected = "invoice" /\ PayStep)

(* The sweeper ticks for as long as the service runs. *)
FairFees == WF_feeVars(selected = "fees" /\ SweeperStep)

(* Requests run to their end; workers keep taking tasks, and a countdown    *)
(* passes.                                                                  *)
FairNotices ==
    /\ WF_noticeVars(selected = "notice" /\ IntakeStep)
    /\ \A p \in TaskWorkers : WF_noticeVars(selected = "notice" /\ TaskStep(p))

(* Time passes, and the sweeper loops for as long as the service runs. *)
FairEscrow ==
    /\ WF_escrowVars(selected = "escrow" /\ EscrowTick)
    /\ WF_escrowVars(selected = "escrow" /\ EscSweepStep)

ProgressSpec ==
    /\ ProgressInit /\ [][ProgressNext]_progressVars
    /\ FairDelivery /\ FairInvoices /\ FairFees /\ FairNotices /\ FairEscrow

-----------------------------------------------------------------------------
(* Values of the constants.                                                *)

Line(quantity, price, rate) == [quantity |-> quantity, unitPrice |-> price, taxRate |-> rate]

(* Both roundings matter, neither does, and two lines that round apart. *)
ThreeLineLists == {<<Line(15, 3, 5)>>, <<Line(4, 1, 0)>>, <<Line(5, 1, 0), Line(9, 1, 19)>>}

Payment(merchant, ref, currency) == [merchant |-> merchant, ref |-> ref, currency |-> currency]
FourPayments ==
    { Payment(m1, "a", "kes"), Payment(m1, "b", "kes"), Payment(m1, "c", "usd"), Payment(m2, "a", "kes") }

(* One notice with a template and a contact, one with neither. *)
TwoNotices ==
    { [id |-> 1, kind |-> "paylink.verified", user |-> TRUE, addr |-> TRUE, contacts |-> {"sms"}],
      [id |-> 2, kind |-> "paylink.created", user |-> TRUE, addr |-> TRUE, contacts |-> {}] }
Patch(column, key, on) == [column |-> column, key |-> key, on |-> on]
FourPatches ==
    { Patch("channels", "sms", FALSE), Patch("channels", "sms", TRUE),
      Patch("channels", "in_app", FALSE), Patch("events", "paylink.verified", FALSE) }
=============================================================================
