--------------------------- MODULE InvoiceService ---------------------------
(***************************************************************************)
(* invoice-subscription: an invoice is drafted, finalized into a PayLink,   *)
(* paid when the chain verifies the PayLink, swept to OVERDUE or voided.    *)
(* Every handler reads the row, decides, and writes its columns back by     *)
(* primary key: the read and the write are separate steps here.             *)
(*                                                                          *)
(* paylink-service is what MintContract says of it.  Idempotency-Keys only  *)
(* keep some requests of merchants from running, so they are left out.      *)
(***************************************************************************)
EXTENDS Integers, Sequences, FiniteSets, SequencesExt, TLC, Money

CONSTANTS
    Invoices,
    LineLists,        \* the lines an invoice may be created with
    Scale,            \* 10^4 in the code: the denominator of quantities and rates
    InvWorkers,       \* merchant requests in progress at a time
    NoPl,
    MaxInvRequests,   \* bound on merchant requests
    MaxInvTroubles    \* bound on failed calls and on consumer trouble

ASSUME InvoiceServiceAssumption ==
    /\ Scale \in Nat \ {0}
    /\ \A ls \in LineLists : ls # <<>>
    /\ {MaxInvRequests, MaxInvTroubles} \subseteq Nat

VARIABLES
    invRow,       \* the invoices table
    invLines,     \* the invoice_lines table
    invReq,       \* finalize or void in progress, per worker
    sweeping,     \* rows that the sweeper has read
    invMint, invAnswered,   \* paylink-service, as MintContract describes it
    chainMsgs,    \* messages of the chain topic not yet handled, in order
    paying,       \* the message whose invoice the consumer has read
    verified,     \* PayLinks that the chain has verified
    pastDue,      \* invoices whose due_at has passed
    paidEvents,   \* invoice.paid events emitted, per invoice
    missed,       \* history: verified messages that changed nothing
    overtaken,    \* history: invoices written by someone who read before a payment
    invRequests, invTroubles

invTables == <<invRow, invLines, paidEvents>>
invWorld == <<invMint, invAnswered, chainMsgs, verified, pastDue>>
invoiceVars == <<invTables, invReq, sweeping, invWorld, paying, missed, overtaken,
                 invRequests, invTroubles>>

InvoiceStatus == {"DRAFT", "OPEN", "PAID", "VOID", "OVERDUE"}

PlOf == Invoices \X {1, 2}
Mint == INSTANCE MintContract WITH PlIds <- PlOf, minted <- invMint, answered <- invAnswered

(* InvoiceRow: the columns that decide anything. *)
NoInvoice == [status |-> "absent", pl |-> NoPl, paidAt |-> FALSE, total |-> 0]
InvoiceRows == [status : InvoiceStatus, pl : PlOf \cup {NoPl}, paidAt : BOOLEAN, total : Nat]

InvFree == [op |-> "none"]
InvTrouble == invTroubles < MaxInvTroubles /\ invTroubles' = invTroubles + 1

-----------------------------------------------------------------------------
(* compute_totals.  Quantities and tax rates are in units of 1/Scale.       *)

LineTotal(l) == RoundHalfUp(l.quantity * l.unitPrice, Scale)
LineTax(l) == RoundHalfUp(LineTotal(l) * l.taxRate, Scale)
ComputeTotal(ls) == FoldLeft(LAMBDA sum, l : sum + LineTotal(l) + LineTax(l), 0, ls)

-----------------------------------------------------------------------------
(* Merchant requests.                                                      *)

(* InvoiceService.create: a draft with the totals of its lines. *)
NewInvoice(ls) == [status |-> "DRAFT", pl |-> NoPl, paidAt |-> FALSE, total |-> ComputeTotal(ls)]

CreateInvoice(i, ls) ==
    /\ invRow[i] = NoInvoice /\ i \notin pastDue
    /\ invRow' = [invRow EXCEPT ![i] = NewInvoice(ls)]
    /\ invLines' = [invLines EXCEPT ![i] = ls]
    /\ UNCHANGED <<paidEvents, invReq, sweeping, invWorld, paying, missed, overtaken,
                   invRequests, invTroubles>>

(* Mutant: a PAID invoice can be voided. *)
VoidableAlways(s) == s # "VOID"

Voidable(s) == s \notin {"PAID", "VOID"}

(* Mutant: every attempt has a key of its own. *)
AttemptKey(i) == IF invMint[<<i, 1>>] = "absent" THEN <<i, 1>> ELSE <<i, 2>>

(* The Idempotency-Key f"invoice-{id}" and the body name the PayLink. *)
FinalizeKey(i) == <<i, 1>>

(* A request reads the row and passes the check of its status. *)
BeginInvRequest(w, i, request) ==
    /\ invReq[w] = InvFree
    /\ invRequests < MaxInvRequests /\ invRequests' = invRequests + 1
    /\ invRow[i] # NoInvoice
    /\ invReq' = [invReq EXCEPT ![w] = request @@ [inv |-> i, seen |-> invRow[i].status]]
    /\ UNCHANGED <<invTables, sweeping, invWorld, paying, missed, overtaken, invTroubles>>

BeginFinalize(w, i) ==
    /\ invRow[i].status = "DRAFT"
    /\ BeginInvRequest(w, i, [op |-> "finalize", stage |-> "mint", pl |-> FinalizeKey(i)])

BeginVoid(w, i) ==
    /\ Voidable(invRow[i].status)
    /\ BeginInvRequest(w, i, [op |-> "void", stage |-> "write", pl |-> NoPl])

Minting(w) == invReq[w].op = "finalize" /\ invReq[w].stage = "mint"

(* paylink-service at work on a request of finalize.  It refuses an amount  *)
(* of zero and an expiry in the past before it does anything.               *)
PaylinkServiceStep(w) ==
    /\ Minting(w)
    /\ LET i == invReq[w].inv
           p == invReq[w].pl
       IN  \/ invRow[i].total > 0 /\ i \notin pastDue /\ Mint!InsertMint(p) /\ UNCHANGED chainMsgs
           \/ Mint!RecordMint(p) /\ chainMsgs' = Append(chainMsgs, <<p, "created">>)
    /\ UNCHANGED <<invTables, invReq, sweeping, verified, pastDue, paying, missed, overtaken,
                   invRequests, invTroubles>>

(* Its request dies with the row inserted and no transaction recorded. *)
PaylinkServiceFails(p) ==
    /\ Mint!AbandonMints({p})
    /\ InvTrouble
    /\ UNCHANGED <<invTables, invReq, sweeping, chainMsgs, verified, pastDue, paying, missed,
                   overtaken, invRequests>>

(* PaylinkClient.create returns: 201, or a PaylinkError that ends finalize. *)
PaylinkAnswers(w) ==
    /\ Minting(w)
    /\ \/ /\ Mint!AnswerMint(invReq[w].pl)
          /\ invReq' = [invReq EXCEPT ![w].stage = "write"]
          /\ UNCHANGED invTroubles
       \/ /\ IF invMint[invReq[w].pl] \in {"stub", "absent"}
             THEN UNCHANGED invTroubles ELSE InvTrouble
          /\ invReq' = [invReq EXCEPT ![w] = InvFree]
          /\ UNCHANGED <<invMint, invAnswered>>
    /\ UNCHANGED <<invTables, sweeping, chainMsgs, verified, pastDue, paying, missed, overtaken,
                   invRequests>>

(* Who writes an invoice after a payment that it had not seen. *)
Overtakes(I) == overtaken' = overtaken \cup {i \in I : invRow[i].paidAt}

(* The columns are set by primary key, whatever the row has become. *)
WriteInvoice(w, op, row) ==
    /\ invReq[w].op = op /\ invReq[w].stage = "write"
    /\ invRow' = [invRow EXCEPT ![invReq[w].inv] = row]
    /\ Overtakes({invReq[w].inv})
    /\ invReq' = [invReq EXCEPT ![w] = InvFree]
    /\ UNCHANGED <<invLines, paidEvents, sweeping, invWorld, paying, missed, invRequests, invTroubles>>

WriteFinalized(w) ==
    WriteInvoice(w, "finalize", [invRow[invReq[w].inv] EXCEPT !.pl = invReq[w].pl, !.status = "OPEN"])

WriteVoided(w) ==
    WriteInvoice(w, "void", [invRow[invReq[w].inv] EXCEPT !.status = "VOID"])

-----------------------------------------------------------------------------
(* The sweeper.                                                            *)

DuePasses(i) ==
    /\ i \notin pastDue
    /\ pastDue' = pastDue \cup {i}
    /\ UNCHANGED <<invTables, invReq, sweeping, invMint, invAnswered, chainMsgs, verified, paying,
                   missed, overtaken, invRequests, invTroubles>>

(* effective_status: what a read shows. *)
EffectiveStatus(i) ==
    IF invRow[i].status = "OPEN" /\ i \in pastDue THEN "OVERDUE" ELSE invRow[i].status

(* Mutant: the query misses invoices whose due date has passed. *)
NotYetDue == {i \in Invoices : invRow[i].status = "OPEN" /\ i \notin pastDue}

(* find_overdue. *)
FindOverdue == {i \in Invoices : invRow[i].status = "OPEN" /\ i \in pastDue}

SweepRead ==
    /\ sweeping = {} /\ FindOverdue # {}
    /\ sweeping' = FindOverdue
    /\ UNCHANGED <<invTables, invReq, invWorld, paying, missed, overtaken, invRequests, invTroubles>>

SweepWrite ==
    /\ sweeping # {}
    /\ invRow' = [i \in Invoices |-> IF i \in sweeping THEN [invRow[i] EXCEPT !.status = "OVERDUE"]
                                     ELSE invRow[i]]
    /\ Overtakes(sweeping)
    /\ sweeping' = {}
    /\ UNCHANGED <<invLines, paidEvents, invReq, invWorld, paying, missed, invRequests, invTroubles>>

-----------------------------------------------------------------------------
(* The chain and the bus consumer.                                         *)

(* A live PayLink is paid and verified on the chain, before its expiry. *)
ChainVerifies(p) ==
    /\ invMint[p] = "live" /\ p \notin verified /\ p[1] \notin pastDue
    /\ verified' = verified \cup {p}
    /\ chainMsgs' = Append(chainMsgs, <<p, "verified">>)
    /\ UNCHANGED <<invTables, invReq, sweeping, invMint, invAnswered, pastDue, paying, missed,
                   overtaken, invRequests, invTroubles>>

(* Mutant: any event about the PayLink pays the invoice. *)
AnyEvent(name) == TRUE

(* InvoiceEventConsumer.handle ignores other events of the topic. *)
IsVerified(name) == name = "verified"

(* Mutant: an invoice that the sweeper has marked is not paid. *)
OpenOnly(s) == s = "OPEN"

(* Mutant: an invoice is paid whatever its status. *)
PayableAlways(s) == TRUE

Payable(s) == s \in {"OPEN", "OVERDUE"}

(* get_by_plid: the invoice that the message's PayLink backs. *)
BackedBy(p) == {i \in Invoices : invRow[i].pl = p}

(* The consumer takes the next message and reads the invoice: it goes on,   *)
(* or has nothing to do.                                                    *)
ReadForPayment ==
    /\ paying = NoPl /\ chainMsgs # <<>>
    /\ LET p == Head(chainMsgs)[1]
           name == Head(chainMsgs)[2]
           unknown == \A i \in BackedBy(p) : invRow[i].status = "VOID"
       IN  /\ paying' = IF IsVerified(name) /\ \E i \in BackedBy(p) : Payable(invRow[i].status)
                        THEN p ELSE NoPl
           /\ missed' = IF name = "verified" /\ unknown THEN missed \cup {p} ELSE missed
    /\ chainMsgs' = Tail(chainMsgs)
    /\ UNCHANGED <<invTables, invReq, sweeping, invMint, invAnswered, verified, pastDue, overtaken,
                   invRequests, invTroubles>>

(* mark_paid_by_plid writes PAID with its event. *)
WritePaid ==
    /\ paying # NoPl
    /\ invRow' = [i \in Invoices |-> IF i \in BackedBy(paying)
                                     THEN [invRow[i] EXCEPT !.status = "PAID", !.paidAt = TRUE]
                                     ELSE invRow[i]]
    /\ paidEvents' = [i \in Invoices |-> paidEvents[i] + (IF i \in BackedBy(paying) THEN 1 ELSE 0)]
    /\ paying' = NoPl
    /\ UNCHANGED <<invLines, invReq, sweeping, invWorld, missed, overtaken, invRequests, invTroubles>>

(* The handler raises or its process dies: the batch is dropped, or the     *)
(* marker outlives the effect (EventDelivery).                              *)
PaymentHandlerFails ==
    /\ paying # NoPl
    /\ InvTrouble
    /\ missed' = missed \cup {paying}
    /\ paying' = NoPl
    /\ UNCHANGED <<invTables, invReq, sweeping, invWorld, overtaken, invRequests>>

(* The offset was not committed and the marker is gone. *)
Redelivered(p) ==
    /\ p \in verified
    /\ InvTrouble
    /\ chainMsgs' = Append(chainMsgs, <<p, "verified">>)
    /\ UNCHANGED <<invTables, invReq, sweeping, invMint, invAnswered, verified, pastDue, paying,
                   missed, overtaken, invRequests>>

-----------------------------------------------------------------------------
InvoiceInit ==
    /\ invRow = [i \in Invoices |-> NoInvoice]
    /\ invLines = [i \in Invoices |-> <<>>]
    /\ invReq = [w \in InvWorkers |-> InvFree]
    /\ sweeping = {}
    /\ Mint!MintInit
    /\ chainMsgs = <<>> /\ paying = NoPl /\ verified = {} /\ pastDue = {}
    /\ paidEvents = [i \in Invoices |-> 0]
    /\ missed = {} /\ overtaken = {}
    /\ invRequests = 0 /\ invTroubles = 0

ServeInvRequest ==
    \E w \in InvWorkers : PaylinkServiceStep(w) \/ PaylinkAnswers(w) \/ WriteFinalized(w) \/ WriteVoided(w)
SweepStep == SweepRead \/ SweepWrite
PayStep == ReadForPayment \/ WritePaid

InvoiceNext ==
    \/ \E i \in Invoices, ls \in LineLists : CreateInvoice(i, ls)
    \/ \E w \in InvWorkers, i \in Invoices : BeginFinalize(w, i) \/ BeginVoid(w, i)
    \/ ServeInvRequest
    \/ \E p \in PlOf : PaylinkServiceFails(p) \/ ChainVerifies(p) \/ Redelivered(p)
    \/ \E i \in Invoices : DuePasses(i)
    \/ SweepStep
    \/ PayStep
    \/ PaymentHandlerFails

InvoiceSpec == InvoiceInit /\ [][InvoiceNext]_invoiceVars

-----------------------------------------------------------------------------
(* Properties.                                                             *)

Abs(n) == IF n < 0 THEN -n ELSE n

(* Rows and requests keep their shape, and the stored total of an invoice   *)
(* is the exact amount of its lines up to compute_totals' two roundings per *)
(* line, half a minor unit each, the first of them taxed.                   *)
InvoiceTypeOK ==
    \A i \in Invoices :
        \/ invRow[i] = NoInvoice
        \/ /\ invRow[i] \in InvoiceRows
           /\ LET exact == FoldLeft(LAMBDA sum, l : sum + l.quantity * l.unitPrice * (Scale + l.taxRate),
                                    0, invLines[i])
                  slack == FoldLeft(LAMBDA sum, l : sum + Scale * (2 * Scale + l.taxRate), 0, invLines[i])
              IN  2 * Abs(invRow[i].total * Scale * Scale - exact) <= slack

(* An invoice is shown as paid only when the chain verified the PayLink     *)
(* that backs it.                                                           *)
PaidOnlyIfVerified ==
    \A i \in Invoices : invRow[i].status = "PAID" \/ invRow[i].paidAt => invRow[i].pl \in verified

(* "A retried finalize re-uses the same PayLink": an invoice never has two  *)
(* payable PayLinks, however often finalize fails, is repeated or runs      *)
(* twice at a time.                                                         *)
OnePayLinkPerInvoice ==
    \A i \in Invoices : Cardinality({p \in {i} \X {1, 2} : invMint[p] = "live"}) <= 1

(* A payment that was recorded is hidden again only by a void, a finalize   *)
(* or a sweep that had read the invoice before the payment.                 *)
PaymentHiddenOnlyByStaleWrite ==
    [][\A i \in Invoices :
          invRow[i].status = "PAID" /\ invRow'[i].status # "PAID" =>
              \/ i \in sweeping
              \/ \E w \in InvWorkers : /\ invReq[w] # InvFree /\ invReq'[w] = InvFree
                                       /\ invReq[w].inv = i /\ invReq[w].seen # "PAID"]_invoiceVars

(* mark_paid_by_plid: "a redelivery for an already-PAID invoice is a no-op  *)
(* (no double emit)": invoice.paid is emitted once per invoice, unless a    *)
(* stale write had hidden the payment in between.                           *)
PaidAnnouncedOnce == \A i \in Invoices : paidEvents[i] > 1 => i \in overtaken

(* A verified PayLink pays its invoice, unless its message came when the    *)
(* invoice did not carry the PayLink yet or was void, or its handler died.  *)
VerifiedGetsPaid ==
    \A i \in Invoices : FinalizeKey(i) \in verified ~> (invRow[i].paidAt \/ FinalizeKey(i) \in missed)

(* effective_status: "the sweeper is what eventually persists the           *)
(* transition": an invoice that reads as OVERDUE does not stay OPEN.        *)
OverduePersisted ==
    \A i \in Invoices : EffectiveStatus(i) = "OVERDUE" ~> invRow[i].status # "OPEN"

(* An invoice has the total of its lines, one payable PayLink and one       *)
(* announcement of its payment, is shown as paid only if the chain verified *)
(* that PayLink, and stays paid but for a write that had read it before.    *)
InvoicesSound ==
    /\ [](InvoiceTypeOK /\ PaidOnlyIfVerified /\ OnePayLinkPerInvoice /\ PaidAnnouncedOnce)
    /\ PaymentHiddenOnlyByStaleWrite

(* What happened to an invoice is recorded in the end: a payment by the     *)
(* consumer of paylink.verified, unless its message came too early, and an  *)
(* overdue date by the sweeper.                                             *)
InvoicesSettle ==
    VerifiedGetsPaid /\ OverduePersisted
=============================================================================
