---------------------------- MODULE PlatformFees ----------------------------
(***************************************************************************)
(* Platform-fee invoicing in fee-pricing-service: realized fees accrue,     *)
(* and a generation run bills the accruals of a period.  The sweeper runs   *)
(* generation for the current period at every tick, operators run it for    *)
(* any period; the runs are transactions that overlap.                      *)
(***************************************************************************)
EXTENDS Integers, Sequences, FiniteSets, FiniteSetsExt, TLC

CONSTANTS
    Merchants,
    Payments,         \* payments that a fee is charged for: merchant, ref, currency
    LastPeriod,       \* billing periods are 1..LastPeriod
    Sweeper, Operators,   \* who runs generation
    MaxAccruals,      \* bound on accruals
    MaxRuns,          \* bound on runs of operators
    MaxFeeTroubles    \* bound on transactions that fail

ASSUME PlatformFeesAssumption ==
    /\ \A pay \in Payments : pay.merchant \in Merchants
    /\ Sweeper \notin Operators
    /\ LastPeriod \in Nat \ {0} 
    /\ {MaxAccruals, MaxRuns, MaxFeeTroubles} \subseteq Nat

VARIABLES
    accruals,       \* platform_fee_accruals, by id
    feeInvoices,    \* platform_fee_invoices
    feeRun,         \* the generation run of each actor
    period,         \* the current period
    feeRuns, feeTroubles

feeVars == <<accruals, feeInvoices, feeRun, period, feeRuns, feeTroubles>>

Actors == {Sweeper} \cup Operators
NoRun == [stage |-> "none"]

(* Amounts only need to be told apart by their sums. *)
AmountOf(id) == 2 ^ id

-----------------------------------------------------------------------------
(* record_accrual.                                                         *)

(* Mutant: the unique key is not enforced. *)
NoAccrualKey(pay) == TRUE

(* on_conflict_do_nothing on (merchant_id, source_ref). *)
AccrualKeyFree(pay) ==
    \A id \in DOMAIN accruals : ~ (accruals[id].merchant = pay.merchant /\ accruals[id].ref = pay.ref)

AccrualOf(pay, p) == pay @@ [period |-> p, invoice |-> <<>>]

(* period_of: an accrual may name a time of an earlier period. *)
RecordAccrual(pay, p) ==
    /\ p <= period
    /\ Len(accruals) < MaxAccruals
    /\ AccrualKeyFree(pay)
    /\ accruals' = Append(accruals, AccrualOf(pay, p))
    /\ UNCHANGED <<feeInvoices, feeRun, period, feeRuns, feeTroubles>>

-----------------------------------------------------------------------------
(* generate_for_period.                                                    *)

(* unbilled_accruals of a period, of one merchant or of all. *)
Unbilled(p, M) ==
    {id \in DOMAIN accruals :
        accruals[id].period = p /\ accruals[id].merchant \in M /\ accruals[id].invoice = <<>>}

BeginRun(a, p, M) ==
    /\ feeRun[a] = NoRun
    /\ Unbilled(p, M) # {}
    /\ feeRun' = [feeRun EXCEPT ![a] = [stage |-> "check", period |-> p, rows |-> Unbilled(p, M)]]

(* Mutant: the period is taken when the sweeper starts, not at each tick. *)
SweepFirstPeriod ==
    /\ BeginRun(Sweeper, 1, Merchants)
    /\ UNCHANGED <<accruals, feeInvoices, period, feeRuns, feeTroubles>>

(* _run_once of the sweeper; a tick that finds nothing changes nothing. *)
SweepPeriod ==
    /\ BeginRun(Sweeper, period, Merchants)
    /\ UNCHANGED <<accruals, feeInvoices, period, feeRuns, feeTroubles>>

(* POST /v1/internal/invoices/platform-fee/run. *)
OperatorRuns(a, p, M) ==
    /\ p <= period
    /\ feeRuns < MaxRuns /\ feeRuns' = feeRuns + 1
    /\ BeginRun(a, p, M)
    /\ UNCHANGED <<accruals, feeInvoices, period, feeTroubles>>

HasInvoice(m, p) == \E i \in feeInvoices : i.merchant = m /\ i.period = p

(* Mutant: the accruals of all currencies go on one invoice. *)
AnyCurrency(rows, id) == {i \in rows : accruals[i].merchant = accruals[id].merchant}

(* The group of an accrual among the rows of a run: same merchant and       *)
(* currency.                                                                *)
GroupOf(rows, id) ==
    {i \in rows : accruals[i].merchant = accruals[id].merchant /\ accruals[i].currency = accruals[id].currency}

(* get_invoice_for_period finds nothing. *)
NotBilled(m, p) == ~ HasInvoice(m, p)

(* The groups of a run that get an invoice: of each merchant the group that *)
(* comes first, if the merchant has no invoice of the period.               *)
BilledGroups(rows, p) ==
    {GroupOf(rows, Min({i \in rows : accruals[i].merchant = m})) :
        m \in {n \in {accruals[i].merchant : i \in rows} : NotBilled(n, p)}}

CheckGroups(a) ==
    /\ feeRun[a].stage = "check"
    /\ feeRun' = [feeRun EXCEPT ![a] = [stage |-> "commit", period |-> feeRun[a].period,
                                        groups |-> BilledGroups(feeRun[a].rows, feeRun[a].period)]]
    /\ UNCHANGED <<accruals, feeInvoices, period, feeRuns, feeTroubles>>

InvoiceOf(group, p) ==
    LET first == accruals[Min(group)]
    IN  [id |-> Cardinality(feeInvoices) + 1, merchant |-> first.merchant, period |-> p, currency |-> first.currency,
         total |-> MapThenSumSet(AmountOf, group), lines |-> Cardinality(group)]

(* Mutant: the unique key of the table is missing. *)
NoInvoiceKey(new) == TRUE

(* uq_invoice_merchant_period: against rows that were committed meanwhile. *)
InvoiceKeyFree(new) == \A i \in new : ~ HasInvoice(i.merchant, i.period)

(* The inserts, mark_accruals_invoiced and the commit of the run.  A        *)
(* conflict on the unique key rolls the whole run back.                     *)
CommitRun(a) ==
    /\ feeRun[a].stage = "commit"
    /\ LET p == feeRun[a].period
           new == {InvoiceOf(g, p) : g \in feeRun[a].groups}
           marked(id) == {InvoiceOf(g, p) : g \in {h \in feeRun[a].groups : id \in h}}
       IN  IF InvoiceKeyFree(new)
           THEN /\ feeInvoices' = feeInvoices \cup new
                /\ accruals' = [id \in DOMAIN accruals |->
                                   IF marked(id) = {} THEN accruals[id]
                                   ELSE [accruals[id] EXCEPT !.invoice = <<CHOOSE i \in marked(id) : TRUE>>]]
           ELSE UNCHANGED <<accruals, feeInvoices>>
    /\ feeRun' = [feeRun EXCEPT ![a] = NoRun]
    /\ UNCHANGED <<period, feeRuns, feeTroubles>>

(* The connection is lost or the process dies before the commit. *)
RunFails(a) ==
    /\ feeRun[a] # NoRun
    /\ feeTroubles < MaxFeeTroubles /\ feeTroubles' = feeTroubles + 1
    /\ feeRun' = [feeRun EXCEPT ![a] = NoRun]
    /\ UNCHANGED <<accruals, feeInvoices, period, feeRuns>>

MonthEnds ==
    /\ period < LastPeriod
    /\ period' = period + 1
    /\ UNCHANGED <<accruals, feeInvoices, feeRun, feeRuns, feeTroubles>>

-----------------------------------------------------------------------------
FeeInit ==
    /\ accruals = <<>>
    /\ feeInvoices = {}
    /\ feeRun = [a \in Actors |-> NoRun]
    /\ period = 1
    /\ feeRuns = 0 /\ feeTroubles = 0

SweeperStep == SweepPeriod \/ CheckGroups(Sweeper) \/ CommitRun(Sweeper)

FeeNext ==
    \/ \E pay \in Payments, p \in 1..LastPeriod : RecordAccrual(pay, p)
    \/ SweeperStep
    \/ \E a \in Operators, p \in 1..LastPeriod, M \in {Merchants} \cup {{m} : m \in Merchants} :
          OperatorRuns(a, p, M)
    \/ \E a \in Operators : CheckGroups(a) \/ CommitRun(a)
    \/ \E a \in Actors : RunFails(a)
    \/ MonthEnds

FeeSpec == FeeInit /\ [][FeeNext]_feeVars

-----------------------------------------------------------------------------
(* Properties.                                                             *)

(* A payment is charged once (uq_accrual_source), however often its accrual *)
(* is reported, and an accrual is marked only with an invoice that exists.  *)
FeeTypeOK ==
    /\ \A id, o \in DOMAIN accruals :
          accruals[id].merchant = accruals[o].merchant /\ accruals[id].ref = accruals[o].ref => id = o
    /\ \A id \in DOMAIN accruals : accruals[id].invoice # <<>> => accruals[id].invoice[1] \in feeInvoices

AccrualsOn(i) == {id \in DOMAIN accruals : accruals[id].invoice = <<i>>}

(* An invoice charges exactly the accruals that are marked with it, all in  *)
(* its currency, its period and of its merchant: however runs overlap, fail *)
(* or are repeated, no fee is charged twice and no mark is without charge.  *)
InvoicesMatchAccruals ==
    \A i \in feeInvoices :
        /\ i.total = MapThenSumSet(AmountOf, AccrualsOn(i))
        /\ i.lines = Cardinality(AccrualsOn(i))
        /\ \A id \in AccrualsOn(i) :
              /\ accruals[id].merchant = i.merchant
              /\ accruals[id].period = i.period /\ accruals[id].currency = i.currency

(* "One invoice per merchant per period", also when two runs have passed    *)
(* the check before either of them commits.                                 *)
OneInvoicePerPeriod ==
    \A i, j \in feeInvoices : i.merchant = j.merchant /\ i.period = j.period => i = j

TakenUp(id) ==
    id \in DOMAIN accruals =>
        HasInvoice(accruals[id].merchant, accruals[id].period) \/ period > accruals[id].period

(* A fee accrued in the current period is billed by the sweeper before the  *)
(* month ends, unless its merchant has an invoice of the period: that one   *)
(* does not take up later fees, or fees in another currency.                *)
AccruedIsBilled ==
    \A id \in 1..MaxAccruals :
        (id \in DOMAIN accruals /\ accruals[id].period = period) ~> TakenUp(id)

(* "Monthly generation rolls a period's unbilled accruals into one invoice  *)
(* per merchant" (invoicing_service): once a merchant has the invoice of a  *)
(* period that is over, none of its accruals of the period is unbilled.     *)
PeriodFullyBilled ==
    \A id \in DOMAIN accruals :
        accruals[id].invoice = <<>> => ~ HasInvoice(accruals[id].merchant, accruals[id].period)

(* Fees are billed once and in the end: one accrual per payment, one        *)
(* invoice per merchant and period that charges exactly its accruals, and   *)
(* no accrual is left to the end of its month unless the invoice of the     *)
(* period came before it.                                                   *)
FeesBilledOnce ==
    /\ [](FeeTypeOK /\ OneInvoicePerPeriod /\ InvoicesMatchAccruals)
    /\ AccruedIsBilled
=============================================================================
