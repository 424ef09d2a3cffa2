------------------------- MODULE MerchantOnboarding -------------------------
(***************************************************************************)
(* merchant-onboarding for one organization: onboarding, bank accounts,     *)
(* contracts, documents, the fee tier, and decide, which the review         *)
(* endpoint and the bus consumer share.  A handler reads the merchant row,  *)
(* checks, and later writes the columns whose value differs from what it    *)
(* read; nothing locks the row.                                             *)
(***************************************************************************)
EXTENDS Integers, FiniteSets, Sequences

CONSTANTS
    BankAccounts,      \* accounts that may be linked
    Documents,         \* documents that may be uploaded
    FeeTiers, StandardTier,
    RequireBank, RequireContract,  \* the two activation settings
    MerchantWorkers,   \* handlers in progress at a time
    NoMerchant,
    MaxMerchantCalls, MaxMerchantTroubles

MerchantStatus == {"DRAFT", "PENDING_VERIFICATION", "ACTIVE", "REJECTED", "SUSPENDED"}

MerchantRow == [status : MerchantStatus, tier : FeeTiers, onboarded : BOOLEAN, suspended : BOOLEAN]

ASSUME MerchantOnboardingAssumption ==
    /\ StandardTier \in FeeTiers /\ NoMerchant \notin FeeTiers \cup MerchantRow
    /\ {RequireBank, RequireContract} \subseteq BOOLEAN
    /\ {MaxMerchantCalls, MaxMerchantTroubles} \subseteq Nat

VARIABLES
    merchant,      \* the merchants row, or NoMerchant
    accounts,      \* status of each bank account
    contracts,     \* accepted contracts exist
    objects,       \* documents in the object store
    documentRows,  \* documents in the table
    merReq,        \* handlers in progress
    lastStatus,    \* the last status that an outbox event announced
    lastTier,      \* the last fee tier that an outbox event announced
    staleStatus,   \* history: decide wrote over a row it had not read
    staleFeeTier,  \* history: set_fee_tier wrote over a row it had not read
    merCalls, merTroubles

merTables == <<merchant, accounts, contracts, objects, documentRows>>
merEvents == <<lastStatus, lastTier>>
merHistory == <<staleStatus, staleFeeTier>>
merchantVars == <<merTables, merReq, merEvents, merHistory, merCalls, merTroubles>>

(* Decisions, by the review endpoint or by the name of an event             *)
(* (_DECISION_BY_EVENT).                                                    *)
ReviewDecision == {"approve", "reject", "suspend", "reinstate"}

(* Mutant: a rejected merchant can be reinstated. *)
RejectedReopens(current, target) ==
    target \in CASE current = "PENDING_VERIFICATION" -> {"ACTIVE", "REJECTED", "SUSPENDED"}
                 [] current = "ACTIVE" -> {"SUSPENDED"}
                 [] OTHER -> {"ACTIVE", "REJECTED"} \ {current}

(* _EDGES. *)
can_transition(current, target) ==
    target \in CASE current = "DRAFT" -> {"PENDING_VERIFICATION"}
                 [] current = "PENDING_VERIFICATION" -> {"ACTIVE", "REJECTED", "SUSPENDED"}
                 [] current = "ACTIVE" -> {"SUSPENDED"}
                 [] current = "SUSPENDED" -> {"ACTIVE", "REJECTED"}
                 [] OTHER -> {}

(* _DECISION_TARGET. *)
target_for(decision) ==
    CASE decision \in {"approve", "reinstate"} -> "ACTIVE"
      [] decision = "reject" -> "REJECTED"
      [] decision = "suspend" -> "SUSPENDED"

MerFree == [op |-> "none"]

BeginMer(w, request) ==
    /\ merReq[w] = MerFree
    /\ merCalls < MaxMerchantCalls /\ merCalls' = merCalls + 1
    /\ merReq' = [merReq EXCEPT ![w] = request]
    /\ UNCHANGED <<merTables, merEvents, merHistory, merTroubles>>

EndMer(w) == merReq' = [merReq EXCEPT ![w] = MerFree] /\ UNCHANGED <<merCalls, merTroubles>>

-----------------------------------------------------------------------------
(* POST /v1/merchants/onboard: not onboarded when read. *)
BeginOnboard(w) ==
    /\ merchant = NoMerchant
    /\ BeginMer(w, [op |-> "onboard"])

(* org_id is unique. *)
OrgIndexAllows(row) == row = NoMerchant

NewMerchant == [status |-> "PENDING_VERIFICATION", tier |-> StandardTier,
                onboarded |-> FALSE, suspended |-> FALSE]

(* Inserted at PENDING_VERIFICATION, or refused by the index. *)
Onboard(w) ==
    /\ merReq[w].op = "onboard"
    /\ IF OrgIndexAllows(merchant)
       THEN /\ merchant' = NewMerchant
            /\ lastStatus' = NewMerchant.status
            /\ lastTier' = NewMerchant.tier
       ELSE UNCHANGED <<merchant, merEvents>>
    /\ EndMer(w)
    /\ UNCHANGED <<accounts, contracts, objects, documentRows, merHistory>>

-----------------------------------------------------------------------------
BankAccountStatus == {"PENDING_VERIFY", "VERIFIED"}

(* POST /v1/merchants/{id}/bank-accounts: linked, to be verified. *)
LinkedAccount(b) == [accounts EXCEPT ![b] = "PENDING_VERIFY"]

AddBankAccount(b) ==
    /\ merchant # NoMerchant /\ accounts[b] = "none"
    /\ accounts' = LinkedAccount(b)
    /\ UNCHANGED <<merchant, contracts, objects, documentRows, merReq, merEvents, merHistory, merCalls, merTroubles>>

(* POST .../verify: any other status is refused. *)
VerifiedAccount(b) == [accounts EXCEPT ![b] = "VERIFIED"]

VerifyBankAccount(b) ==
    /\ accounts[b] = "PENDING_VERIFY"
    /\ accounts' = VerifiedAccount(b)
    /\ UNCHANGED <<merchant, contracts, objects, documentRows, merReq, merEvents, merHistory, merCalls, merTroubles>>

(* accept_contract; a version that was accepted before adds nothing here. *)
Accepted(signed) == signed \/ merchant # NoMerchant

AcceptContract ==
    /\ contracts' = Accepted(contracts)
    /\ UNCHANGED <<merchant, accounts, objects, documentRows, merReq, merEvents, merHistory, merCalls, merTroubles>>

(* Mutant: the row is inserted first. *)
RowThenObject(stage) == IF stage = "first" THEN "row" ELSE "object"

(* upload_document stores the bytes and then inserts the row. *)
UploadOrder(stage) == IF stage = "first" THEN "object" ELSE "row"

BeginUpload(w, d) ==
    /\ merchant # NoMerchant /\ d \notin objects \cup documentRows
    /\ BeginMer(w, [op |-> "upload", doc |-> d, stage |-> "first"])

PutObject(d) == objects' = objects \cup {d} /\ UNCHANGED documentRows
InsertDocument(d) == documentRows' = documentRows \cup {d} /\ UNCHANGED objects

UploadStep(w) ==
    LET d == merReq[w].doc
        writes == UploadOrder(merReq[w].stage)
    IN  /\ merReq[w].op = "upload"
        /\ IF writes = "object" THEN PutObject(d) ELSE InsertDocument(d)
        /\ merReq' = [merReq EXCEPT ![w] = IF @.stage = "first" THEN [@ EXCEPT !.stage = "second"] ELSE MerFree]
        /\ UNCHANGED <<merchant, accounts, contracts, merEvents, merHistory, merCalls, merTroubles>>

(* A handler fails before its commit: only an object may be left behind. *)
MerHandlerFails(w) ==
    /\ merReq[w] # MerFree
    /\ merTroubles < MaxMerchantTroubles /\ merTroubles' = merTroubles + 1
    /\ merReq' = [merReq EXCEPT ![w] = MerFree]
    /\ UNCHANGED <<merTables, merEvents, merHistory, merCalls>>

-----------------------------------------------------------------------------
(* Mutant: the contract is not asked for. *)
BankOnly(bank, contract) == RequireBank => bank

(* _assert_activation_preconditions. *)
MayActivate(bank, contract) == (RequireBank => bank) /\ (RequireContract => contract)

VerifiedBank == \E b \in BankAccounts : accounts[b] = "VERIFIED"

(* decide, called by POST /internal/merchants/{id}/decision and for events  *)
(* compliance.kyb.* and admin.override.*: a refusal raises and ends it.     *)
BeginDecide(w, decision) ==
    /\ merchant # NoMerchant
    /\ can_transition(merchant.status, target_for(decision))
    /\ target_for(decision) = "ACTIVE" => MayActivate(VerifiedBank, contracts)
    /\ BeginMer(w, [op |-> "decide", target |-> target_for(decision), seen |-> merchant])

(* Mutant: activation leaves suspended_at alone. *)
SuspensionKept(seen, target) == IF target = "SUSPENDED" THEN TRUE ELSE seen.suspended

SuspendedAfter(seen, target) == CASE target = "SUSPENDED" -> TRUE
                                  [] target = "ACTIVE" -> FALSE
                                  [] OTHER -> seen.suspended

(* A column is written where it differs from what was read. *)
Written(seen, new, current) == IF new = seen THEN current ELSE new

WriteDecision(w) ==
    LET seen == merReq[w].seen
        target == merReq[w].target
    IN  /\ merReq[w].op = "decide"
        /\ merchant' = [merchant EXCEPT
               !.status = Written(seen.status, target, @),
               !.onboarded = Written(seen.onboarded, seen.onboarded \/ target = "ACTIVE", @),
               !.suspended = Written(seen.suspended, SuspendedAfter(seen, target), @)]
        /\ lastStatus' = target
        /\ staleStatus' = (staleStatus \/ seen.status # merchant.status)
        /\ EndMer(w)
        /\ UNCHANGED <<accounts, contracts, objects, documentRows, lastTier, staleFeeTier>>

-----------------------------------------------------------------------------
(* PATCH /v1/merchants/{id}/fee-tier. *)
BeginSetFeeTier(w, t) ==
    /\ merchant # NoMerchant
    /\ BeginMer(w, [op |-> "tier", tier |-> t, seen |-> merchant.tier])

(* Mutant: the event is written, the column is not. *)
EventOnly(seen, new, current) == current

FeeTierWritten(seen, new, current) == Written(seen, new, current)

SetFeeTier(w) ==
    /\ merReq[w].op = "tier"
    /\ merchant' = [merchant EXCEPT !.tier = FeeTierWritten(merReq[w].seen, merReq[w].tier, @)]
    /\ lastTier' = merReq[w].tier
    /\ staleFeeTier' = (staleFeeTier \/ merReq[w].seen # merchant.tier)
    /\ EndMer(w)
    /\ UNCHANGED <<accounts, contracts, objects, documentRows, lastStatus, staleStatus>>

-----------------------------------------------------------------------------
MerchantInit ==
    /\ merchant = NoMerchant
    /\ accounts = [b \in BankAccounts |-> "none"] /\ contracts = FALSE
    /\ objects = {} /\ documentRows = {}
    /\ merReq = [w \in MerchantWorkers |-> MerFree]
    /\ lastStatus = "none" /\ lastTier = NoMerchant
    /\ staleStatus = FALSE /\ staleFeeTier = FALSE
    /\ merCalls = 0 /\ merTroubles = 0

MerchantNext ==
    \/ \E w \in MerchantWorkers :
           \/ BeginOnboard(w) \/ Onboard(w)
           \/ \E d \in Documents : BeginUpload(w, d)
           \/ UploadStep(w) \/ MerHandlerFails(w)
           \/ \E decision \in ReviewDecision : BeginDecide(w, decision)
           \/ WriteDecision(w)
           \/ \E t \in FeeTiers : BeginSetFeeTier(w, t)
           \/ SetFeeTier(w)
    \/ \E b \in BankAccounts : AddBankAccount(b) \/ VerifyBankAccount(b)
    \/ AcceptContract

MerchantSpec == MerchantInit /\ [][MerchantNext]_merchantVars

-----------------------------------------------------------------------------
(* Properties.                                                             *)

(* A row of the documents table always finds its bytes, and the last status *)
(* that an event announced is the status of the row.                        *)
MerchantTypeOK ==
    /\ merchant # NoMerchant =>
           merchant.status \in MerchantStatus \ {"DRAFT"} /\ merchant.status = lastStatus
    /\ \A b \in BankAccounts : accounts[b] \in BankAccountStatus \cup {"none"}
    /\ documentRows \subseteq objects

(* "Activation to ACTIVE enforces the (env-gated) verified-bank +           *)
(* accepted-contract preconditions": an active merchant has both, by        *)
(* whichever decision and overlap it became active.                         *)
ActiveHasPreconditions ==
    merchant # NoMerchant /\ merchant.status = "ACTIVE" =>
        (RequireBank => VerifiedBank) /\ (RequireContract => contracts)

(* An active merchant carries no suspension date and a suspended one does,  *)
(* unless a decision wrote over a status it had not read.                   *)
SuspensionConsistent ==
    merchant # NoMerchant /\ ~ staleStatus =>
        /\ merchant.status = "ACTIVE" => merchant.onboarded /\ ~ merchant.suspended
        /\ merchant.status = "SUSPENDED" => merchant.suspended

(* The fee tier that merchant.fee_tier.changed last announced, which        *)
(* fee-pricing keeps, is the tier of the row, unless two changes overlapped:*)
(* a handler that sets the value it read writes no column, but announces it.*)
FeeTierAnnounced == merchant # NoMerchant /\ ~ staleFeeTier => lastTier = merchant.tier

(* "REJECTED is terminal": only a decision that was checked before the      *)
(* rejection takes a merchant out of it, and no second onboarding does.     *)
RejectedIsTerminal ==
    [][merchant # NoMerchant /\ merchant.status = "REJECTED" /\ merchant'.status # "REJECTED" =>
        staleStatus']_merchantVars

(* A merchant is active only with its preconditions, leaves REJECTED never  *)
(* and SUSPENDED cleanly, and its documents and announced fee tier match    *)
(* the rows, up to decisions that overlapped.                               *)
MerchantLifecycle ==
    /\ [](/\ MerchantTypeOK /\ ActiveHasPreconditions
          /\ SuspensionConsistent /\ FeeTierAnnounced)
    /\ RejectedIsTerminal
=============================================================================
