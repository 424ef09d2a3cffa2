--------------------------- MODULE PayLinkService ---------------------------
(***************************************************************************)
(* paylink-service: PayLinks are created, read and cancelled off chain,     *)
(* mirrored to the chain by transactions of one service account, and        *)
(* announced through an outbox.  Requests interleave at every await: each   *)
(* works on the row it read earlier and writes it back unconditionally.     *)
(*                                                                          *)
(* An Idempotency-Key and a body determine the PayLink id.  The chain is    *)
(* what PayLinkPromise says of it, plus a mempool and the account's nonce.  *)
(***************************************************************************)
EXTENDS Integers, Idempotency

CONSTANTS
    Keys,           \* Idempotency-Keys of create requests
    Bodies,         \* bodies that a key may be sent with
    GatedBodies,    \* bodies above amount_kyc_threshold, sent with a user id
    FailOpen,       \* compliance_fail_open
    Workers,        \* requests in progress at a time
    NoWorker,
    NoKey,
    NoSettlement,
    MaxRequests,    \* bound on requests
    MaxMishaps      \* bound on failures, lost answers, restarts and expiries

ASSUME PayLinkServiceAssumption ==
    /\ GatedBodies \subseteq Bodies
    /\ FailOpen \in BOOLEAN
    /\ NoWorker \notin Workers
    /\ Keys \cap (Keys \X Bodies) = {}
    /\ NoSettlement \notin Keys \X Bodies
    /\ MaxRequests \in Nat /\ MaxMishaps \in Nat

VARIABLES
    plRow,        \* the paylinks table
    plEvents,     \* events committed to the paylink_events outbox
    plIdem,       \* idempotency records: of create by key, of cancel by PayLink
    plReq,        \* the request each worker is serving
    nonceLock,    \* the worker inside NonceManager.reserve
    nonceNext,    \* NonceManager._next of the service account
    pool,         \* transactions that the chain accepted and has not executed
    accountNonce, \* committed nonce of the service account
    chainStatus, chainProof,   \* the chain, as PayLinkPromise describes it
    pastExpiry,   \* PayLinks whose expiry has passed
    plAnswered,   \* history: <<key, PayLink>> pairs that were answered with 201
    sentCreates,  \* history: create transactions accepted, per PayLink
    blind,        \* history: the service does not know of a transaction it sent
    requests, mishaps

plTables == <<plRow, plEvents>>
plMemory == <<plIdem, plReq, nonceLock, nonceNext>>
plChain == <<pool, accountNonce, chainStatus, chainProof, pastExpiry>>
plHistory == <<plAnswered, sentCreates, blind>>
payLinkVars == <<plTables, plMemory, plChain, plHistory, requests, mishaps>>

(* new_pl_id: the hash of the request seeded with its Idempotency-Key. *)
PlIdOf(k, b) == <<k, b>>
PlIds == {PlIdOf(k, b) : k \in Keys, b \in Bodies}

Chain == INSTANCE PayLinkPromise WITH
    PayLinkId <- PlIds, Proof <- PlIds, NoProof <- NoSettlement,
    status <- chainStatus, settledBy <- chainProof

OffChainStatus == {"CREATED", "PENDING", "VERIFIED", "FAILED", "CANCELLED", "EXPIRED"}

(* Mutant: a cancelled PayLink is not final. *)
SettledOnly == {"VERIFIED", "FAILED"}

TERMINAL == {"VERIFIED", "FAILED", "CANCELLED"}

(* PayLinkRow: the columns that decide anything. *)
NoRow == [status |-> "absent", submitted |-> FALSE]
PayLinkRows == [status : OffChainStatus, submitted : BOOLEAN]

PlEventKinds == {"requested", "created", "cancelled", "expired"}

Free == [op |-> "none"]

Mishap == mishaps < MaxMishaps /\ mishaps' = mishaps + 1

-----------------------------------------------------------------------------
(* Steps that several handlers share.                                      *)

Serving(w, op, stage) == plReq[w].op = op /\ plReq[w].stage = stage
GoOn(w, stage) == plReq' = [plReq EXCEPT ![w].stage = stage]
Answer(w) == plReq' = [plReq EXCEPT ![w] = Free]

(* add_event and commit: the event is in the same transaction as the row. *)
Emit(p, kind) == plEvents' = plEvents \cup {<<p, kind>>}

(* The exception handlers of the routes: a failed request releases its key. *)
AnswerError(w) ==
    /\ Answer(w)
    /\ IF plReq[w].slot = NoKey
       THEN UNCHANGED plIdem
       ELSE plIdem' = [plIdem EXCEPT ![plReq[w].slot] = ReleasedKey(@)]

(* build_create, build_cancel and sign_tx: the transaction is determined by *)
(* its kind, its PayLink and its nonce, and so is its hash.                 *)
ChainTx(w) == [kind |-> plReq[w].op, pl |-> plReq[w].pl, nonce |-> plReq[w].nonce]

(* Mutant: the local counter is not consulted. *)
ChainNonceOnly == accountNonce

(* NonceManager: the higher of the chain's nonce and the local counter. *)
NextNonce == IF accountNonce > nonceNext THEN accountNonce ELSE nonceNext

(* NonceManager.reserve, up to its yield. *)
Reserve(w) ==
    /\ plReq[w].op \in {"create", "cancel"} /\ plReq[w].stage = "reserve"
    /\ nonceLock = NoWorker
    /\ \/ /\ nonceLock' = w
          /\ plReq' = [plReq EXCEPT ![w].stage = "send", ![w].nonce = NextNonce]
          /\ UNCHANGED <<plIdem, mishaps>>
       \/ Mishap /\ AnswerError(w) /\ UNCHANGED nonceLock      \* get_nonce fails
    /\ UNCHANGED <<plTables, nonceNext, plChain, plHistory, requests>>

(* Mutant: a submission that raised is repeated by the same request. *)
SubmitAgain(w) == GoOn(w, "reserve") /\ UNCHANGED plIdem

(* A submission that raised ends the request. *)
SubmitRaised(w) == AnswerError(w)

(* send_transaction inside reserve: accepted and known to be, refused, or   *)
(* accepted although the answer is lost.  The local counter advances only   *)
(* when the body of the with-block did not raise.                           *)
SubmitTx(w) ==
    /\ plReq[w].op \in {"create", "cancel"} /\ plReq[w].stage = "send"
    /\ nonceLock' = NoWorker
    /\ LET accepted ==
               /\ pool' = pool \cup {ChainTx(w)}
               /\ sentCreates' = IF plReq[w].op = "create"
                                 THEN [sentCreates EXCEPT ![plReq[w].pl] = @ + 1]
                                 ELSE sentCreates
       IN  \/ /\ accepted
              /\ nonceNext' = plReq[w].nonce + 1
              /\ GoOn(w, "write")
              /\ UNCHANGED <<plIdem, blind, mishaps>>
           \/ /\ Mishap
              /\ SubmitRaised(w)
              /\ \/ accepted /\ blind' = TRUE
                 \/ UNCHANGED <<pool, sentCreates, blind>>
              /\ UNCHANGED nonceNext
    /\ UNCHANGED <<plTables, accountNonce, chainStatus, chainProof, pastExpiry, plAnswered, requests>>

-----------------------------------------------------------------------------
(* create_paylink and PayLinkService.create.                               *)

(* The reservation of the key: the request goes on, replays the stored      *)
(* response, or is refused with 409.  A create without a key has an id of   *)
(* its own that no other request names: it is a create with an unused key.  *)
BeginCreate(w, k, b) ==
    /\ plReq[w] = Free
    /\ requests < MaxRequests /\ requests' = requests + 1
    /\ PlIdOf(k, b) \notin pastExpiry
    /\ CASE BeginKey(plIdem[k], b) = "owner" ->
              /\ plIdem' = [plIdem EXCEPT ![k] = PendingKey(b)]
              /\ plReq' = [plReq EXCEPT ![w] = [op |-> "create", stage |-> "insert", slot |-> k,
                                                body |-> b, pl |-> PlIdOf(k, b), nonce |-> 0]]
              /\ UNCHANGED plAnswered
         [] BeginKey(plIdem[k], b) = "replay" ->
              /\ plAnswered' = plAnswered \cup {<<k, plIdem[k].body>>}
              /\ UNCHANGED <<plIdem, plReq>>
         [] OTHER -> UNCHANGED <<plIdem, plReq, plAnswered>>
    /\ UNCHANGED <<plTables, nonceLock, nonceNext, plChain, sentCreates, blind, mishaps>>

(* ComplianceClient.evaluate: a decision, or no usable answer. *)
GateAnswers == {"allow", "block", "review", "unavailable"}

(* _compliance_gate: whether a create with this body goes on, for a given   *)
(* answer of compliance-risk.                                               *)
PassesGate(b, decision) ==
    b \in GatedBodies =>
        \/ decision \in {"allow", "review"}
        \/ decision = "unavailable" /\ FailOpen

(* Mutant: an insert replaces the row that is there. *)
AlwaysInserts(p) == TRUE

(* The primary key of the paylinks table. *)
KeyIsFree(p) == plRow[p] = NoRow

(* The gate, then the insert of the row with its first event.  A row with   *)
(* this id makes the insert fail on the primary key.                        *)
InsertRow(w, decision) ==
    /\ Serving(w, "create", "insert")
    /\ LET p == plReq[w].pl
       IN  IF PassesGate(plReq[w].body, decision) /\ KeyIsFree(p)
           THEN /\ plRow' = [plRow EXCEPT ![p] = [status |-> "CREATED", submitted |-> FALSE]]
                /\ Emit(p, "requested")
                /\ GoOn(w, "reserve")
                /\ UNCHANGED plIdem
           ELSE AnswerError(w) /\ UNCHANGED <<plRow, plEvents>>
    /\ UNCHANGED <<nonceLock, nonceNext, plChain, plHistory, requests, mishaps>>

(* The transaction is recorded on the row, whatever the row has become      *)
(* since it was inserted.                                                   *)
RecordPending(w) ==
    /\ Serving(w, "create", "write")
    /\ LET p == plReq[w].pl
       IN  /\ plRow' = [plRow EXCEPT ![p] = [status |-> "PENDING", submitted |-> TRUE]]
           /\ Emit(p, "created")
    /\ GoOn(w, "complete")
    /\ UNCHANGED <<plIdem, nonceLock, nonceNext, plChain, plAnswered, sentCreates, blind,
                   requests, mishaps>>

(* complete, and the 201. *)
CompleteCreate(w) ==
    /\ Serving(w, "create", "complete")
    /\ plIdem' = [plIdem EXCEPT ![plReq[w].slot] = CompletedKey(plReq[w].body, plReq[w].pl)]
    /\ plAnswered' = plAnswered \cup {<<plReq[w].slot, plReq[w].pl>>}
    /\ Answer(w)
    /\ UNCHANGED <<plTables, nonceLock, nonceNext, plChain, sentCreates, blind,
                   requests, mishaps>>

-----------------------------------------------------------------------------
(* cancel_paylink and PayLinkService.cancel, for the creator or the owner.  *)

BeginCancel(w, p, slot) ==
    /\ plReq[w] = Free
    /\ requests < MaxRequests /\ requests' = requests + 1
    /\ IF slot # NoKey /\ BeginKey(plIdem[slot], p) # "owner"
       THEN UNCHANGED <<plIdem, plReq>>
       ELSE /\ plIdem' = IF slot = NoKey THEN plIdem ELSE [plIdem EXCEPT ![slot] = PendingKey(p)]
            /\ plReq' = [plReq EXCEPT ![w] = [op |-> "cancel", stage |-> "read", slot |-> slot,
                                              body |-> p, pl |-> p, nonce |-> 0]]
    /\ UNCHANGED <<plTables, nonceLock, nonceNext, plChain, plHistory, mishaps>>

CompleteCancel(w) ==
    /\ Answer(w)
    /\ plIdem' = IF plReq[w].slot = NoKey THEN plIdem
                 ELSE [plIdem EXCEPT ![plReq[w].slot] = CompletedKey(plReq[w].pl, plReq[w].pl)]

(* The row is read and its status judged; a row without a transaction is    *)
(* cancelled without telling the chain.                                     *)
ReadForCancel(w) ==
    /\ Serving(w, "cancel", "read")
    /\ LET row == plRow[plReq[w].pl]
       IN  CASE row = NoRow \/ row.status \in {"VERIFIED", "FAILED", "EXPIRED"} -> AnswerError(w)
             [] row.status = "CANCELLED" -> CompleteCancel(w)
             [] OTHER -> GoOn(w, IF row.submitted THEN "reserve" ELSE "write") /\ UNCHANGED plIdem
    /\ UNCHANGED <<plTables, nonceLock, nonceNext, plChain, plHistory, requests, mishaps>>

WriteCancelled(w) ==
    /\ Serving(w, "cancel", "write")
    /\ plRow' = [plRow EXCEPT ![plReq[w].pl].status = "CANCELLED"]
    /\ Emit(plReq[w].pl, "cancelled")
    /\ CompleteCancel(w)
    /\ UNCHANGED <<nonceLock, nonceNext, plChain, plHistory, requests, mishaps>>

-----------------------------------------------------------------------------
(* get_paylink and _reconcile.                                             *)

ReadForGet(w, p) ==
    /\ plReq[w] = Free
    /\ requests < MaxRequests /\ requests' = requests + 1
    /\ plRow[p].status \notin TERMINAL /\ plRow[p].submitted
    /\ plReq' = [plReq EXCEPT ![w] = [op |-> "get", stage |-> "chain", slot |-> NoKey, pl |-> p,
                                      seen |-> plRow[p].status, new |-> plRow[p].status]]
    /\ UNCHANGED <<plTables, plIdem, nonceLock, nonceNext, plChain, plHistory, mishaps>>

(* Mutant: a PayLink that the chain reports as CREATED counts as settled. *)
ReconcileOptimistic(local, onChain, expired) ==
    IF local \in TERMINAL \/ onChain = "NONE" THEN local
    ELSE IF onChain \in TERMINAL THEN onChain
    ELSE IF expired THEN "EXPIRED" ELSE "VERIFIED"

(* Mutant: the chain's status is stored untranslated. *)
ReconcileRaw(local, onChain, expired) == onChain

(* reconcile_status, with CHAIN_TO_OFFCHAIN. *)
ReconcileStatus(local, onChain, expired) ==
    IF local \in TERMINAL \/ onChain = "NONE" THEN local
    ELSE IF onChain \in TERMINAL THEN onChain
    ELSE IF expired THEN "EXPIRED" ELSE "PENDING"

(* The chain is asked; without an answer the row is returned as it is. *)
AskChain(w) ==
    /\ Serving(w, "get", "chain")
    /\ LET p == plReq[w].pl
           new == ReconcileStatus(plReq[w].seen, chainStatus[p], p \in pastExpiry)
       IN  \/ Answer(w)       \* the chain cannot be reached
           \/ IF new = plReq[w].seen
              THEN Answer(w)
              ELSE plReq' = [plReq EXCEPT ![w].stage = "write", ![w].new = new]
    /\ UNCHANGED <<plTables, plIdem, nonceLock, nonceNext, plChain, plHistory, requests, mishaps>>

WriteReconciled(w) ==
    /\ Serving(w, "get", "write")
    /\ LET p == plReq[w].pl
           new == plReq[w].new
       IN  /\ plRow' = [plRow EXCEPT ![p].status = new]
           /\ IF new = "EXPIRED" THEN Emit(p, "expired") ELSE UNCHANGED plEvents
    /\ Answer(w)
    /\ UNCHANGED <<plIdem, nonceLock, nonceNext, plChain, plAnswered, sentCreates, blind,
                   requests, mishaps>>

-----------------------------------------------------------------------------
(* The chain, and what goes wrong.                                         *)

(* The chain executes the account's pending transactions in nonce order.    *)
(* One that fails takes no nonce.                                           *)
ExecuteTx(tx) ==
    /\ tx \in pool
    /\ \A other \in pool : tx.nonce <= other.nonce
    /\ pool' = pool \ {tx}
    /\ IF tx.nonce = accountNonce
          /\ chainStatus[tx.pl] = (IF tx.kind = "create" THEN "NONE" ELSE "CREATED")
       THEN /\ accountNonce' = accountNonce + 1
            /\ IF tx.kind = "create" THEN Chain!Create(tx.pl) ELSE Chain!Cancel(tx.pl)
            /\ UNCHANGED blind
       ELSE blind' = TRUE /\ UNCHANGED <<accountNonce, chainStatus, chainProof>>
    /\ UNCHANGED <<plTables, plMemory, pastExpiry, plAnswered, sentCreates, requests, mishaps>>

(* Validators settle a PayLink, or the admin fails it. *)
ChainDecides(p) ==
    /\ chainStatus[p] = "CREATED"
    /\ Chain!Settle(p, p) \/ Chain!Fail(p)
    /\ UNCHANGED <<plTables, plMemory, pool, accountNonce, pastExpiry, plHistory, requests, mishaps>>

ExpiryPasses(p) ==
    /\ p \notin pastExpiry /\ plRow[p] # NoRow
    /\ pastExpiry' = pastExpiry \cup {p}
    /\ UNCHANGED <<plTables, plMemory, pool, accountNonce, chainStatus, chainProof, plHistory,
                   requests, mishaps>>

(* Redis drops an idempotency record after its time to live. *)
PayLinkKeyExpires(slot) ==
    /\ plIdem[slot] # FreeKey
    /\ Mishap
    /\ plIdem' = [plIdem EXCEPT ![slot] = FreeKey]
    /\ UNCHANGED <<plTables, plReq, nonceLock, nonceNext, plChain, plHistory, requests>>

(* The process restarts: requests and the nonce counter are gone, the keys  *)
(* of the requests stay reserved.                                           *)
RestartPayLinkService ==
    /\ Mishap
    /\ plReq' = [w \in Workers |-> Free]
    /\ nonceLock' = NoWorker
    /\ nonceNext' = 0
    /\ blind' = (blind \/ pool # {})
    /\ UNCHANGED <<plTables, plIdem, plChain, plAnswered, sentCreates, requests>>

-----------------------------------------------------------------------------
(* The tables as the migrations create them. *)
PayLinkInit ==
    /\ plRow = [p \in PlIds |-> NoRow]
    /\ plEvents = {}
    /\ plIdem = [slot \in Keys \cup PlIds |-> FreeKey]
    /\ plReq = [w \in Workers |-> Free]
    /\ nonceLock = NoWorker /\ nonceNext = 0
    /\ pool = {} /\ accountNonce = 0
    /\ Chain!Init
    /\ pastExpiry = {}
    /\ plAnswered = {} /\ sentCreates = [p \in PlIds |-> 0]
    /\ blind = FALSE
    /\ requests = 0 /\ mishaps = 0

HandlePayLinkRequest(w) ==
    \/ \E decision \in GateAnswers : InsertRow(w, decision)
    \/ Reserve(w) \/ SubmitTx(w) \/ RecordPending(w) \/ CompleteCreate(w)
    \/ ReadForCancel(w) \/ WriteCancelled(w)
    \/ AskChain(w) \/ WriteReconciled(w)

PayLinkNext ==
    \/ \E w \in Workers :
        \/ \E k \in Keys, b \in Bodies : BeginCreate(w, k, b)
        \/ \E p \in PlIds : BeginCancel(w, p, p) \/ BeginCancel(w, p, NoKey) \/ ReadForGet(w, p)
        \/ HandlePayLinkRequest(w)
    \/ \E tx \in pool : ExecuteTx(tx)
    \/ \E p \in PlIds : ChainDecides(p) \/ ExpiryPasses(p)
    \/ \E slot \in Keys \cup PlIds : PayLinkKeyExpires(slot)
    \/ RestartPayLinkService

PayLinkSpec == PayLinkInit /\ [][PayLinkNext]_payLinkVars

-----------------------------------------------------------------------------
(* Properties.                                                             *)

(* Rows, requests and the nonce lock: only a request inside reserve holds   *)
(* the lock.                                                                *)
PayLinkTypeOK ==
    /\ plRow \in [PlIds -> PayLinkRows \cup {NoRow}]
    /\ plEvents \subseteq PlIds \X PlEventKinds
    /\ nonceLock # NoWorker => plReq[nonceLock].op # "none" /\ plReq[nonceLock].stage = "send"
    /\ pool \subseteq [kind : {"create", "cancel"}, pl : PlIds, nonce : Nat]

(* A settled row is a settled PayLink (reconcile_status: "Settlement is     *)
(* taken only from the chain"): whatever stale status a request carries,    *)
(* no row says VERIFIED unless a proof settled the PayLink on the chain.    *)
VerifiedOnlyByChain ==
    \A p \in PlIds : plRow[p].status = "VERIFIED" => chainProof[p] # NoSettlement

(* "One key, one PayLink on the chain" (new_pl_id): retries, released and   *)
(* expired keys, restarts and lost answers included, the create transaction *)
(* of a PayLink is accepted by the chain at most once.                      *)
CreateSentOnce == \A p \in PlIds : sentCreates[p] <= 1

(* "Concurrent submissions don't collide" (NonceManager): while the service *)
(* knows the fate of what it sent, the pending transactions carry exactly   *)
(* the nonces from the account's up to the local counter, each once.        *)
NoncesAligned ==
    ~ blind =>
        /\ \A tx, other \in pool : tx.nonce = other.nonce => tx = other
        /\ {tx.nonce : tx \in pool} = {n \in 0..(nonceNext - 1) : n >= accountNonce}

(* All 201 answers to one Idempotency-Key name the same PayLink, as long as *)
(* no record was lost: a second body is refused while the first is stored.  *)
OneAnswerPerKey ==
    mishaps = 0 => \A a, b \in plAnswered : a[1] = b[1] => a = b

(* A row leaves CANCELLED only when a request that had read or inserted it  *)
(* before the cancellation writes it back: the recording of the create's    *)
(* transaction, or a reconciliation.                                        *)
CancelledOnlyOverwritten ==
    [][\A p \in PlIds :
          plRow[p].status = "CANCELLED" /\ plRow'[p].status # "CANCELLED" =>
              \E w \in Workers :
                  /\ plReq[w].op \in {"create", "get"} /\ plReq[w].stage = "write"
                  /\ plReq[w].pl = p
                  /\ plReq[w].op = "get" => plReq[w].seen # "CANCELLED"]_payLinkVars

(* The progress of a mint as its callers can observe it. *)
MintProgress(p) ==
    IF plRow[p] = NoRow THEN "absent"
    ELSE IF plRow[p].submitted THEN "live"
    ELSE IF \E w \in Workers : plReq[w].op = "create" /\ plReq[w].pl = p
                               /\ plReq[w].stage \in {"reserve", "send", "write"} THEN "open"
    ELSE "stub"

Mint == INSTANCE MintContract WITH
    minted <- [p \in PlIds |-> MintProgress(p)],
    answered <- {a[2] : a \in plAnswered}

(* paylink-service keeps the contract that its callers build on: a 201 is   *)
(* given only for a row with a recorded transaction, and a create that      *)
(* failed after its insert is never completed by a retry.                   *)
KeepsMintContract == Mint!MintSpec

(* A create goes to the chain once and is answered with one PayLink, over   *)
(* retries, lost answers, expired keys and restarts; nonces neither collide *)
(* nor leave gaps while the service knows the fate of what it sent; and a   *)
(* stale request writes neither a settlement nor, but for the overlap       *)
(* named, a cancellation away.                                              *)
MintsOnce ==
    /\ [](/\ PayLinkTypeOK /\ VerifiedOnlyByChain
          /\ CreateSentOnce /\ NoncesAligned /\ OneAnswerPerKey)
    /\ CancelledOnlyOverwritten
=============================================================================
