------------------------ MODULE SettlementPipeline ------------------------
(***************************************************************************)
(* From a payment on the M-Pesa rail to a settlement on the chain: the     *)
(* daraja-service forwards callbacks until they are acknowledged, the      *)
(* adapter turns a callback into a signed proof, and the proof-validator   *)
(* records the proof and broadcasts a settlement transaction.              *)
(*                                                                         *)
(* A charge is one STK push; its receipt number makes its proof unique, so *)
(* charge and proof share a name.  Requests to the validator run           *)
(* concurrently, one per Slot.  The chain is reduced to what the pipeline  *)
(* uses of it: a mempool, the nonce of the validator's account, used       *)
(* proofs and PayLink statuses, with the devnet's quorum of one.           *)
(***************************************************************************)
EXTENDS Integers, Sequences, FiniteSets, FiniteSetsExt, SequencesExt

CONSTANTS
    Charges,
    PayLinks,
    PayLinkOf,    \* the PayLink that each charge pays
    Slots,        \* concurrent requests at the validator
    Times,        \* timestamps (seconds) that the adapter may put in a proof
    Cancellable,  \* PayLinks whose creator may cancel them
    MaxFaults     \* bound on crashes, failures and lost answers

ASSUME PipelineAssumption ==
    /\ PayLinkOf \in [Charges -> PayLinks]
    /\ IsFiniteSet(Charges)
    /\ MaxFaults \in Nat

VARIABLES
    charge,     \* each charge on the rail
    correlated, \* charges with a correlation record
    acks,       \* the outcomes with which each charge's callback was acknowledged
    idem,       \* the validator's idempotency record of each charge's key
    record,     \* status of each proof's row
    req,        \* the request in each slot
    next,       \* NonceManager.next
    pool,       \* pending settlement transactions
    chainNonce, \* committed nonce of the validator's account
    used,       \* proofs used on chain
    status,     \* PayLink statuses on chain
    sent,       \* history: transactions ever accepted for each proof
    faults,
    disturbed   \* history: something failed that nobody retries

rail == <<charge, correlated, acks>>
validator == <<idem, record, req, next>>
chain == <<pool, chainNonce, used, status>>
pipeVars == <<rail, validator, chain, sent, faults, disturbed>>

NoRecord == [state |-> "none", fp |-> 0, status |-> "none"]
Idle == [stage |-> "idle"]

-----------------------------------------------------------------------------
(* The rail and the adapter.                                               *)

(* InitiateCharge: the push is out even when the correlation cannot be      *)
(* stored.                                                                  *)
InitiateCharge(c) ==
    /\ charge[c] = "none"
    /\ charge' = [charge EXCEPT ![c] = "pushed"]
    /\ \/ correlated' = correlated \cup {c} /\ UNCHANGED faults
       \/ faults < MaxFaults /\ faults' = faults + 1 /\ UNCHANGED correlated
    /\ UNCHANGED <<acks, validator, chain, sent, disturbed>>

(* The payer pays, pays another amount, or declines. *)
RailResult(c) ==
    /\ charge[c] = "pushed"
    /\ charge' \in {[charge EXCEPT ![c] = r] : r \in {"paid", "short", "failed"}}
    /\ UNCHANGED <<correlated, acks, validator, chain, sent, faults, disturbed>>

(* Redis drops the correlation after its time to live. *)
CorrelationExpires(c) ==
    /\ c \in correlated
    /\ faults < MaxFaults
    /\ faults' = faults + 1
    /\ correlated' = correlated \ {c}
    /\ UNCHANGED <<charge, acks, validator, chain, sent, disturbed>>

(* Mutant: a callback is believed whatever its result code and amount. *)
ProvesAnyCallback(c) == charge[c] \notin {"none", "pushed"} /\ c \in correlated

(* The callbacks that HandleCallback turns into a proof. *)
Proves(c) == charge[c] = "paid" /\ c \in correlated

(* HandleCallback without a proof to broadcast. *)
IgnoreCallback(c) ==
    /\ charge[c] \notin {"none", "pushed"}
    /\ ~ Proves(c)
    /\ acks' = [acks EXCEPT ![c] = @ \cup {"ignored"}]
    /\ UNCHANGED <<charge, correlated, validator, chain, sent, faults, disturbed>>

(* Begin of the idempotency store, for a request with this fingerprint. *)
Begin(c, fp) ==
    CASE idem[c].state = "none" -> "owned"
      [] idem[c].state = "completed" /\ idem[c].fp = fp -> "replay"
      [] OTHER -> "conflict"

(* HandleCallback up to the reservation of the idempotency key.  The body   *)
(* carries the time of this delivery, so the fingerprint of a redelivery    *)
(* differs from the first one's unless both fall into one second.  Any 4xx  *)
(* of the validator, a conflict included, is a final rejection for the      *)
(* adapter.                                                                 *)
HandleCallback(c, s, time) ==
    /\ Proves(c)
    /\ req[s] = Idle
    /\ IF Begin(c, time) = "owned"
       THEN /\ idem' = [idem EXCEPT ![c] = [state |-> "pending", fp |-> time, status |-> "none"]]
            /\ req' = [req EXCEPT ![s] = [stage |-> "check", charge |-> c, fp |-> time,
                                          nonce |-> 0, status |-> "none"]]
            /\ UNCHANGED acks
       ELSE /\ acks' = [acks EXCEPT ![c] = @ \cup
                           {IF Begin(c, time) = "replay" THEN idem[c].status ELSE "rejected"}]
            /\ UNCHANGED <<idem, req>>
    /\ UNCHANGED <<charge, correlated, record, next, chain, sent, faults, disturbed>>

-----------------------------------------------------------------------------
(* SubmitProof, one action per store or chain access.                      *)

At(s, stage) == req[s].stage = stage
GoTo(s, stage) == req' = [req EXCEPT ![s].stage = stage]
FinishWith(s, st) == req' = [req EXCEPT ![s].stage = "respond", ![s].status = st]

(* The chain is asked whether the proof has settled already; the record of  *)
(* that is best effort.                                                     *)
CheckUsed(s) ==
    /\ At(s, "check")
    /\ LET c == req[s].charge
       IN  IF c \in used
           THEN /\ \/ /\ record' = [record EXCEPT ![c] = IF @ = "none" THEN "already_settled" ELSE @]
                      /\ UNCHANGED faults
                   \/ faults < MaxFaults /\ faults' = faults + 1 /\ UNCHANGED record
                /\ FinishWith(s, "already_settled")
           ELSE GoTo(s, "crosscheck") /\ UNCHANGED <<record, faults>>
    /\ UNCHANGED <<rail, idem, next, chain, sent, disturbed>>

(* A PayLink that is no longer CREATED: the key is released and the adapter *)
(* acknowledges a rejection.                                                *)
CrossCheck(s) ==
    /\ At(s, "crosscheck")
    /\ LET c == req[s].charge
       IN  IF status[PayLinkOf[c]] = "CREATED"
           THEN GoTo(s, "insert") /\ UNCHANGED <<acks, idem>>
           ELSE /\ req' = [req EXCEPT ![s] = Idle]
                /\ idem' = [idem EXCEPT ![c] = NoRecord]
                /\ acks' = [acks EXCEPT ![c] = @ \cup {"rejected"}]
    /\ UNCHANGED <<charge, correlated, record, next, chain, sent, faults, disturbed>>

(* Mutant: a row that exists is overwritten. *)
InsertOverwrites(s) ==
    /\ At(s, "insert")
    /\ record' = [record EXCEPT ![req[s].charge] = "received"]
    /\ GoTo(s, "reserve")
    /\ UNCHANGED <<rail, idem, next, chain, sent, faults, disturbed>>

(* The unique proof_hash: a row that exists answers for the request. *)
InsertProof(s) ==
    /\ At(s, "insert")
    /\ LET c == req[s].charge
       IN  IF record[c] = "none"
           THEN record' = [record EXCEPT ![c] = "received"] /\ GoTo(s, "reserve")
           ELSE FinishWith(s, record[c]) /\ UNCHANGED record
    /\ UNCHANGED <<rail, idem, next, chain, sent, faults, disturbed>>

(* Mutant: only the nonce on chain counts. *)
ReserveChainNonce(s) ==
    /\ At(s, "reserve")
    /\ \A t \in Slots : ~ At(t, "send")
    /\ req' = [req EXCEPT ![s].stage = "send", ![s].nonce = chainNonce]
    /\ UNCHANGED <<rail, idem, record, next, chain, sent, faults, disturbed>>

(* NonceManager.Reserve: the lock is held while a request is at "send". *)
Reserve(s) ==
    /\ At(s, "reserve")
    /\ \A t \in Slots : ~ At(t, "send")
    /\ req' = [req EXCEPT ![s].stage = "send", ![s].nonce = Max({chainNonce, next})]
    /\ UNCHANGED <<rail, idem, record, next, chain, sent, faults, disturbed>>

Tx(s) == [nonce |-> req[s].nonce, charge |-> req[s].charge]

(* SendTransaction and commit(true). *)
Send(s) ==
    /\ At(s, "send")
    /\ pool' = pool \cup {Tx(s)}
    /\ sent' = [sent EXCEPT ![req[s].charge] = @ + 1]
    /\ next' = req[s].nonce + 1
    /\ GoTo(s, "mark")
    /\ UNCHANGED <<rail, idem, record, chainNonce, used, status, faults, disturbed>>

(* Mutant: the request ends without a result. *)
MarkWithoutResult(s) ==
    /\ At(s, "mark")
    /\ record' = [record EXCEPT ![req[s].charge] = "broadcast"]
    /\ GoTo(s, "respond")
    /\ UNCHANGED <<rail, idem, next, chain, sent, faults, disturbed>>

(* The bookkeeping write after the broadcast may fail. *)
MarkBroadcast(s) ==
    /\ At(s, "mark")
    /\ \/ record' = [record EXCEPT ![req[s].charge] = "broadcast"] /\ UNCHANGED faults
       \/ faults < MaxFaults /\ faults' = faults + 1 /\ UNCHANGED record
    /\ FinishWith(s, "broadcast")
    /\ UNCHANGED <<rail, idem, next, chain, sent, disturbed>>

(* Complete, which may fail and leave the key pending, and the answer,      *)
(* which the adapter may never see.                                         *)
Respond(s) ==
    /\ At(s, "respond")
    /\ LET c == req[s].charge
           done == [idem EXCEPT ![c] = [state |-> "completed", fp |-> req[s].fp, status |-> req[s].status]]
           answered == [acks EXCEPT ![c] = @ \cup {req[s].status}]
       IN  \/ idem' = done /\ acks' = answered /\ UNCHANGED faults
           \/ /\ faults < MaxFaults
              /\ faults' = faults + 1
              /\ \/ idem' = done /\ UNCHANGED acks
                 \/ acks' = answered /\ UNCHANGED idem
    /\ req' = [req EXCEPT ![s] = Idle]
    /\ UNCHANGED <<charge, correlated, record, next, chain, sent, disturbed>>

(* Mutant: a request that fails keeps its idempotency key. *)
FailKeepsKey(s) ==
    /\ req[s].stage \in {"check", "crosscheck", "insert", "reserve", "send"}
    /\ faults < MaxFaults
    /\ faults' = faults + 1
    /\ disturbed' = (disturbed \/ req[s].stage \in {"reserve", "send"} \/ acks[req[s].charge] # {})
    /\ \/ UNCHANGED <<pool, sent>>
       \/ /\ At(s, "send")
          /\ pool' = pool \cup {Tx(s)}
          /\ sent' = [sent EXCEPT ![req[s].charge] = @ + 1]
    /\ req' = [req EXCEPT ![s] = Idle]
    /\ UNCHANGED <<rail, idem, record, next, chainNonce, used, status>>

(* The chain or the database is unavailable: the key is released, if Redis  *)
(* can be reached, and the callback is not acknowledged.  A send whose      *)
(* answer is lost reached the mempool all the same; the nonce is not        *)
(* advanced.  The rail delivers again, which helps unless the proof is      *)
(* recorded already, the key is still taken, or a duplicate was turned      *)
(* away, and thereby acknowledged, meanwhile.                               *)
Fail(s) ==
    LET c == req[s].charge
    IN  /\ req[s].stage \in {"check", "crosscheck", "insert", "reserve", "send"}
        /\ faults < MaxFaults
        /\ faults' = faults + 1
        /\ \/ UNCHANGED <<pool, sent>>
           \/ /\ At(s, "send")
              /\ pool' = pool \cup {Tx(s)}
              /\ sent' = [sent EXCEPT ![c] = @ + 1]
        /\ \/ /\ idem' = [idem EXCEPT ![c] = NoRecord]
              /\ disturbed' = (disturbed \/ req[s].stage \in {"reserve", "send"} \/ acks[c] # {})
           \/ UNCHANGED idem /\ disturbed' = TRUE
        /\ req' = [req EXCEPT ![s] = Idle]
        /\ UNCHANGED <<rail, record, next, chainNonce, used, status>>

(* The time to live of an idempotency key, far longer than any request. *)
KeyExpires(c) ==
    /\ idem[c].state # "none"
    /\ \A s \in Slots : req[s] # Idle => req[s].charge # c
    /\ faults < MaxFaults
    /\ faults' = faults + 1
    /\ idem' = [idem EXCEPT ![c] = NoRecord]
    /\ UNCHANGED <<rail, record, req, next, chain, sent, disturbed>>

(* The validator restarts: requests and the local nonce are gone, keys in   *)
(* Redis and rows stay.                                                     *)
ValidatorCrash ==
    /\ faults < MaxFaults
    /\ faults' = faults + 1
    /\ disturbed' = TRUE
    /\ req' = [s \in Slots |-> Idle]
    /\ next' = 0
    /\ UNCHANGED <<rail, idem, record, chain, sent>>

-----------------------------------------------------------------------------
(* The chain.                                                              *)

(* A settlement transaction in a block: it fails on a wrong nonce, a used   *)
(* proof or a PayLink that is not CREATED, and then takes no nonce.         *)
ApplyTx(st, tx) ==
    LET p == PayLinkOf[tx.charge]
    IN  IF tx.nonce = st.nonce /\ tx.charge \notin st.used /\ st.status[p] = "CREATED"
        THEN [nonce |-> st.nonce + 1, used |-> st.used \cup {tx.charge},
              status |-> [st.status EXCEPT ![p] = "VERIFIED"]]
        ELSE st

BlockOrders ==
    {txs \in SetToSeqs(pool) : \A i, j \in DOMAIN txs : i < j => txs[i].nonce <= txs[j].nonce}

ProduceBlock ==
    /\ pool # {}
    /\ \E txs \in BlockOrders :
        LET after == FoldLeft(ApplyTx, [nonce |-> chainNonce, used |-> used, status |-> status], txs)
        IN  /\ chainNonce' = after.nonce
            /\ used' = after.used
            /\ status' = after.status
            /\ disturbed' = (disturbed \/ after.nonce # chainNonce + Cardinality(pool))
    /\ pool' = {}
    /\ UNCHANGED <<rail, validator, sent, faults>>

CancelPayLink(p) ==
    /\ p \in Cancellable
    /\ status[p] = "CREATED"
    /\ status' = [status EXCEPT ![p] = "CANCELLED"]
    /\ UNCHANGED <<rail, validator, pool, chainNonce, used, sent, faults, disturbed>>

(* The node restarts with an empty mempool. *)
ChainRestart ==
    /\ pool # {}
    /\ faults < MaxFaults
    /\ faults' = faults + 1
    /\ disturbed' = TRUE
    /\ pool' = {}
    /\ UNCHANGED <<rail, validator, chainNonce, used, status, sent>>

-----------------------------------------------------------------------------

PipeInit ==
    /\ charge = [c \in Charges |-> "none"]
    /\ correlated = {}
    /\ acks = [c \in Charges |-> {}]
    /\ idem = [c \in Charges |-> NoRecord]
    /\ record = [c \in Charges |-> "none"]
    /\ req = [s \in Slots |-> Idle]
    /\ next = 0
    /\ pool = {}
    /\ chainNonce = 0
    /\ used = {}
    /\ status = [p \in PayLinks |-> "CREATED"]
    /\ sent = [c \in Charges |-> 0]
    /\ faults = 0
    /\ disturbed = FALSE

RequestStep(s) ==
    \/ CheckUsed(s)
    \/ CrossCheck(s)
    \/ InsertProof(s)
    \/ Reserve(s)
    \/ Send(s)
    \/ MarkBroadcast(s)
    \/ Respond(s)

Callback(c) == \E s \in Slots, time \in Times : HandleCallback(c, s, time)

PipeNext ==
    \/ \E c \in Charges :
        \/ InitiateCharge(c)
        \/ RailResult(c)
        \/ CorrelationExpires(c)
        \/ IgnoreCallback(c)
        \/ Callback(c)
        \/ KeyExpires(c)
    \/ \E s \in Slots : RequestStep(s) \/ Fail(s)
    \/ ValidatorCrash
    \/ ProduceBlock
    \/ \E p \in PayLinks : CancelPayLink(p)
    \/ ChainRestart

PipeSpec == PipeInit /\ [][PipeNext]_pipeVars

(* Handlers run to their end, blocks are produced, and the rail repeats a   *)
(* callback until it is acknowledged.                                       *)
FairPipe ==
    /\ PipeSpec
    /\ \A s \in Slots : WF_pipeVars(RequestStep(s))
    /\ WF_pipeVars(ProduceBlock)
    /\ \A c \in Charges : WF_pipeVars(acks[c] = {} /\ Callback(c))

-----------------------------------------------------------------------------
(* Properties.                                                             *)

(* What is stored and answered; neither the local nonce nor the chain's     *)
(* runs past the number of proofs.                                          *)
PipeTypeOK ==
    /\ charge \in [Charges -> {"none", "pushed", "paid", "short", "failed"}]
    /\ \A c \in Charges : acks[c] \subseteq
           {"ignored", "rejected", "received", "broadcast", "already_settled"}
    /\ record \in [Charges -> {"none", "received", "broadcast", "already_settled"}]
    /\ next \in 0..Cardinality(Charges)
    /\ chainNonce \in 0..Cardinality(Charges)
    /\ status \in [PayLinks -> {"CREATED", "VERIFIED", "CANCELLED"}]

(* "Never re-broadcasts" (the Service's comment): however often a callback  *)
(* is redelivered, concurrently or after crashes and released keys, at most *)
(* one settlement transaction is ever sent for its proof.                   *)
SentOnce == \A c \in Charges : sent[c] <= 1

(* Nothing settles that was not paid: a proof used on chain belongs to a    *)
(* charge that the rail reported as paid in full.  (And the types hold.)    *)
SettledMeansPaid == PipeTypeOK /\ \A c \in used : charge[c] = "paid"

(* What the comment on NonceManager relies on: as long as no send failed,   *)
(* nothing crashed and no settlement transaction failed in a block, the     *)
(* pending transactions carry the nonces right after the committed one, so  *)
(* that one block applies them all.                                         *)
NoncesContiguous ==
    ~ disturbed =>
        /\ {tx.nonce : tx \in pool} = chainNonce..(chainNonce + Cardinality(pool) - 1)
        /\ next <= chainNonce + Cardinality(pool)

(* A payment is lost only by a fault: a charge paid in full that keeps its  *)
(* correlation ends up settled on chain, unless its PayLink was closed      *)
(* otherwise or a failure hit it at a point where nobody retries.           *)
PaymentSettles ==
    \A c \in Charges :
        Proves(c) ~> (c \in used \/ status[PayLinkOf[c]] # "CREATED"
                        \/ c \notin correlated \/ disturbed)

(* "A failed submit leaves no gap" (NonceManager): the nonce that the next  *)
(* settlement will carry is the one the chain will expect once the pending  *)
(* transactions are mined.  A transaction that fails in a block takes no    *)
(* nonce, while the local counter has moved past it.                        *)
NoNonceGap == next <= chainNonce + Cardinality(pool)

(* "The record stays `received` for a later retry" (SubmitProof): a         *)
(* callback answered with `received` has had its settlement sent, or some   *)
(* request is still going to send it.  The retry finds the record, sends    *)
(* nothing, and its answer ends the redeliveries.                           *)
ReceivedIsRetried ==
    \A c \in Charges :
        "received" \in acks[c] =>
            \/ sent[c] > 0
            \/ \E s \in Slots : req[s] # Idle /\ req[s].charge = c
=============================================================================
