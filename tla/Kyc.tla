-------------------------------- MODULE Kyc --------------------------------
(***************************************************************************)
(* The KYC tier of one user, in the two services that keep it:              *)
(* compliance-risk (kyc_records, written by sessions and by the provider's  *)
(* callbacks) and identity-service (users.kyc_tier, written by KycConsumer  *)
(* from the events of the first).                                           *)
(*                                                                          *)
(* upsert_kyc_record merges a row into the session: the record that the     *)
(* handler read first is the one its columns are compared with, and a       *)
(* column is written only where it differs.  A handler that read no record  *)
(* makes the merge read again.                                              *)
(***************************************************************************)
EXTENDS Integers, Sequences

CONSTANTS
    KycWorkers,     \* handlers in progress at a time
    NoRecord,
    MaxKycCalls,    \* bound on sessions and callbacks
    MaxKycTroubles  \* bound on redeliveries of an event

ASSUME KycAssumption ==
    NoRecord \notin Int /\ {MaxKycCalls, MaxKycTroubles} \subseteq Nat

VARIABLES
    record,     \* the tier in kyc_records, or NoRecord
    userTier,   \* users.kyc_tier of identity-service
    kycLog,     \* committed KYC events, in the order the relay keeps
    kycOffset,  \* events that KycConsumer has handled
    kycReq,     \* handlers in progress
    granted,    \* history: the highest tier that a callback granted
    staleTier,  \* history: a tier was written by a handler that read an older record
    kycCalls, kycTroubles

kycVars == <<record, userTier, kycLog, kycOffset, kycReq, granted, staleTier, kycCalls, kycTroubles>>

KycTier == 0..2
KycFree == [op |-> "none"]
TierOf(row) == IF row = NoRecord THEN 0 ELSE row

BeginKyc(w, request) ==
    /\ kycReq[w] = KycFree
    /\ kycCalls < MaxKycCalls /\ kycCalls' = kycCalls + 1
    /\ kycReq' = [kycReq EXCEPT ![w] = request]
    /\ UNCHANGED <<record, userTier, kycLog, kycOffset, granted, staleTier, kycTroubles>>

(* What merge compares with: the row of the identity map, or the present one. *)
BeforeMerge(row) == IF row = NoRecord THEN "merge" ELSE "write"

(* create_session, up to the call of provider.start. *)
CreateSession(w, requested) ==
    /\ TierOf(record) < requested
    /\ BeginKyc(w, [op |-> "session", stage |-> "start", seen |-> record, base |-> record,
                    tier |-> TierOf(record)])

(* provider.start answers or fails. *)
ProviderStarts(w) ==
    /\ kycReq[w].op = "session" /\ kycReq[w].stage = "start"
    /\ \/ kycReq' = [kycReq EXCEPT ![w].stage = BeforeMerge(kycReq[w].seen)]
       \/ kycReq' = [kycReq EXCEPT ![w] = KycFree]
    /\ UNCHANGED <<record, userTier, kycLog, kycOffset, granted, staleTier, kycCalls, kycTroubles>>

(* Mutant: the tier granted replaces a higher one. *)
GrantedTier(current, tier) == tier

(* A tier is never lowered by a pass. *)
NewTier(current, tier) == IF tier > current THEN tier ELSE current

(* apply_callback, up to the merge; a provider may repeat a callback. *)
ApplyCallback(w, passed, tier) ==
    BeginKyc(w, [op |-> IF passed THEN "pass" ELSE "fail", stage |-> BeforeMerge(record),
                 seen |-> record, base |-> record, granted |-> tier,
                 tier |-> IF passed THEN NewTier(TierOf(record), tier) ELSE TierOf(record)])

(* merge finds no row in the identity map and reads the table. *)
MergeReads(w) ==
    /\ kycReq[w] # KycFree /\ kycReq[w].stage = "merge"
    /\ kycReq' = [kycReq EXCEPT ![w].base = record, ![w].stage = "write"]
    /\ UNCHANGED <<record, userTier, kycLog, kycOffset, granted, staleTier, kycCalls, kycTroubles>>

(* The tier that the flush leaves in the table. *)
Flushed(request) == IF request.base # NoRecord /\ request.tier = request.base THEN record ELSE request.tier

(* Mutant: the event carries the tier of this callback. *)
GrantOnly(request) == request.granted

(* The tier in the payload of compliance.kyc.passed. *)
PassedTier(request) == request.tier

EventsOf(request) ==
    CASE request.op = "pass" -> <<[kind |-> "passed", tier |-> PassedTier(request)]>>
      [] request.op = "fail" -> <<[kind |-> "failed", tier |-> 0]>>
      [] OTHER -> <<>>

(* flush and commit, with the event in the same transaction; two inserts    *)
(* collide on the primary key and the second handler fails.                 *)
WriteRecord(w) ==
    LET request == kycReq[w]
        collides == request.base = NoRecord /\ record # NoRecord
    IN  /\ request # KycFree /\ request.stage = "write"
        /\ kycReq' = [kycReq EXCEPT ![w] = KycFree]
        /\ IF collides
           THEN UNCHANGED <<record, kycLog, granted, staleTier>>
           ELSE /\ record' = Flushed(request)
                /\ kycLog' = kycLog \o EventsOf(request)
                /\ granted' = IF request.op = "pass" /\ request.granted > granted THEN request.granted
                              ELSE granted
                /\ staleTier' = (staleTier \/ request.seen # record)
        /\ UNCHANGED <<userTier, kycOffset, kycCalls, kycTroubles>>

-----------------------------------------------------------------------------
(* KycConsumer.handle: a failure sets the tier to 0. *)
TierAfter(event) == IF event.kind = "passed" THEN event.tier ELSE 0

ConsumeKycEvent ==
    /\ kycOffset < Len(kycLog)
    /\ userTier' = TierAfter(kycLog[kycOffset + 1])
    /\ kycOffset' = kycOffset + 1
    /\ UNCHANGED <<record, kycLog, kycReq, granted, staleTier, kycCalls, kycTroubles>>

(* The consumer restarts before its offset was committed. *)
KycEventRedelivered ==
    /\ kycOffset > 0 /\ kycTroubles < MaxKycTroubles
    /\ kycOffset' = kycOffset - 1 /\ kycTroubles' = kycTroubles + 1
    /\ UNCHANGED <<record, userTier, kycLog, kycReq, granted, staleTier, kycCalls>>

KycInit ==
    /\ record = NoRecord /\ userTier = 0
    /\ kycLog = <<>> /\ kycOffset = 0
    /\ kycReq = [w \in KycWorkers |-> KycFree]
    /\ granted = 0 /\ staleTier = FALSE
    /\ kycCalls = 0 /\ kycTroubles = 0

KycNext ==
    \/ \E w \in KycWorkers :
           \/ \E t \in 1..2 : CreateSession(w, t)
           \/ ProviderStarts(w)
           \/ \E passed \in BOOLEAN, t \in 1..2 : ApplyCallback(w, passed, t)
           \/ MergeReads(w) \/ WriteRecord(w)
    \/ ConsumeKycEvent \/ KycEventRedelivered

KycSpec == KycInit /\ [][KycNext]_kycVars

-----------------------------------------------------------------------------
(* Properties.                                                             *)

(* "only a passing callback grants a tier" (create_session): the record     *)
(* never exceeds what callbacks granted, and falls short of the highest     *)
(* grant only after a handler wrote over a record it had not read.          *)
TierIsGranted ==
    /\ TierOf(record) <= granted
    /\ TierOf(record) < granted => staleTier

(* Once KycConsumer has caught up, identity-service shows the tier of       *)
(* compliance-risk, or 0 after a failed check, or a handler wrote over a    *)
(* record it had not read.                                                  *)
TiersAgree ==
    kycOffset = Len(kycLog) /\ kycLog # <<>> /\ ~ staleTier =>
        userTier = IF kycLog[Len(kycLog)].kind = "passed" THEN TierOf(record) ELSE 0

(* The KYC tier is one that a callback granted, and identity-service shows  *)
(* the same once it has consumed the events, up to the overwrites and the   *)
(* failed checks named.                                                     *)
TiersSound ==
    TierIsGranted /\ TiersAgree
=============================================================================
