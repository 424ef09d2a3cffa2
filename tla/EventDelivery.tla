--------------------------- MODULE EventDelivery ---------------------------
(***************************************************************************)
(* How a domain event of one service takes effect in another: a row in the  *)
(* producer's outbox, relay instances that drain the outbox to the bus, one *)
(* partition of a topic, and a consumer that handles a polled batch under a *)
(* deduplication marker and commits its offset.                             *)
(*                                                                          *)
(* Transactions allocate the id of an event before they commit, so events   *)
(* of different entities may become visible out of id order.  Transactions  *)
(* on one entity are serialised by the lock on its row.                     *)
(***************************************************************************)
EXTENDS Integers, Sequences, FiniteSets, FiniteSetsExt, SequencesExt, Idempotency

CONSTANTS
    Entities,       \* message keys
    Relays,         \* relay instances
    Deployments,    \* the sets of instances that may run
    RelayBatch,     \* rows per drain (100 in the code)
    PollSize,       \* messages per poll (256 in the code)
    MaxEvents,      \* bound on events
    MaxLog,         \* bound on messages in the partition
    MaxTroubles     \* bound on failures, crashes and expiries

ASSUME EventDeliveryAssumption ==
    /\ Deployments \subseteq SUBSET Relays
    /\ {RelayBatch, PollSize} \subseteq Nat \ {0}
    /\ {MaxEvents, MaxLog, MaxTroubles} \subseteq Nat

VARIABLES
    outbox,       \* events by id: entity, committed, sent
    deployed,     \* the relay instances that run
    durable,      \* the consumer deduplicates with DbDedupe
    relay,        \* rows each relay has locked, and how many it has published
    log,          \* the partition: event ids, 0 for bytes that do not decode
    polled,       \* the batch being handled: first and last offset, next to handle
    position,     \* offset of the consumer's next poll
    committed,    \* committed offset of the group
    markers,      \* deduplication markers
    effects,      \* effects applied, per event
    handled,      \* history: offsets that were dealt with cleanly
    dropped,      \* history: offsets dropped with a batch whose handler raised
    expired,      \* history: events whose marker expired
    unlucky,      \* history: events whose marker outlived an unfinished effect
    troubles

producer == <<outbox, deployed, relay>>
consumer == <<polled, position, committed, markers, effects, handled, dropped, expired, unlucky>>
deliveryVars == <<producer, durable, log, consumer, troubles>>

Trouble == troubles < MaxTroubles /\ troubles' = troubles + 1

IdleRelay == [rows |-> <<>>, published |-> 0]
NoBatch == [first |-> 0, next |-> 0, last |-> 0, stage |-> "idle"]

-----------------------------------------------------------------------------
(* The producer: domain transactions and the outbox relays.                *)

(* add_event: the flush allocates the id.  The lock on the entity's row     *)
(* keeps a second transaction on it out until the first one has committed.  *)
AddEvent(k) ==
    /\ Len(outbox) < MaxEvents
    /\ \A i \in DOMAIN outbox : outbox[i].entity = k => outbox[i].visible
    /\ outbox' = Append(outbox, [entity |-> k, visible |-> FALSE, sent |-> FALSE])
    /\ UNCHANGED <<deployed, relay, durable, log, consumer, troubles>>

CommitEvent(i) ==
    /\ i \in DOMAIN outbox /\ ~ outbox[i].visible
    /\ outbox' = [outbox EXCEPT ![i].visible = TRUE]
    /\ UNCHANGED <<deployed, relay, durable, log, consumer, troubles>>

(* Mutant: a plain SELECT, without FOR UPDATE SKIP LOCKED. *)
NothingLocked(r) == {}

(* FOR UPDATE SKIP LOCKED: rows in the hands of another relay. *)
LockedByOthers(r) == UNION {ToSet(relay[o].rows) : o \in Relays \ {r}}

(* Mutant: the newest row goes first. *)
NewestFirst(batch) == SetToSortSeq(batch, >)

(* ORDER BY id. *)
OldestFirst(batch) == SetToSortSeq(batch, <)

(* Mutant: the relay remembers the last id it sent and asks for later ones, *)
(* so a row that commits after a row with a higher id is passed over.       *)
PastCursor ==
    {i \in DOMAIN outbox : outbox[i].visible /\ \A j \in DOMAIN outbox : j >= i => ~ outbox[j].sent}

(* WHERE published_at IS NULL: committed rows that were not marked. *)
Unpublished == {i \in DOMAIN outbox : outbox[i].visible /\ ~ outbox[i].sent}

(* The select of _drain_once: the oldest unpublished rows nobody has locked. *)
SelectBatch(r) ==
    LET free == Unpublished \ LockedByOthers(r)
        batch == {i \in free : Cardinality({j \in free : j < i}) < RelayBatch}
    IN  /\ r \in deployed /\ relay[r] = IdleRelay
        /\ batch # {}
        /\ relay' = [relay EXCEPT ![r].rows = OldestFirst(batch)]
        /\ UNCHANGED <<outbox, deployed, durable, log, consumer, troubles>>

(* Envelope.new and publish, for the next row of the batch. *)
PublishRow(r) ==
    /\ relay[r].published < Len(relay[r].rows)
    /\ Len(log) < MaxLog
    /\ log' = Append(log, relay[r].rows[relay[r].published + 1])
    /\ relay' = [relay EXCEPT ![r].published = @ + 1]
    /\ UNCHANGED <<outbox, deployed, durable, consumer, troubles>>

(* Mutant: only the last row of the batch is marked. *)
LastRow(r) == {relay[r].rows[Len(relay[r].rows)]}

(* The rows that _mark was executed for. *)
MarkedRows(r) == ToSet(relay[r].rows)

(* The one commit of the batch: all its rows are marked. *)
MarkBatch(r) ==
    /\ relay[r].rows # <<>> /\ relay[r].published = Len(relay[r].rows)
    /\ outbox' = [i \in DOMAIN outbox |-> [outbox[i] EXCEPT !.sent = @ \/ i \in MarkedRows(r)]]
    /\ relay' = [relay EXCEPT ![r] = IdleRelay]
    /\ UNCHANGED <<deployed, durable, log, consumer, troubles>>

(* Mutant: an exception ends the relay's loop. *)
LoopDies(r) == deployed \ {r}

(* run catches what a drain raises and goes on. *)
LoopSurvives(r) == deployed

(* A publish or the commit fails, or the process dies and is restarted: the *)
(* session rolls back and nothing is marked.                                *)
DrainFails(r) ==
    /\ relay[r] # IdleRelay
    /\ Trouble
    /\ deployed' = LoopSurvives(r)
    /\ relay' = [relay EXCEPT ![r] = IdleRelay]
    /\ UNCHANGED <<outbox, durable, log, consumer>>

(* Another producer writes bytes to the topic that do not decode. *)
PoisonMessage ==
    /\ Len(log) < MaxLog
    /\ Trouble
    /\ log' = Append(log, 0)
    /\ UNCHANGED <<producer, durable, consumer>>

-----------------------------------------------------------------------------
(* The consumer.                                                           *)

(* Mutant: offsets are committed by the poll. *)
CommitsOnPoll(last) == last

(* enable_auto_commit=False: a poll commits nothing. *)
CommittedByPoll(last) == committed

(* getmany moves the position past what it returns. *)
Poll ==
    /\ polled = NoBatch
    /\ position < Len(log)
    /\ LET last == Min({Len(log), position + PollSize})
       IN  /\ polled' = [first |-> position + 1, next |-> position + 1, last |-> last, stage |-> "handle"]
           /\ position' = last
           /\ committed' = CommittedByPoll(last)
    /\ UNCHANGED <<producer, durable, log, markers, effects, handled, dropped, expired, unlucky, troubles>>

Handling(stage) == polled.stage = stage /\ polled.next <= polled.last
Current == log[polled.next]
NextMessage == polled' = [polled EXCEPT !.next = @ + 1, !.stage = "handle"]

(* A message that does not decode, or that a marker identifies as done, is  *)
(* passed over.                                                             *)
SkipMessage ==
    /\ Handling("handle")
    /\ Current = 0 \/ ~ ClaimsMarker(markers, Current)
    /\ handled' = handled \cup {polled.next}
    /\ NextMessage
    /\ UNCHANGED <<producer, durable, log, position, committed, markers, effects, dropped, expired, unlucky, troubles>>

(* RedisDedupe.run_once claims the marker before it runs the handler. *)
ClaimMarker ==
    /\ Handling("handle")
    /\ Current # 0 /\ ~ durable /\ ClaimsMarker(markers, Current)
    /\ markers' = MarkersAfter(markers, Current, FALSE)
    /\ polled' = [polled EXCEPT !.stage = "effect"]
    /\ UNCHANGED <<producer, durable, log, position, committed, effects, handled, dropped, expired, unlucky, troubles>>

(* The handler's own transaction.  With DbDedupe the marker is a row of the *)
(* same transaction.                                                        *)
ApplyEffect ==
    /\ \/ Handling("effect")
       \/ Handling("handle") /\ Current # 0 /\ durable /\ ClaimsMarker(markers, Current)
    /\ markers' = MarkersAfter(markers, Current, FALSE)
    /\ effects' = [effects EXCEPT ![Current] = @ + 1]
    /\ handled' = handled \cup {polled.next}
    /\ NextMessage
    /\ UNCHANGED <<producer, durable, log, position, committed, dropped, expired, unlucky, troubles>>

(* The handler raises: the marker goes, the rest of the batch is dropped    *)
(* and only what came before is committed.                                  *)
HandlerRaises ==
    /\ \/ Handling("effect")
       \/ Handling("handle") /\ Current # 0 /\ durable /\ ClaimsMarker(markers, Current)
    /\ Trouble
    /\ markers' = MarkersAfter(markers, Current, TRUE)
    /\ dropped' = dropped \cup polled.next..polled.last
    /\ polled' = [polled EXCEPT !.last = polled.next - 1, !.stage = "handle"]
    /\ UNCHANGED <<producer, durable, log, position, committed, effects, handled, expired, unlucky>>

(* The offset after the last message that was handled. *)
CleanPrefix == polled.next - 1

(* The commit at the end of _process_partition, if anything was handled. *)
CommitOffset ==
    /\ polled # NoBatch /\ polled.next > polled.last
    /\ committed' = IF polled.next > polled.first THEN CleanPrefix ELSE committed
    /\ polled' = NoBatch
    /\ UNCHANGED <<producer, durable, log, position, markers, effects, handled, dropped, expired, unlucky, troubles>>

(* Mutant: a restarted consumer starts at the end of the partition. *)
LatestOffset == Len(log)

(* auto_offset_reset="earliest", and the group's committed offset after     *)
(* that.                                                                    *)
ResumeOffset == committed

(* The consumer dies or loses the partition, and resumes from the committed *)
(* offset.                                                                  *)
ConsumerRestarts ==
    /\ Trouble
    /\ unlucky' = IF polled.stage = "effect" THEN unlucky \cup {Current} ELSE unlucky
    /\ polled' = NoBatch
    /\ position' = ResumeOffset
    /\ UNCHANGED <<producer, durable, log, committed, markers, effects, handled, dropped, expired>>

(* Redis drops a marker after its time to live. *)
MarkerExpires(e) ==
    /\ ~ durable /\ e \in markers
    /\ Trouble
    /\ markers' = markers \ {e}
    /\ expired' = expired \cup {e}
    /\ UNCHANGED <<producer, durable, log, polled, position, committed, effects, handled, dropped, unlucky>>

-----------------------------------------------------------------------------
DeliveryInit ==
    /\ outbox = <<>>
    /\ deployed \in Deployments
    /\ durable \in BOOLEAN
    /\ relay = [r \in Relays |-> IdleRelay]
    /\ log = <<>>
    /\ polled = NoBatch /\ position = 0 /\ committed = 0
    /\ markers = {} /\ effects = [e \in 1..MaxEvents |-> 0]
    /\ handled = {} /\ dropped = {} /\ expired = {} /\ unlucky = {}
    /\ troubles = 0

DrainStep == \E r \in Relays : SelectBatch(r) \/ PublishRow(r) \/ MarkBatch(r)
ConsumeStep == Poll \/ SkipMessage \/ ClaimMarker \/ ApplyEffect \/ CommitOffset

DeliveryNext ==
    \/ \E k \in Entities : AddEvent(k)
    \/ \E i \in DOMAIN outbox : CommitEvent(i)
    \/ DrainStep
    \/ \E r \in Relays : DrainFails(r)
    \/ PoisonMessage
    \/ ConsumeStep
    \/ HandlerRaises
    \/ ConsumerRestarts
    \/ \E e \in markers : MarkerExpires(e)

DeliverySpec == DeliveryInit /\ [][DeliveryNext]_deliveryVars

-----------------------------------------------------------------------------
(* Properties.                                                             *)

(* Rows are locked by one relay at a time, and the group never commits more *)
(* than it was given.                                                       *)
DeliveryTypeOK ==
    /\ \A r, o \in Relays : r # o => ToSet(relay[r].rows) \cap ToSet(relay[o].rows) = {}
    /\ \A r \in Relays : relay[r].published \in 0..Len(relay[r].rows)
    /\ ToSet(log) \subseteq {0} \cup {i \in DOMAIN outbox : outbox[i].visible}
    /\ committed <= position /\ position <= Len(log)
    /\ {r \in Relays : relay[r] # IdleRelay} \subseteq deployed

Copies(e) == Cardinality({n \in DOMAIN log : log[n] = e})

(* "Multiple relay instances coexist without double-publishing"             *)
(* (OutboxRelay): as long as no drain fails, an event is on the bus at most *)
(* once, also while several relays drain the same outbox.                   *)
PublishedOnce == troubles = 0 => \A e \in DOMAIN outbox : Copies(e) <= 1

(* With a single relay the events of an entity are first published in the   *)
(* order of their transactions, also when a drain fails half way.  With two *)
(* relays that order can be lost.                                           *)
OneRelayKeepsOrder ==
    Cardinality(deployed) = 1 =>
        \A e, f \in DOMAIN outbox :
            e < f /\ outbox[e].entity = outbox[f].entity /\ Copies(f) > 0 => Copies(e) > 0

(* An event takes effect at most once, however often it is published or     *)
(* redelivered, unless its marker expired meanwhile: RedisDedupe is best    *)
(* effort, DbDedupe is "a true exactly-once effect".                        *)
EffectOnce ==
    \A e \in DOMAIN effects : effects[e] > 1 => e \in expired /\ ~ durable

(* Offsets are committed "only after a clean handle" (KafkaConsumer), but   *)
(* for the messages of a batch that was cut short: the next poll starts     *)
(* after them, and its commit passes over them.                             *)
CommittedHandledOrDropped == 1..committed \subseteq handled \cup dropped

(* KafkaConsumer: "committing offsets only after a clean handle"; the       *)
(* failed message of a batch and the rest redeliver.                        *)
CommittedAfterHandle == 1..committed \subseteq handled

(* Every committed event reaches the bus: what a failed drain left unmarked *)
(* is selected again.                                                       *)
CommittedEventsPublished ==
    \A e \in 1..MaxEvents : (e \in DOMAIN outbox /\ outbox[e].visible) ~> Copies(e) > 0

LostWithBatch(e) == \E n \in dropped : log[n] = e

(* An event on the bus takes effect, unless its handler raised and the      *)
(* batch was dropped, or the consumer died between the claim of the marker  *)
(* and the effect.  With DbDedupe only the first of these can happen.       *)
PublishedEventsTakeEffect ==
    \A e \in 1..MaxEvents :
        Copies(e) > 0 ~> (effects[e] > 0 \/ LostWithBatch(e) \/ (e \in unlucky /\ ~ durable))

(* The outbox, the relays and the consumer together: without a failure an   *)
(* event is published once, by one relay in order, it takes effect once     *)
(* however often it is delivered, and an offset is committed only past what *)
(* was handled or dropped with its batch.                                   *)
DeliveredOnce ==
    /\ DeliveryTypeOK /\ PublishedOnce /\ OneRelayKeepsOrder
    /\ EffectOnce /\ CommittedHandledOrDropped

(* Every committed event is published by run_forever in the end, and takes  *)
(* effect unless its batch was dropped or, without DbDedupe, its consumer   *)
(* died between the marker and the effect.                                  *)
EventsArrive ==
    CommittedEventsPublished /\ PublishedEventsTakeEffect
=============================================================================
