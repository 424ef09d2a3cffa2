--------------------------- MODULE Notifications ---------------------------
(***************************************************************************)
(* notification-service: intake of an event into an inbox row and one       *)
(* delivery per channel, the Celery tasks that send deliveries with         *)
(* retries, the inbox, and the preferences of a recipient.                  *)
(*                                                                          *)
(* Intake commits its rows and enqueues their tasks afterwards.  A worker   *)
(* reads the row, calls the provider and writes the row back, each a step   *)
(* of its own; the broker may hand out a task again (acks_late).  The bus   *)
(* marker in front of intake only keeps some intakes from running.          *)
(***************************************************************************)
EXTENDS Integers, FiniteSets

CONSTANTS
    Notices,         \* events: [id, kind, user, addr, contacts]
    Templated,       \* event kinds with seeded templates
    IntakeWorkers,   \* intakes in progress at a time
    TaskWorkers,     \* Celery worker processes
    PrefWriters,     \* PUT requests in progress at a time
    PrefPatches,     \* [column, key, on]: one flag a PUT may send
    MaxRetries,      \* 5 in the code
    MaxNoticeCalls,      \* bound on intakes and PUTs
    MaxNoticeTroubles   \* bound on crashes and redeliveries

ASSUME NotificationsAssumption ==
    /\ \A e \in Notices : (e.user \/ e.addr) /\ e.contacts \subseteq {"sms", "email"}
    /\ {MaxRetries, MaxNoticeCalls, MaxNoticeTroubles} \subseteq Nat

VARIABLES
    inbox,        \* inbox rows, per event
    deliveries,   \* delivery rows by id
    intake,       \* intakes in progress
    tasks,        \* tasks waiting in the broker, with those waiting for a countdown
    running,      \* the task of each worker
    prefRow,      \* the preferences row of the recipient
    putting,      \* PUTs in progress
    sends,        \* messages the providers accepted, per dedupe key
    rerun,        \* history: tasks handed out again, per key, while the row was unfinished
    twins,        \* history: ids with two tasks at a time
    orphans,      \* history: ids whose task was never enqueued
    noticeCalls, noticeTroubles

noticeRows == <<inbox, deliveries>>
noticeHistory == <<sends, rerun, twins, orphans>>
noticeVars == <<noticeRows, intake, tasks, running, prefRow, putting, noticeHistory,
                noticeCalls, noticeTroubles>>

Channels == {"sms", "email"}
Finals == {"SENT", "EXHAUSTED"}

(* A dedupe key is the event and the channel; the id is the inserting       *)
(* intake's own.                                                            *)
DedupeKeys == UNION {{e} \X e.contacts : e \in Notices}
Ids == DedupeKeys \X IntakeWorkers
KeyOf(id) == id[1]
ChannelOf(id) == id[1][2]

NoDelivery == [status |-> "absent", attempts |-> 0]
DeliveryRows == [status : {"QUEUED", "FAILED"} \cup Finals, attempts : Nat]
NoticeTrouble == noticeTroubles < MaxNoticeTroubles /\ noticeTroubles' = noticeTroubles + 1

-----------------------------------------------------------------------------
(* Preferences: the flags of a recipient that are off.                      *)

(* default_preferences: everything is on. *)
AllOn == [channels |-> {}, events |-> {}]
NoPrefs == [channels |-> {"none"}, events |-> {"none"}]
Effective(row) == IF row = NoPrefs THEN AllOn ELSE row

Allows(row, kind, channel) ==
    kind \notin Effective(row).events /\ channel \notin Effective(row).channels

(* Mutant: the flags that were not sent go back to their defaults. *)
PatchOverDefaults(row, patch) ==
    [AllOn EXCEPT ![patch.column] = IF patch.on THEN {} ELSE {patch.key}]

(* merge_preferences of the caller's flags over the row that was read. *)
MergePreferences(row, patch) ==
    [Effective(row) EXCEPT ![patch.column] = IF patch.on THEN @ \ {patch.key} ELSE @ \cup {patch.key}]

NoPut == [busy |-> FALSE]

BeginPut(p, patch) ==
    /\ putting[p] = NoPut
    /\ noticeCalls < MaxNoticeCalls /\ noticeCalls' = noticeCalls + 1
    /\ putting' = [putting EXCEPT ![p] = [busy |-> TRUE, patch |-> patch, read |-> prefRow]]
    /\ UNCHANGED <<noticeRows, intake, tasks, running, prefRow, noticeHistory, noticeTroubles>>

(* upsert_preferences.  The session writes the columns that differ from the *)
(* row it loaded; a row that appeared since the first read is loaded then.  *)
UpsertPreferences(p) ==
    LET put == putting[p]
        merged == MergePreferences(put.read, put.patch)
        loaded == IF put.read = NoPrefs THEN prefRow ELSE put.read
    IN  /\ put.busy
        /\ prefRow' = [c \in {"channels", "events"} |->
                          IF prefRow # NoPrefs /\ merged[c] = loaded[c] THEN prefRow[c] ELSE merged[c]]
        /\ putting' = [putting EXCEPT ![p] = NoPut]
        /\ UNCHANGED <<noticeRows, intake, tasks, running, noticeHistory, noticeCalls, noticeTroubles>>

(* Another PUT inserted the recipient's first row after the second read. *)
InsertPreferencesConflicts(p) ==
    /\ putting[p].busy
    /\ putting[p].read = NoPrefs /\ prefRow # NoPrefs
    /\ putting' = [putting EXCEPT ![p] = NoPut]
    /\ UNCHANGED <<noticeRows, intake, tasks, running, prefRow, noticeHistory, noticeCalls, noticeTroubles>>

-----------------------------------------------------------------------------
(* Intake.                                                                 *)

NoIntake == [stage |-> "idle"]

FoundKeys == {k \in DedupeKeys : \E id \in Ids : KeyOf(id) = k /\ deliveries[id] # NoDelivery}

KnownEvents == {"paylink.created", "paylink.verified", "paylink.cancelled", "payment.failed"}

(* NotificationEventConsumer.handle: known, and there is someone to tell. *)
HasRecipient(e) == e.kind \in KnownEvents /\ (e.user \/ e.addr)

(* intake reads the preferences and looks for deliveries it made before. *)
BeginIntake(w, e) ==
    /\ intake[w] = NoIntake /\ HasRecipient(e)
    /\ noticeCalls < MaxNoticeCalls /\ noticeCalls' = noticeCalls + 1
    /\ intake' = [intake EXCEPT ![w] =
                     [stage |-> "write", event |-> e, found |-> FoundKeys,
                      prefs |-> IF e.addr THEN prefRow ELSE NoPrefs]]
    /\ UNCHANGED <<noticeRows, tasks, running, prefRow, putting, noticeHistory, noticeTroubles>>

(* resolve_for_event: the channels with an active template. *)
TemplatesFor(kind) == IF kind \in Templated THEN Channels ELSE {}

(* Mutant: no unique index on the dedupe key. *)
NoUniqueKey(key) == TRUE

(* insert_delivery: deliveries_dedupe_uidx decides. *)
DeliveryKeyFree(key) == key \notin FoundKeys

(* resolve and address_for: a channel without a contact is skipped. *)
HasAddress(e, channel) == channel \in e.contacts

(* The deliveries intake inserts: allowed, with a contact, and new. *)
NewDeliveries(w) ==
    LET e == intake[w].event
        wanted == {c \in TemplatesFor(e.kind) : Allows(intake[w].prefs, e.kind, c) /\ HasAddress(e, c)}
    IN  {id \in {<<<<e, c>>, w>> : c \in IF e.user THEN wanted ELSE {}} :
             KeyOf(id) \notin intake[w].found /\ DeliveryKeyFree(KeyOf(id))}

(* Mutant: the row of a known event is written anew. *)
InboxReplaced(e) == "unread"

(* insert_inbox: the unique index on the dedupe key decides. *)
InboxKeyFree(e) == inbox[e] = "absent"

(* _write_inbox: a row of the same dedupe key is left as it is. *)
InboxInserted(e) == IF InboxKeyFree(e) THEN "unread" ELSE inbox[e]

(* The one commit of intake. *)
CommitIntake(w) ==
    LET e == intake[w].event
        new == NewDeliveries(w)
    IN  /\ intake[w].stage = "write"
        /\ e.user => TemplatesFor(e.kind) # {}
        /\ inbox' = IF e.addr /\ Allows(intake[w].prefs, e.kind, "in_app")
                    THEN [inbox EXCEPT ![e] = InboxInserted(e)] ELSE inbox
        /\ deliveries' = [id \in Ids |-> IF id \in new THEN [status |-> "QUEUED", attempts |-> 0]
                                                       ELSE deliveries[id]]
        /\ intake' = [intake EXCEPT ![w] = IF new = {} THEN NoIntake
                                           ELSE [stage |-> "enqueue", ids |-> new]]
        /\ UNCHANGED <<tasks, running, prefRow, putting, noticeHistory, noticeCalls, noticeTroubles>>

(* TEMPLATE_NOT_FOUND: the session rolls back, the inbox row with it. *)
IntakeRefused(w) ==
    /\ intake[w].stage = "write"
    /\ intake[w].event.user /\ TemplatesFor(intake[w].event.kind) = {}
    /\ intake' = [intake EXCEPT ![w] = NoIntake]
    /\ UNCHANGED <<noticeRows, tasks, running, prefRow, putting, noticeHistory, noticeCalls, noticeTroubles>>

NewTask(id) == [id |-> id, retries |-> 0, twin |-> FALSE]

(* _enqueue, after the commit. *)
Enqueue(w) ==
    /\ intake[w].stage = "enqueue"
    /\ tasks' = tasks \cup {NewTask(id) : id \in intake[w].ids}
    /\ intake' = [intake EXCEPT ![w] = NoIntake]
    /\ UNCHANGED <<noticeRows, running, prefRow, putting, noticeHistory, noticeCalls, noticeTroubles>>

(* The broker refuses some of the tasks, or the process dies before it has  *)
(* enqueued them.                                                           *)
EnqueueFails(w, lost) ==
    /\ intake[w].stage = "enqueue"
    /\ lost \subseteq intake[w].ids /\ lost # {}
    /\ NoticeTrouble
    /\ tasks' = tasks \cup {NewTask(id) : id \in intake[w].ids \ lost}
    /\ orphans' = orphans \cup lost
    /\ intake' = [intake EXCEPT ![w] = NoIntake]
    /\ UNCHANGED <<noticeRows, running, prefRow, putting, sends, rerun, twins, noticeCalls>>

-----------------------------------------------------------------------------
(* Delivery.                                                               *)

NoTask == [stage |-> "idle"]

(* Mutant: what has been given up is tried again. *)
OnlySent(status) == status = "SENT"

Finished(status) == status \in Finals

(* run_once reads the row; a finished delivery is a no-op. *)
TakeTask(p, t) ==
    /\ running[p] = NoTask
    /\ tasks' = tasks \ {t}
    /\ running' = IF Finished(deliveries[t.id].status) THEN running
                  ELSE [running EXCEPT ![p] = [stage |-> "send", task |-> t,
                                               attempts |-> deliveries[t.id].attempts]]
    /\ UNCHANGED <<noticeRows, intake, prefRow, putting, noticeHistory, noticeCalls, noticeTroubles>>

(* The provider accepts the message, or SendError. *)
SendDelivery(p, accepted) ==
    /\ running[p].stage = "send"
    /\ running' = [running EXCEPT ![p].stage = IF accepted THEN "sent" ELSE "failed"]
    /\ sends' = IF accepted THEN [sends EXCEPT ![KeyOf(running[p].task.id)] = @ + 1] ELSE sends
    /\ UNCHANGED <<noticeRows, intake, tasks, prefRow, putting, rerun, twins, orphans, noticeCalls,
                   noticeTroubles>>

WriteOutcome(p, id, row) ==
    /\ deliveries' = [deliveries EXCEPT ![id] = row]
    /\ running' = [running EXCEPT ![p] = NoTask]
    /\ UNCHANGED <<inbox, intake, prefRow, putting, noticeHistory, noticeCalls, noticeTroubles>>

(* mark_sent leaves the count of attempts alone. *)
MarkSent(p) ==
    LET id == running[p].task.id
    IN  /\ running[p].stage = "sent"
        /\ WriteOutcome(p, id, [deliveries[id] EXCEPT !.status = "SENT"])
        /\ UNCHANGED tasks

(* Mutant: one countdown more than the schedule has. *)
CountdownPastEnd(attempts) == attempts <= MaxRetries + 1

(* next_countdown is not None. *)
NextCountdown(attempts) == attempts \in 1..MaxRetries

(* Mutant: Celery gives up one retry before the schedule does. *)
OneRetryLess(t) == t.retries + 1 < MaxRetries

(* self.retry: Celery refuses after the task's max_retries. *)
CeleryRetries(t) == t.retries < MaxRetries

(* mark_failed, then the retry. *)
MarkFailed(p) ==
    LET t == running[p].task
        attempts == running[p].attempts + 1
    IN  /\ running[p].stage = "failed"
        /\ NextCountdown(attempts)
        /\ WriteOutcome(p, t.id, [status |-> "FAILED", attempts |-> attempts])
        /\ tasks' = IF CeleryRetries(t)
                    THEN tasks \cup {[t EXCEPT !.retries = @ + 1]} ELSE tasks

MarkExhausted(p) ==
    LET t == running[p].task
        attempts == running[p].attempts + 1
    IN  /\ running[p].stage = "failed"
        /\ ~ NextCountdown(attempts)
        /\ WriteOutcome(p, t.id, [status |-> "EXHAUSTED", attempts |-> attempts])
        /\ UNCHANGED tasks

(* Rerunning a task that had not finished its delivery. *)
CountRerun(id) ==
    rerun' = IF deliveries[id].status \in Finals THEN rerun ELSE [rerun EXCEPT ![KeyOf(id)] = @ + 1]

(* A worker dies before it acknowledged its task: the broker hands the task *)
(* out again.                                                               *)
WorkerDies(p) ==
    /\ running[p] # NoTask
    /\ NoticeTrouble
    /\ tasks' = tasks \cup {running[p].task}
    /\ running' = [running EXCEPT ![p] = NoTask]
    /\ CountRerun(running[p].task.id)
    /\ UNCHANGED <<noticeRows, intake, prefRow, putting, sends, twins, orphans, noticeCalls>>

(* A worker dies after its last write, and before the acknowledgement. *)
TaskRedelivered(id) ==
    /\ deliveries[id].status \in Finals
    /\ \A p \in TaskWorkers : running[p] = NoTask
    /\ NoticeTrouble
    /\ tasks' = tasks \cup {NewTask(id)}
    /\ UNCHANGED <<noticeRows, intake, running, prefRow, putting, noticeHistory, noticeCalls>>

(* A task that runs, or waits for its countdown, for longer than the        *)
(* broker's visibility timeout is handed to a second worker.                *)
TaskDuplicated(t) ==
    /\ ~ t.twin
    /\ NoticeTrouble
    /\ tasks' = tasks \cup {[t EXCEPT !.twin = TRUE]}
    /\ twins' = twins \cup {t.id}
    /\ CountRerun(t.id)
    /\ UNCHANGED <<noticeRows, intake, running, prefRow, putting, sends, orphans, noticeCalls>>

-----------------------------------------------------------------------------
(* The inbox.                                                              *)

(* mark_inbox_read of one row. *)
ReadRow(e) == IF inbox[e] = "unread" THEN "read" ELSE inbox[e]

MarkInboxRead(e) ==
    /\ inbox[e] # "absent"
    /\ inbox' = [inbox EXCEPT ![e] = ReadRow(e)]
    /\ UNCHANGED <<deliveries, intake, tasks, running, prefRow, putting, noticeHistory, noticeCalls,
                   noticeTroubles>>

MarkAllInboxRead ==
    /\ \E e \in Notices : inbox[e] = "unread"
    /\ inbox' = [e \in Notices |-> ReadRow(e)]
    /\ UNCHANGED <<deliveries, intake, tasks, running, prefRow, putting, noticeHistory, noticeCalls,
                   noticeTroubles>>

-----------------------------------------------------------------------------
NoticeInit ==
    /\ inbox = [e \in Notices |-> "absent"]
    /\ deliveries = [id \in Ids |-> NoDelivery]
    /\ intake = [w \in IntakeWorkers |-> NoIntake]
    /\ tasks = {} /\ running = [p \in TaskWorkers |-> NoTask]
    /\ prefRow = NoPrefs /\ putting = [p \in PrefWriters |-> NoPut]
    /\ sends = [k \in DedupeKeys |-> 0] /\ rerun = [k \in DedupeKeys |-> 0]
    /\ twins = {} /\ orphans = {}
    /\ noticeCalls = 0 /\ noticeTroubles = 0

IntakeStep == \E w \in IntakeWorkers : CommitIntake(w) \/ IntakeRefused(w) \/ Enqueue(w)
TaskStep(p) ==
    \/ \E t \in tasks : TakeTask(p, t)
    \/ \E accepted \in BOOLEAN : SendDelivery(p, accepted)
    \/ MarkSent(p) \/ MarkFailed(p) \/ MarkExhausted(p)

NoticeNext ==
    \/ \E w \in IntakeWorkers, e \in Notices : BeginIntake(w, e)
    \/ IntakeStep
    \/ \E w \in IntakeWorkers : intake[w].stage = "enqueue"
                                  /\ \E lost \in SUBSET intake[w].ids : EnqueueFails(w, lost)
    \/ \E p \in TaskWorkers : TaskStep(p) \/ WorkerDies(p)
    \/ \E id \in Ids : TaskRedelivered(id)
    \/ \E t \in tasks \cup {running[p].task : p \in {q \in TaskWorkers : running[q] # NoTask}} :
           TaskDuplicated(t)
    \/ \E p \in PrefWriters, patch \in PrefPatches : BeginPut(p, patch)
    \/ \E p \in PrefWriters : UpsertPreferences(p) \/ InsertPreferencesConflicts(p)
    \/ \E e \in Notices : MarkInboxRead(e)
    \/ MarkAllInboxRead

NoticeSpec == NoticeInit /\ [][NoticeNext]_noticeVars

-----------------------------------------------------------------------------
(* Properties.                                                             *)

(* A delivery is attempted MAX_RETRIES times after the first, and every     *)
(* task belongs to a committed row ("after commit: the worker must see a    *)
(* persisted row").                                                         *)
NoticeTypeOK ==
    /\ deliveries \in [Ids -> DeliveryRows \cup {NoDelivery}]
    /\ \A id \in Ids : deliveries[id].status = "FAILED" => deliveries[id].attempts \in 1..MaxRetries
    /\ \A t \in tasks : deliveries[t.id] # NoDelivery /\ t.retries <= MaxRetries
    /\ \A p \in TaskWorkers : running[p] # NoTask => deliveries[running[p].task.id] # NoDelivery

(* "One event -> one delivery" (deliveries_dedupe_uidx): a provider accepts *)
(* a message twice only if a task was handed out again before its delivery  *)
(* was finished, and no more often than that, however many intakes of the   *)
(* event run at a time.                                                     *)
SentTwiceOnlyByRerun ==
    \A k \in DedupeKeys : sends[k] <= 1 + rerun[k]

(* SENT and EXHAUSTED are final, but for a second task of the same delivery *)
(* that read the row before.                                                *)
FinalUnlessTwin ==
    [][\A id \in Ids : deliveries[id].status \in Finals /\ id \notin twins
           => deliveries'[id] = deliveries[id]]_noticeVars

(* A redelivered event never makes a notification unread again. *)
ReadStaysRead == [][\A e \in Notices : inbox[e] = "read" => inbox'[e] = "read"]_noticeVars

(* "PUT is a patch - only the keys you send change" (api/v1/preferences): a *)
(* flag changes only by a PUT that sent it, or by one whose copy of that    *)
(* column had become stale.                                                 *)
PutChangesOnlyItsKeys ==
    [][\A c \in {"channels", "events"} : prefRow'[c] # prefRow[c] =>
           \E p \in PrefWriters :
               /\ putting[p].busy /\ ~ putting'[p].busy
               /\ \/ Effective(putting[p].read)[c] # Effective(prefRow)[c]
                  \/ /\ putting[p].patch.column = c
                     /\ \A k \in Effective(prefRow')[c] \cup Effective(prefRow)[c] :
                            k \in Effective(prefRow')[c] \cap Effective(prefRow)[c]
                              \/ k = putting[p].patch.key
                  \/ prefRow = NoPrefs /\ prefRow'[c] = {}]_noticeVars

(* Every committed delivery is sent or given up, unless its task was never  *)
(* enqueued or was run by two workers at a time.                            *)
DeliveriesFinish ==
    \A id \in Ids : deliveries[id] # NoDelivery ~>
        (deliveries[id].status \in Finals \/ id \in orphans \/ id \in twins)

(* Deliveries end and end once: each is sent or given up after MAX_RETRIES  *)
(* unless its task was lost, is sent again only if its task ran again, and  *)
(* then keeps its status; a redelivery unreads nothing, and a PUT of        *)
(* preferences changes what it sent.                                        *)
NoticesDelivered ==
    /\ [](NoticeTypeOK /\ SentTwiceOnlyByRerun)
    /\ FinalUnlessTwin /\ ReadStaysRead /\ PutChangesOnlyItsKeys
    /\ DeliveriesFinish
=============================================================================
