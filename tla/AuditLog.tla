------------------------------ MODULE AuditLog ------------------------------
(***************************************************************************)
(* audit-log-service: requests append entries to a hash chain under one     *)
(* lock, while others verify a part of it in several statements and rows    *)
(* may be damaged by other hands.                                           *)
(*                                                                          *)
(* A hash is the pair that was hashed: no two inputs have the same.         *)
(***************************************************************************)
EXTENDS Integers, FiniteSets

CONSTANTS
    LogWriters,        \* requests that append
    LogTimes,          \* values of occurred_at, which writers may supply
    MaxEntryId,        \* bound on entry_id
    MaxChecks          \* bound on verifications

ASSUME AuditLogAssumption == LogTimes \subseteq Nat \ {0} /\ {MaxEntryId, MaxChecks} \subseteq Nat

VARIABLES
    logRows,      \* audit.entries, by entry_id
    lastId,       \* the identity column's sequence
    appending,    \* transactions that hold or wait for the lock
    checking,     \* a call of VerifyRange
    checks,
    damage        \* history: what was done to the rows from outside

auditVars == <<logRows, lastId, appending, checking, checks, damage>>

Genesis == <<>>
NoAppend == [stage |-> "none"]
NoCheck == [stage |-> "none"]
NoTime == 0
Edited == <<0>>   \* neither a content nor a hash
Undamaged == [kind |-> "none", id |-> 0, next |-> 0]

LeastId(ids) == CHOOSE i \in ids : \A j \in ids : i <= j
GreatestId(ids) == CHOOSE i \in ids : \A j \in ids : j <= i
Ids == DOMAIN logRows
HashBefore(id) ==
    LET earlier == {i \in Ids : i < id}
    IN  IF earlier = {} THEN Genesis ELSE logRows[GreatestId(earlier)].hash

-----------------------------------------------------------------------------
(* Append.                                                                  *)

(* Mutant: appends are not serialized. *)
NoLock == TRUE

(* pg_advisory_xact_lock. *)
LockFree == \A w \in LogWriters : appending[w] = NoAppend

ReadTail(w, at) ==
    /\ appending[w] = NoAppend /\ LockFree
    /\ appending' = [appending EXCEPT ![w] = [stage |-> "linked", at |-> at, prev |-> HashBefore(MaxEntryId + 1)]]
    /\ UNCHANGED <<logRows, lastId, checking, checks, damage>>

(* BuildEntry: of what is hashed, occurred_at stands for all. *)
BuildEntry(w) ==
    LET a == appending[w]
    IN  [at |-> a.at, prev |-> a.prev, canonical |-> <<a.at>>, hash |-> <<a.prev, <<a.at>>>>]

InsertEntry(w) ==
    /\ appending[w] # NoAppend /\ lastId < MaxEntryId
    /\ lastId' = lastId + 1
    /\ logRows' = [i \in Ids \cup {lastId'} |-> IF i = lastId' THEN BuildEntry(w) ELSE logRows[i]]
    /\ appending' = [appending EXCEPT ![w] = NoAppend]
    /\ UNCHANGED <<checking, checks, damage>>

(* A rollback does not give the id back. *)
AppendFails(w) ==
    /\ appending[w] # NoAppend
    /\ lastId' \in {lastId, lastId + 1} /\ lastId' <= MaxEntryId
    /\ appending' = [appending EXCEPT ![w] = NoAppend]
    /\ UNCHANGED <<logRows, checking, checks, damage>>

-----------------------------------------------------------------------------
(* VerifyRange: every step is a statement with a snapshot of its own.       *)

(* Mutant: the bounds are those of the entries in the range of times that   *)
(* came first.                                                              *)
FirstUpTo(to) == {i \in Ids : to # NoTime => \A j \in Ids : j <= i => logRows[j].at <= to}

UpTo(to) == {i \in Ids : to = NoTime \/ logRows[i].at <= to}
Since(from) == {i \in Ids : from = NoTime \/ logRows[i].at >= from}

FindStart(from, to) ==
    /\ checking = NoCheck /\ checks < MaxChecks
    /\ checks' = checks + 1
    /\ Since(from) # {}
    /\ checking' = [stage |-> "start", from |-> from, to |-> to, start |-> LeastId(Since(from)),
                    asked |-> Since(from) \cap {i \in Ids : to = NoTime \/ logRows[i].at <= to},
                    disturbed |-> FALSE]
    /\ UNCHANGED <<logRows, lastId, appending, damage>>

(* asked is what the caller wanted to know about: the entries of its range  *)
(* at the beginning.  Nothing between the bounds is fine.                   *)
Verdict(end, brokenAt) ==
    [stage |-> "done", start |-> checking.start, end |-> end, brokenAt |-> brokenAt,
     asked |-> checking.asked, disturbed |-> checking.disturbed]

FindEnd ==
    /\ checking.stage = "start"
    /\ checking' = IF UpTo(checking.to) = {} \/ GreatestId(UpTo(checking.to)) < checking.start
                   THEN Verdict(0, 0)
                   ELSE [stage |-> "end", start |-> checking.start, end |-> GreatestId(UpTo(checking.to)),
                         asked |-> checking.asked, disturbed |-> checking.disturbed]
    /\ UNCHANGED <<logRows, lastId, appending, checks, damage>>

(* Mutant: the walk of a part begins as that of the whole. *)
SeedGenesis(start) == Genesis

Seed(start) == HashBefore(start)

FindSeed ==
    /\ checking.stage = "end"
    /\ checking' = [stage |-> "seed", start |-> checking.start, end |-> checking.end,
                    expected |-> Seed(checking.start),
                    asked |-> checking.asked, disturbed |-> checking.disturbed]
    /\ UNCHANGED <<logRows, lastId, appending, checks, damage>>

(* Mutant: an entry is checked against itself only. *)
SelfOnly(id, expected) == logRows[id].hash = <<logRows[id].prev, logRows[id].canonical>>

CheckEntry(id, expected) ==
    /\ logRows[id].hash = <<logRows[id].prev, logRows[id].canonical>>
    /\ logRows[id].prev = expected

Walk ==
    /\ checking.stage = "seed"
    /\ LET segment == {i \in Ids : checking.start <= i /\ i <= checking.end}
           expected(i) == IF i = LeastId(segment) THEN checking.expected ELSE HashBefore(i)
           broken == {i \in segment : ~CheckEntry(i, expected(i))}
       IN  checking' = Verdict(checking.end, IF broken = {} THEN 0 ELSE LeastId(broken))
    /\ UNCHANGED <<logRows, lastId, appending, checks, damage>>

EndCheck ==
    /\ checking.stage = "done"
    /\ checking' = NoCheck
    /\ UNCHANGED <<logRows, lastId, appending, checks, damage>>

-----------------------------------------------------------------------------
(* Damage: one row is changed in what is hashed, or removed.                *)

Disturbs(record) ==
    /\ damage = Undamaged
    /\ damage' = record
    /\ checking' = IF checking = NoCheck THEN NoCheck ELSE [checking EXCEPT !.disturbed = TRUE]
    /\ UNCHANGED <<lastId, appending, checks>>

EditRow(id, column) ==
    /\ logRows' = [logRows EXCEPT ![id] = [@ EXCEPT ![column] = Edited]]
    /\ Disturbs([kind |-> "edited", id |-> id, next |-> 0])

RemoveRow(id) ==
    LET later == {i \in Ids : i > id}
    IN  /\ logRows' = [i \in Ids \ {id} |-> logRows[i]]
        /\ Disturbs([kind |-> "removed", id |-> id, next |-> IF later = {} THEN 0 ELSE LeastId(later)])

AuditInit ==
    /\ logRows = [i \in {} |-> 0] /\ lastId = 0
    /\ appending = [w \in LogWriters |-> NoAppend]
    /\ checking = NoCheck /\ checks = 0
    /\ damage = Undamaged

AuditNext ==
    \/ \E w \in LogWriters : (\E at \in LogTimes : ReadTail(w, at)) \/ InsertEntry(w) \/ AppendFails(w)
    \/ \E from, to \in LogTimes \cup {NoTime} : FindStart(from, to)
    \/ FindEnd \/ FindSeed \/ Walk \/ EndCheck
    \/ \E id \in Ids : RemoveRow(id) \/ \E column \in {"canonical", "prev", "hash"} : EditRow(id, column)

AuditSpec == AuditInit /\ [][AuditNext]_auditVars

-----------------------------------------------------------------------------
(* "Append MUST serialize against concurrent appends so prev_hash always    *)
(* links to the true tail": the entries form one line in the order of their *)
(* ids, over rollbacks that leave gaps.                                     *)
ChainIsLinear ==
    damage = Undamaged => \A id \in Ids : CheckEntry(id, HashBefore(id))

(* A verification of rows that nobody damaged finds no break, whatever was  *)
(* appended between its statements and wherever its range begins.           *)
NoFalseAlarm == checking.stage = "done" /\ damage = Undamaged => checking.brokenAt = 0

(* "a deleted/edited middle entry is detected via the linkage of the entry  *)
(* that follows it": damage done before a verification is reported, at the  *)
(* edited entry or at the one after the gap, if that one is between the     *)
(* bounds.                                                                  *)
DamageIsNamed ==
    checking.stage = "done" /\ ~checking.disturbed =>
        LET witness == IF damage.kind = "edited" THEN damage.id ELSE damage.next
        IN  witness \in checking.start..checking.end /\ witness # 0 => checking.brokenAt = witness

(* The bounds are ids although the range is one of times, which need not    *)
(* grow with the ids: every entry of the range that was there when the call *)
(* began lies between them.                                                 *)
RangeIsCovered ==
    checking.stage = "done" /\ ~checking.disturbed => checking.asked \subseteq checking.start..checking.end

(* VerifyChain over an audit log that grows while it reads: it raises no    *)
(* false alarm, covers the range that was asked for, and names the entry at *)
(* which damage shows.                                                      *)
VerificationExact ==
    NoFalseAlarm /\ DamageIsNamed /\ RangeIsCovered
=============================================================================
