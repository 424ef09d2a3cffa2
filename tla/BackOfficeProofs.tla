-------------------------- MODULE BackOfficeProofs --------------------------
(***************************************************************************)
(* The reads of the back office, escrows, the audit log and the risk       *)
(* engine, for any staff, providers, parties, times, writers and policies. *)
(***************************************************************************)
EXTENDS AdminConsole, EscrowManager, AuditLog, RiskEngine,
        WellFoundedInduction, TLAPS

-----------------------------------------------------------------------------
(* AdminConsole: the inductive invariant.                                   *)

AuditRecord == [id : Nat, result : {"ok", "degraded", "not_found", "error"}]
Search == [id : Nat, kind : {"search"}, stage : {"ask", "answer"},
           groups : SUBSET Providers, degraded : SUBSET Providers]
View == [id : Nat, kind : {"view"}, stage : {"ask", "answer"}, of : Providers]

AdminTypes ==
    /\ read \in [Staff -> {NoRead} \cup Search \cup View]
    /\ upstream \in [Staff -> [Providers -> ProviderOutcomes]]
    /\ auditLog \in Seq(AuditRecord) /\ auditLost \subseteq AuditRecord
    /\ readCount \in Nat

(* The records of a read, delivered and lost. *)
Logged(n) == {i \in DOMAIN auditLog : auditLog[i].id = n}
Lost(n) == {r \in auditLost : r.id = n}

Unrecorded(n) == Logged(n) = {} /\ Lost(n) = {}

RecordedOnce(n, result) ==
    \/ Lost(n) = {} /\ \E i \in DOMAIN auditLog : Logged(n) = {i} /\ auditLog[i].result = result
    \/ Logged(n) = {} /\ Lost(n) = {[id |-> n, result |-> result]}

(* Reads are numbered as they come, so no two have the same number. *)
ReadsNumbered ==
    /\ \A n \in Nat : n >= readCount => Unrecorded(n)
    /\ \A s \in Staff : read[s] # NoRead => read[s].id < readCount
    /\ \A s, t \in Staff : read[s] # NoRead /\ read[t] # NoRead /\ read[s].id = read[t].id => s = t

(* A read that is still asking has no record, one about to be answered has  *)
(* the record of its answer, and shows the groups of who answered.          *)
ReadAccounted(s) ==
    /\ read[s].stage = "ask" => Unrecorded(read[s].id)
    /\ read[s].stage = "answer" => RecordedOnce(read[s].id, AuditResult(s))
    /\ read[s].kind = "search" => \A p \in read[s].groups : upstream[s][p] \in {"data", "absent"}

ReadsAccounted == \A s \in Staff : read[s] # NoRead => ReadAccounted(s)

ShownRecorded ==
    \A a \in shown :
        /\ a.id \in Nat /\ a.id < readCount /\ RecordedOnce(a.id, a.result)
        /\ \A s \in Staff : read[s] # NoRead => read[s].id # a.id

AdminInv == AdminTypes /\ ReadsNumbered /\ ReadsAccounted /\ ShownRecorded /\ GroupsAnsweredInTime

(* A read in progress is a search or a view. *)
LEMMA ReadIs ==
  ASSUME AdminTypes, NEW s \in Staff
  PROVE  /\ read[s] \in {NoRead} \cup Search \cup View
         /\ read[s] # NoRead => read[s].id \in Nat /\ read[s].stage \in {"ask", "answer"}
         /\ read[s].kind = "search" => read[s] \in Search
         /\ read[s].kind = "view" => read[s] \in View
         /\ read[s] # NoRead => read[s].kind \in {"search", "view"}
BY DEF AdminTypes, NoRead, Search, View

(* What a read came to is one of the four results of an audit record. *)
LEMMA ResultIs ==
  ASSUME AdminTypes, NEW s \in Staff, read[s] # NoRead
  PROVE  AuditResult(s) \in {"ok", "degraded", "not_found", "error"}
  <1>1. CASE read[s].kind = "search"
    BY <1>1, Zenon DEF AuditResult
  <1>2. CASE read[s].kind # "search"
    <2> DEFINE u == upstream[s][read[s].of]
    <2>1. CASE u = "data"
      BY <1>2, <2>1, Zenon DEF AuditResult
    <2>2. CASE u = "absent"
      BY <1>2, <2>2, Zenon DEF AuditResult
    <2>3. CASE u # "data" /\ u # "absent"
      BY <1>2, <2>3, Zenon DEF AuditResult
    <2> QED BY <2>1, <2>2, <2>3, Zenon
  <1> QED BY <1>1, <1>2, Zenon

(* No read, no record and nothing shown at the start. *)
LEMMA AdminInitInv == AdminInit => AdminInv
  <1> SUFFICES ASSUME AdminInit PROVE AdminInv
    BY Zenon
  <1>1. AdminTypes
    BY DEF AdminInit, AdminTypes, ProviderOutcomes
  <1>2. \A s \in Staff : read[s] = NoRead
    BY Zenon DEF AdminInit
  <1>3. \A n \in Nat : Unrecorded(n)
    BY DEF AdminInit, Unrecorded, Logged, Lost
  <1>4. ReadsNumbered /\ ReadsAccounted
    BY <1>2, <1>3, Zenon DEF ReadsNumbered, ReadsAccounted
  <1>5. ShownRecorded /\ GroupsAnsweredInTime
    BY Zenon DEF AdminInit, ShownRecorded, GroupsAnsweredInTime
  <1> QED BY <1>1, <1>4, <1>5, Zenon DEF AdminInv

(* Records that stay where they are tell the same. *)
LEMMA RecordsKept ==
  ASSUME UNCHANGED <<auditLog, auditLost>>, NEW n, NEW result
  PROVE  /\ Unrecorded(n) => Unrecorded(n)'
         /\ RecordedOnce(n, result) => RecordedOnce(n, result)'
BY Zenon DEF Unrecorded, RecordedOnce, Logged, Lost

(* The record of one read is that of no other. *)
LEMMA RecordAdded ==
  ASSUME AdminTypes, NEW r \in AuditRecord, Unrecorded(r.id),
         \/ auditLog' = Append(auditLog, r) /\ UNCHANGED auditLost
         \/ auditLost' = auditLost \cup {r} /\ UNCHANGED auditLog
  PROVE  /\ auditLog' \in Seq(AuditRecord) /\ auditLost' \subseteq AuditRecord
         /\ RecordedOnce(r.id, r.result)'
         /\ \A n \in Nat \ {r.id} : Unrecorded(n) => Unrecorded(n)'
         /\ \A n \in Nat \ {r.id} : \A result : RecordedOnce(n, result) => RecordedOnce(n, result)'
  <1>0. auditLog \in Seq(AuditRecord) /\ auditLost \subseteq AuditRecord
    BY Zenon DEF AdminTypes
  <1>1. CASE auditLog' = Append(auditLog, r) /\ UNCHANGED auditLost
    <2> DEFINE k == Len(auditLog) + 1
    <2>1. /\ auditLog' \in Seq(AuditRecord) /\ DOMAIN auditLog' = DOMAIN auditLog \cup {k}
          /\ k \notin DOMAIN auditLog /\ auditLog'[k] = r
          /\ \A i \in DOMAIN auditLog : auditLog'[i] = auditLog[i]
      BY <1>0, <1>1
    <2> HIDE DEF k
    <2>2. \A n : Lost(n)' = Lost(n)
      BY <1>1, Zenon DEF Lost
    <2>3. \A n : n # r.id => Logged(n)' = Logged(n)
      BY <2>1, Zenon DEF Logged
    <2>4. Logged(r.id)' = {k}
      BY <2>1 DEF Logged, Unrecorded
    <2>5. RecordedOnce(r.id, r.result)'
      BY <2>1, <2>2, <2>4, Zenon DEF RecordedOnce, Unrecorded
    <2>6. ASSUME NEW n \in Nat \ {r.id}
          PROVE  /\ Unrecorded(n) => Unrecorded(n)'
                 /\ \A result : RecordedOnce(n, result) => RecordedOnce(n, result)'
      BY <2>1, <2>2, <2>3, Zenon DEF RecordedOnce, Unrecorded
    <2> QED BY <1>0, <1>1, <2>1, <2>5, <2>6, Zenon
  <1>2. CASE auditLost' = auditLost \cup {r} /\ UNCHANGED auditLog
    <2>1. \A n : Logged(n)' = Logged(n)
      BY <1>2, Zenon DEF Logged
    <2>2. \A n : n # r.id => Lost(n)' = Lost(n)
      BY <1>2, Zenon DEF Lost
    <2>3. Lost(r.id)' = {r}
      BY <1>2 DEF Lost, Unrecorded
    <2>4. r = [id |-> r.id, result |-> r.result]
      BY Zenon DEF AuditRecord
    <2>5. RecordedOnce(r.id, r.result)'
      BY <2>1, <2>3, <2>4, Zenon DEF RecordedOnce, Unrecorded
    <2>6. ASSUME NEW n \in Nat \ {r.id}
          PROVE  /\ Unrecorded(n) => Unrecorded(n)'
                 /\ \A result : RecordedOnce(n, result) => RecordedOnce(n, result)'
      BY <1>2, <2>1, <2>2, Zenon DEF RecordedOnce, Unrecorded
    <2> QED BY <1>0, <1>2, <2>5, <2>6, Zenon
  <1> QED BY <1>1, <1>2, Zenon

(* What a read answers depends on its own calls. *)
LEMMA ResultKept ==
  ASSUME NEW s \in Staff, read'[s] = read[s], upstream'[s] = upstream[s]
  PROVE  AuditResult(s)' = AuditResult(s)
BY Zenon DEF AuditResult

(* The reads of the other staff go on as they were. *)
LEMMA OthersAccounted ==
  ASSUME AdminInv, NEW s \in Staff, read'[s] = read[s], upstream'[s] = upstream[s], read[s] # NoRead,
         Unrecorded(read[s].id) => Unrecorded(read[s].id)',
         \A result : RecordedOnce(read[s].id, result) => RecordedOnce(read[s].id, result)'
  PROVE  ReadAccounted(s)'
  <1>1. PICK r : r = read[s]
    BY Zenon
  <1>2. PICK x : x = AuditResult(s)
    BY Zenon
  <1>3. ReadAccounted(s) /\ r # NoRead
    BY <1>1, Zenon DEF AdminInv, ReadsAccounted
  <1>4. AuditResult(s)' = x /\ read'[s] = r /\ upstream'[s] = upstream[s]
    BY <1>1, <1>2, ResultKept, Zenon
  <1>5. r.stage = "ask" => Unrecorded(r.id)'
    BY <1>1, <1>3, Zenon DEF ReadAccounted
  <1>6. r.stage = "answer" => RecordedOnce(r.id, x)'
    BY <1>1, <1>2, <1>3, Zenon DEF ReadAccounted
  <1>7. r.kind = "search" => \A p \in r.groups : upstream'[s][p] \in {"data", "absent"}
    BY <1>1, <1>3, <1>4, Zenon DEF ReadAccounted
  <1> QED BY <1>4, <1>5, <1>6, <1>7, Zenon DEF ReadAccounted

(* A read begins with a number of its own and no record. *)
LEMMA ReadBegins ==
  ASSUME AdminInv, NEW s \in Staff, NEW r \in Search \cup View,
         r.id = readCount, r.stage = "ask", r.kind = "search" => r.groups = {},
         read[s] = NoRead, read' = [read EXCEPT ![s] = r], readCount' = readCount + 1,
         upstream' \in [Staff -> [Providers -> ProviderOutcomes]],
         \A t \in Staff \ {s} : upstream'[t] = upstream[t],
         UNCHANGED <<auditLog, auditLost, shown>>
  PROVE  AdminInv'
  <1>0. AdminTypes /\ ReadsNumbered /\ ReadsAccounted /\ ShownRecorded /\ GroupsAnsweredInTime
    BY Zenon DEF AdminInv
  <1>1. AdminTypes'
    BY <1>0 DEF AdminTypes
  <1>2. read'[s] = r /\ \A t \in Staff \ {s} : read'[t] = read[t]
    BY <1>0, Zenon DEF AdminTypes
  <1>3. \A n \in Nat : Unrecorded(n) => Unrecorded(n)'
    BY RecordsKept, Zenon
  <1>4. \A n, result : RecordedOnce(n, result) => RecordedOnce(n, result)'
    BY RecordsKept, Zenon
  <1>5. readCount \in Nat
    BY <1>0, Zenon DEF AdminTypes
  <1>6. ReadsNumbered'
    <2>1. \A n \in Nat : n >= readCount' => Unrecorded(n)'
      BY <1>0, <1>3, <1>5 DEF ReadsNumbered
    <2>2. \A t \in Staff \ {s} : read'[t] # NoRead => read'[t].id < readCount /\ read'[t].id \in Nat
      BY <1>0, <1>2, ReadIs DEF ReadsNumbered
    <2>3. \A t \in Staff : read'[t] # NoRead => read'[t].id < readCount'
      BY <1>2, <1>5, <2>2
    <2>4. ASSUME NEW t \in Staff, NEW v \in Staff, read'[t] # NoRead, read'[v] # NoRead, read'[t].id = read'[v].id
          PROVE  t = v
      <3>1. CASE t = s \/ v = s
        BY <1>2, <1>5, <2>2, <2>4, <3>1
      <3>2. CASE t # s /\ v # s
        BY <1>0, <1>2, <2>4, <3>2 DEF ReadsNumbered
      <3> QED BY <3>1, <3>2, Zenon
    <2> QED BY <2>1, <2>3, <2>4, Zenon DEF ReadsNumbered
  <1>7. ReadsAccounted'
    <2> SUFFICES ASSUME NEW t \in Staff, read'[t] # NoRead PROVE ReadAccounted(t)'
      BY Zenon DEF ReadsAccounted
    <2>1. CASE t = s
      <3>1. Unrecorded(r.id)'
        BY <1>0, <1>3, <1>5 DEF ReadsNumbered
      <3> QED BY <1>2, <2>1, <3>1, Zenon DEF ReadAccounted
    <2>2. CASE t # s
      <3>1. read'[t] = read[t] /\ upstream'[t] = upstream[t] /\ read[t] # NoRead /\ read[t].id \in Nat
        BY <1>0, <1>2, <2>2, ReadIs, Zenon
      <3> QED BY <1>3, <1>4, <3>1, OthersAccounted, Zenon
    <2> QED BY <2>1, <2>2, Zenon
  <1>8. ShownRecorded'
    <2> SUFFICES ASSUME NEW a \in shown
                 PROVE  /\ a.id \in Nat /\ a.id < readCount' /\ RecordedOnce(a.id, a.result)'
                        /\ \A t \in Staff : read'[t] # NoRead => read'[t].id # a.id
      BY Zenon DEF ShownRecorded
    <2>1. /\ a.id \in Nat /\ a.id < readCount /\ RecordedOnce(a.id, a.result)
          /\ \A t \in Staff : read[t] # NoRead => read[t].id # a.id
      BY <1>0, Zenon DEF ShownRecorded
    <2> QED BY <1>2, <1>4, <1>5, <2>1
  <1>9. GroupsAnsweredInTime'
    BY <1>0, Zenon DEF GroupsAnsweredInTime
  <1> QED BY <1>1, <1>6, <1>7, <1>8, <1>9, Zenon DEF AdminInv

(* What is known of everything but the read of s. *)
RestAccounted(s) ==
    /\ AdminTypes /\ ReadsNumbered
    /\ \A t \in Staff \ {s} : read[t] # NoRead => ReadAccounted(t)

ShownStays ==
    \A a \in shown :
        /\ a.id \in Nat /\ (a.id < readCount)' /\ RecordedOnce(a.id, a.result)'
        /\ \A t \in Staff : read'[t] # NoRead => read'[t].id # a.id

(* Only the records of its own read change in a step. *)
RecordsOf(n) ==
    /\ auditLog' \in Seq(AuditRecord) /\ auditLost' \subseteq AuditRecord
    /\ \A m \in Nat \ {n} : Unrecorded(m) => Unrecorded(m)'
    /\ \A m \in Nat \ {n} : \A result : RecordedOnce(m, result) => RecordedOnce(m, result)'

(* A read that goes on, or ends, disturbs no other. *)
LEMMA ReadMoves ==
  ASSUME AdminInv, NEW s \in Staff, read[s] # NoRead, NEW r \in {NoRead} \cup Search \cup View,
         r # NoRead => r.id = read[s].id, read' = [read EXCEPT ![s] = r], UNCHANGED readCount,
         upstream' \in [Staff -> [Providers -> ProviderOutcomes]],
         \A t \in Staff \ {s} : upstream'[t] = upstream[t],
         RecordsOf(read[s].id)
  PROVE  RestAccounted(s)' /\ ShownStays
  <1>0. AdminTypes /\ ReadsNumbered /\ ReadsAccounted /\ ShownRecorded
    BY Zenon DEF AdminInv
  <1>1. AdminTypes'
    BY <1>0, Zenon DEF AdminTypes, RecordsOf
  <1>2. read'[s] = r /\ \A t \in Staff \ {s} : read'[t] = read[t]
    BY <1>0, Zenon DEF AdminTypes
  <1>3. PICK n \in Nat : n = read[s].id /\ n < readCount
    BY <1>0, ReadIs, Zenon DEF ReadsNumbered
  <1>4. \A t \in Staff \ {s} : read[t] # NoRead => read[t].id \in Nat /\ read[t].id # n
    BY <1>0, <1>3, ReadIs, Zenon DEF ReadsNumbered
  <1>5. readCount \in Nat
    BY <1>0, Zenon DEF AdminTypes
  <1>6. ReadsNumbered'
    <2>1. \A m \in Nat : m >= readCount' => Unrecorded(m)'
      BY <1>0, <1>3, <1>5 DEF ReadsNumbered, RecordsOf
    <2>2. \A t \in Staff : read'[t] # NoRead => read[t] # NoRead /\ read'[t].id = read[t].id
      BY <1>2, Zenon
    <2> QED BY <1>0, <2>1, <2>2 DEF ReadsNumbered
  <1>7. ASSUME NEW t \in Staff \ {s}, read'[t] # NoRead PROVE ReadAccounted(t)'
    <2>1. /\ read'[t] = read[t] /\ upstream'[t] = upstream[t] /\ read[t] # NoRead
          /\ Unrecorded(read[t].id) => Unrecorded(read[t].id)'
          /\ \A result : RecordedOnce(read[t].id, result) => RecordedOnce(read[t].id, result)'
      BY <1>2, <1>3, <1>4, <1>7, Zenon DEF RecordsOf
    <2> QED BY <2>1, OthersAccounted, Zenon
  <1>8. ShownStays
    <2> SUFFICES ASSUME NEW a \in shown
                 PROVE  /\ a.id \in Nat /\ a.id < readCount' /\ RecordedOnce(a.id, a.result)'
                        /\ \A t \in Staff : read'[t] # NoRead => read'[t].id # a.id
      BY Zenon DEF ShownStays
    <2>1. /\ a.id \in Nat /\ a.id < readCount /\ RecordedOnce(a.id, a.result)
          /\ \A t \in Staff : read[t] # NoRead => read[t].id # a.id
      BY <1>0, Zenon DEF ShownRecorded
    <2>2. RecordedOnce(a.id, a.result)'
      BY <1>3, <2>1, Zenon DEF RecordsOf
    <2> QED BY <1>2, <1>5, <2>1, <2>2
  <1> QED BY <1>1, <1>6, <1>7, <1>8, Zenon DEF RestAccounted

(* The state after a step is told by the read of s and what was shown. *)
LEMMA AdminInvFrom ==
  ASSUME AdminInv, NEW s \in Staff, RestAccounted(s)', ShownStays, read'[s] # NoRead => ReadAccounted(s)', UNCHANGED shown
  PROVE  AdminInv'
  <1>1. ReadsAccounted'
    BY Zenon DEF RestAccounted, ReadsAccounted
  <1>2. ShownRecorded' /\ GroupsAnsweredInTime'
    BY Zenon DEF ShownStays, ShownRecorded, AdminInv, GroupsAnsweredInTime
  <1> QED BY <1>1, <1>2, Zenon DEF RestAccounted, AdminInv

(* A provider's end adds its group only if it answered in time, and no      *)
(* record.                                                                  *)
LEMMA ProviderEndKeeps ==
  ASSUME AdminInv, NEW s \in Staff, NEW p \in Providers, NEW outcome \in ProviderOutcomes, ProviderEnds(s, p, outcome)
  PROVE  AdminInv'
  <1>0. AdminTypes /\ ReadsAccounted
    BY Zenon DEF AdminInv
  <1>1. PICK q \in Search : q = read[s] /\ q.stage = "ask"
    BY <1>0, ReadIs, Zenon DEF ProviderEnds
  <1>2. read[s] # NoRead /\ q # NoRead
    BY <1>1, Zenon DEF NoRead, Search
  <1> DEFINE r == IF Failed(outcome)
                  THEN [id |-> q.id, kind |-> "search", stage |-> "ask", groups |-> q.groups, degraded |-> q.degraded \cup {p}]
                  ELSE [id |-> q.id, kind |-> "search", stage |-> "ask", groups |-> q.groups \cup {p}, degraded |-> q.degraded]
  <1>3. /\ r \in Search /\ r.id = q.id /\ r.stage = "ask" /\ r.kind = "search"
        /\ r.groups = IF Failed(outcome) THEN q.groups ELSE q.groups \cup {p}
    BY <1>1, Zenon DEF Search
  <1>4. /\ [q EXCEPT !.degraded = q.degraded \cup {p}] =
             [id |-> q.id, kind |-> "search", stage |-> "ask", groups |-> q.groups, degraded |-> q.degraded \cup {p}]
        /\ [q EXCEPT !.groups = q.groups \cup {p}] =
             [id |-> q.id, kind |-> "search", stage |-> "ask", groups |-> q.groups \cup {p}, degraded |-> q.degraded]
    BY <1>1 DEF Search
  <1>5. read' = [read EXCEPT ![s] = r]
    <2>1. read' = [read EXCEPT ![s] = IF Failed(outcome) THEN [read[s] EXCEPT !.degraded = read[s].degraded \cup {p}]
                                      ELSE [read[s] EXCEPT !.groups = read[s].groups \cup {p}]]
      BY Zenon DEF ProviderEnds
    <2> QED BY <1>1, <1>4, <2>1, Zenon
  <1> HIDE DEF r
  <1>6. /\ upstream' \in [Staff -> [Providers -> ProviderOutcomes]]
        /\ \A t \in Staff \ {s} : upstream'[t] = upstream[t]
        /\ upstream'[s][p] = outcome /\ \A o \in Providers \ {p} : upstream'[s][o] = upstream[s][o]
    BY <1>0, Zenon DEF ProviderEnds, AdminTypes
  <1>7. UNCHANGED <<auditLog, auditLost, shown, readCount>>
    BY Zenon DEF ProviderEnds
  <1>8. RecordsOf(read[s].id)
    BY <1>0, <1>7, RecordsKept, Zenon DEF RecordsOf, AdminTypes
  <1>9. RestAccounted(s)' /\ ShownStays
    BY <1>1, <1>2, <1>3, <1>5, <1>6, <1>7, <1>8, ReadMoves, Zenon
  <1>10. ReadAccounted(s)'
    <2>1. read'[s] = r
      BY <1>0, <1>5, Zenon DEF AdminTypes
    <2>2. ReadAccounted(s)
      BY <1>0, <1>2, Zenon DEF ReadsAccounted
    <2>3. Unrecorded(r.id)'
      <3>1. Unrecorded(q.id)
        BY <1>1, <2>2, Zenon DEF ReadAccounted
      <3> QED BY <1>3, <1>7, <3>1, RecordsKept, Zenon
    <2>4. ASSUME NEW o \in r.groups PROVE upstream'[s][o] \in {"data", "absent"}
      <3>1. CASE o \in q.groups
        <4>1. o # p /\ o \in Providers /\ upstream[s][o] \in {"data", "absent"}
          BY <1>1, <2>2, <3>1, Zenon DEF ReadAccounted, ProviderEnds, Search
        <4> QED BY <1>6, <4>1, Zenon
      <3>2. CASE o \notin q.groups
        BY <1>3, <1>6, <2>4, <3>2, Zenon DEF Failed, ProviderOutcomes
      <3> QED BY <3>1, <3>2, Zenon
    <2> QED BY <1>3, <2>1, <2>3, <2>4, Zenon DEF ReadAccounted
  <1> QED BY <1>7, <1>9, <1>10, AdminInvFrom, Zenon

(* The emit of a search records the groups that the answer will carry, or   *)
(* loses that record.                                                       *)
LEMMA EmitKeeps ==
  ASSUME AdminInv, NEW s \in Staff, EmitAudit(s)
  PROVE  AdminInv'
  <1>0. AdminTypes /\ ReadsAccounted
    BY Zenon DEF AdminInv
  <1>1. PICK q \in Search \cup View : q = read[s] /\ q.stage = "ask"
    BY <1>0, ReadIs, Zenon DEF EmitAudit
  <1>2. read[s] # NoRead /\ q # NoRead
    BY <1>1, Zenon DEF NoRead, Search, View
  <1>3. PICK x : x = AuditResult(s)
    BY Zenon
  <1>4. PICK a \in AuditRecord : a = [id |-> q.id, result |-> x]
    <2>1. x \in {"ok", "degraded", "not_found", "error"}
      BY <1>0, <1>2, <1>3, ResultIs, Zenon
    <2> QED BY <1>1, <2>1, Zenon DEF AuditRecord, Search, View
  <1>5. PICK r \in Search \cup View : /\ r = [q EXCEPT !.stage = "answer"]
                                      /\ r.id = q.id /\ r.stage = "answer" /\ r.kind = q.kind
                                      /\ q.kind = "search" => r.groups = q.groups /\ r.degraded = q.degraded
                                      /\ q.kind = "view" => r.of = q.of
    <2>1. CASE q \in Search
      <3> DEFINE n == [id |-> q.id, kind |-> "search", stage |-> "answer", groups |-> q.groups, degraded |-> q.degraded]
      <3>1. n = [q EXCEPT !.stage = "answer"] /\ n \in Search
        BY <2>1 DEF Search
      <3>2. n.id = q.id /\ n.stage = "answer" /\ n.kind = q.kind /\ n.groups = q.groups /\ n.degraded = q.degraded /\ q.kind # "view"
        BY <2>1, Zenon DEF Search
      <3> QED BY <3>1, <3>2, Zenon
    <2>2. CASE q \in View
      <3> DEFINE n == [id |-> q.id, kind |-> "view", stage |-> "answer", of |-> q.of]
      <3>1. n = [q EXCEPT !.stage = "answer"] /\ n \in View
        BY <2>2 DEF View
      <3>2. n.id = q.id /\ n.stage = "answer" /\ n.kind = q.kind /\ n.of = q.of /\ q.kind # "search"
        BY <2>2, Zenon DEF View
      <3> QED BY <3>1, <3>2, Zenon
    <2> QED BY <2>1, <2>2, Zenon
  <1>6. /\ read' = [read EXCEPT ![s] = r] /\ UNCHANGED <<upstream, shown, readCount>>
        /\ \/ auditLog' = Append(auditLog, a) /\ UNCHANGED auditLost
           \/ auditLost' = auditLost \cup {a} /\ UNCHANGED auditLog
    BY <1>0, <1>1, <1>3, <1>4, <1>5, Zenon DEF EmitAudit, Audits, AdminTypes
  <1>7. Unrecorded(q.id)
    BY <1>0, <1>1, <1>2, Zenon DEF ReadsAccounted, ReadAccounted
  <1>8. a.id = q.id /\ a.result = x
    BY <1>4, Zenon
  <1>9. RecordsOf(read[s].id) /\ RecordedOnce(q.id, x)'
    <2>1. /\ auditLog' \in Seq(AuditRecord) /\ auditLost' \subseteq AuditRecord
          /\ RecordedOnce(a.id, a.result)'
          /\ \A n \in Nat \ {a.id} : Unrecorded(n) => Unrecorded(n)'
          /\ \A n \in Nat \ {a.id} : \A result : RecordedOnce(n, result) => RecordedOnce(n, result)'
      BY <1>0, <1>6, <1>7, <1>8, RecordAdded, Zenon
    <2> QED BY <1>1, <1>8, <2>1, Zenon DEF RecordsOf
  <1>10. /\ upstream' \in [Staff -> [Providers -> ProviderOutcomes]]
         /\ \A t \in Staff \ {s} : upstream'[t] = upstream[t]
    BY <1>0, <1>6, Zenon DEF AdminTypes
  <1>11. RestAccounted(s)' /\ ShownStays
    BY <1>1, <1>2, <1>5, <1>6, <1>9, <1>10, ReadMoves, Zenon
  <1>12. ReadAccounted(s)'
    <2>1. read'[s] = r /\ upstream'[s] = upstream[s]
      BY <1>0, <1>6, Zenon DEF AdminTypes
    <2>2. AuditResult(s)' = x
      <3>1. CASE q.kind = "search"
        BY <1>1, <1>3, <1>5, <2>1, <3>1 DEF AuditResult
      <3>2. CASE q.kind # "search"
        <4>1. r.of = q.of /\ r.kind # "search"
          BY <1>1, <1>5, <3>2, Zenon DEF Search, View
        <4> QED BY <1>1, <1>3, <2>1, <3>2, <4>1, Zenon DEF AuditResult
      <3> QED BY <3>1, <3>2, Zenon
    <2>3. RecordedOnce(r.id, x)'
      BY <1>5, <1>9, Zenon
    <2>4. r.kind = "search" => \A p \in r.groups : upstream'[s][p] \in {"data", "absent"}
      BY <1>0, <1>1, <1>2, <1>5, <2>1 DEF ReadsAccounted, ReadAccounted
    <2> QED BY <1>5, <2>1, <2>2, <2>3, <2>4, Zenon DEF ReadAccounted
  <1> QED BY <1>6, <1>11, <1>12, AdminInvFrom, Zenon

(* So does the emit of a view, found or not. *)
LEMMA ViewRaiseKeeps ==
  ASSUME AdminInv, NEW s \in Staff, ViewRaises(s)
  PROVE  AdminInv'
  <1>0. AdminTypes
    BY Zenon DEF AdminInv
  <1>1. read[s] # NoRead
    BY DEF ViewRaises, NoRead
  <1>2. read' = [read EXCEPT ![s] = NoRead] /\ UNCHANGED <<upstream, auditLog, auditLost, shown, readCount>>
    BY Zenon DEF ViewRaises
  <1>3. RecordsOf(read[s].id)
    BY <1>0, <1>2, RecordsKept, Zenon DEF RecordsOf, AdminTypes
  <1>4. /\ upstream' \in [Staff -> [Providers -> ProviderOutcomes]]
        /\ \A t \in Staff \ {s} : upstream'[t] = upstream[t]
    BY <1>0, <1>2, Zenon DEF AdminTypes
  <1>5. RestAccounted(s)' /\ ShownStays
    BY <1>1, <1>2, <1>3, <1>4, ReadMoves, Zenon
  <1>6. read'[s] = NoRead
    BY <1>0, <1>2, Zenon DEF AdminTypes
  <1> QED BY <1>2, <1>5, <1>6, AdminInvFrom, Zenon

(* The answer is given once, after the emit, and says what the record says. *)
LEMMA AnswerKeeps ==
  ASSUME AdminInv, NEW s \in Staff, AnswerRead(s)
  PROVE  AdminInv'
  <1>0. AdminTypes /\ ReadsNumbered /\ ReadsAccounted /\ GroupsAnsweredInTime
    BY Zenon DEF AdminInv
  <1>1. PICK q \in Search \cup View : q = read[s] /\ q.stage = "answer"
    BY <1>0, ReadIs, Zenon DEF AnswerRead
  <1>2. read[s] # NoRead /\ q # NoRead
    BY <1>1, Zenon DEF NoRead, Search, View
  <1>3. PICK x : x = AuditResult(s)
    BY Zenon
  <1>4. PICK a : /\ a = [id |-> q.id, result |-> x, groups |-> IF q.kind = "search" THEN q.groups ELSE {},
                         inTime |-> {p \in Providers : upstream[s][p] \in {"data", "absent"}}]
    BY Zenon
  <1>5. /\ shown' = shown \cup {a} /\ read' = [read EXCEPT ![s] = NoRead]
        /\ upstream' = [upstream EXCEPT ![s] = [p \in Providers |-> "data"]]
        /\ UNCHANGED <<auditLog, auditLost, readCount>>
    BY <1>1, <1>3, <1>4, Zenon DEF AnswerRead
  <1>6. /\ RecordedOnce(q.id, x) /\ q.id \in Nat /\ q.id < readCount
        /\ q.kind = "search" => \A p \in q.groups : p \in Providers /\ upstream[s][p] \in {"data", "absent"}
    BY <1>0, <1>1, <1>2, <1>3, Zenon DEF ReadsNumbered, ReadsAccounted, ReadAccounted, Search, View
  <1>7. a.id = q.id /\ a.result = x /\ a.groups \subseteq a.inTime
    BY <1>4, <1>6, Zenon
  <1>8. RecordsOf(read[s].id)
    BY <1>0, <1>5, RecordsKept, Zenon DEF RecordsOf, AdminTypes
  <1>9. /\ upstream' \in [Staff -> [Providers -> ProviderOutcomes]]
        /\ \A t \in Staff \ {s} : upstream'[t] = upstream[t]
    BY <1>0, <1>5, Zenon DEF AdminTypes, ProviderOutcomes
  <1>10. RestAccounted(s)' /\ ShownStays
    BY <1>2, <1>5, <1>8, <1>9, ReadMoves, Zenon
  <1>11. read'[s] = NoRead /\ \A t \in Staff \ {s} : read'[t] = read[t]
    BY <1>0, <1>5, Zenon DEF AdminTypes
  <1>12. ReadsAccounted'
    BY <1>10, <1>11, Zenon DEF RestAccounted, ReadsAccounted
  <1>13. /\ a.id \in Nat /\ (a.id < readCount)' /\ RecordedOnce(a.id, a.result)'
         /\ \A t \in Staff : read'[t] # NoRead => read'[t].id # a.id
    <2>1. RecordedOnce(a.id, a.result)'
      BY <1>5, <1>6, <1>7, RecordsKept, Zenon
    <2>2. \A t \in Staff : read'[t] # NoRead => read'[t].id # q.id
      BY <1>0, <1>1, <1>2, <1>11 DEF ReadsNumbered
    <2> QED BY <1>5, <1>6, <1>7, <2>1, <2>2, Zenon
  <1>14. ShownRecorded'
    <2> SUFFICES ASSUME NEW b \in shown'
                 PROVE  /\ b.id \in Nat /\ b.id < readCount' /\ RecordedOnce(b.id, b.result)'
                        /\ \A t \in Staff : read'[t] # NoRead => read'[t].id # b.id
      BY Zenon DEF ShownRecorded
    <2>1. CASE b = a
      BY <1>13, <2>1, Zenon
    <2>2. CASE b \in shown
      BY <1>10, <2>2, Zenon DEF ShownStays
    <2> QED BY <1>5, <2>1, <2>2, Zenon
  <1>15. GroupsAnsweredInTime'
    BY <1>0, <1>5, <1>7, Zenon DEF GroupsAnsweredInTime
  <1> QED BY <1>10, <1>12, <1>14, <1>15, Zenon DEF RestAccounted, AdminInv

(* Every step keeps the invariant. *)
LEMMA AdminNextInv == AdminInv /\ [AdminNext]_adminVars => AdminInv'
  <1> SUFFICES ASSUME AdminInv, [AdminNext]_adminVars PROVE AdminInv'
    BY Zenon
  <1>0. AdminTypes /\ readCount \in Nat
    BY Zenon DEF AdminInv, AdminTypes
  <1>1. ASSUME NEW s \in Staff, NEW token \in Tokens, BeginSearch(s, token) PROVE AdminInv'
    <2> DEFINE r == [id |-> readCount, kind |-> "search", stage |-> "ask", groups |-> {}, degraded |-> {}]
    <2>1. r \in Search /\ r.id = readCount /\ r.stage = "ask" /\ r.groups = {}
      BY <1>0, Zenon DEF Search
    <2>2. /\ read[s] = NoRead /\ read' = [read EXCEPT ![s] = r] /\ readCount' = readCount + 1
          /\ UNCHANGED <<upstream, auditLog, auditLost, shown>>
      BY <1>1, Zenon DEF BeginSearch
    <2>3. upstream' \in [Staff -> [Providers -> ProviderOutcomes]]
      BY <1>0, <2>2, Zenon DEF AdminTypes
    <2> HIDE DEF r
    <2> QED BY <2>1, <2>2, <2>3, ReadBegins, Zenon
  <1>2. ASSUME NEW s \in Staff, NEW p \in Providers, NEW token \in Tokens, BeginView(s, p, token) PROVE AdminInv'
    <2> DEFINE r == [id |-> readCount, kind |-> "view", stage |-> "ask", of |-> p]
    <2>1. r \in View /\ r.id = readCount /\ r.stage = "ask" /\ r.kind # "search"
      BY <1>0, Zenon DEF View
    <2>2. /\ read[s] = NoRead /\ read' = [read EXCEPT ![s] = r] /\ readCount' = readCount + 1
          /\ UNCHANGED <<auditLog, auditLost, shown>>
      BY <1>2, Zenon DEF BeginView
    <2>3. PICK o \in ProviderOutcomes : upstream' = [upstream EXCEPT ![s][p] = o]
      BY <1>2, Zenon DEF BeginView
    <2>4. upstream' \in [Staff -> [Providers -> ProviderOutcomes]] /\ \A t \in Staff \ {s} : upstream'[t] = upstream[t]
      BY <1>0, <2>3, Zenon DEF AdminTypes
    <2> HIDE DEF r
    <2> QED BY <2>1, <2>2, <2>4, ReadBegins, Zenon
  <1>3. CASE UNCHANGED adminVars
    <2>1. UNCHANGED <<read, upstream, auditLog, auditLost, shown, readCount>>
      BY <1>3, Zenon DEF adminVars
    <2>2. AdminTypes' /\ ReadsNumbered'
      BY <2>1, Zenon DEF AdminInv, AdminTypes, ReadsNumbered, Unrecorded, Logged, Lost
    <2>3. ReadsAccounted'
      <3> SUFFICES ASSUME NEW s \in Staff, read'[s] # NoRead PROVE ReadAccounted(s)'
        BY Zenon DEF ReadsAccounted
      <3> QED BY <2>1, RecordsKept, OthersAccounted, Zenon
    <2>4. ShownRecorded' /\ GroupsAnsweredInTime'
      BY <2>1, RecordsKept, Zenon DEF AdminInv, ShownRecorded, GroupsAnsweredInTime
    <2> QED BY <2>2, <2>3, <2>4, Zenon DEF AdminInv
  <1> QED BY <1>1, <1>2, <1>3, ProviderEndKeeps, EmitKeeps, ViewRaiseKeeps, AnswerKeeps, Zenon DEF AdminNext

(* The invariant gives the property. *)
LEMMA AdminInvHonest == AdminInv => ConsoleHonest
  <1> SUFFICES ASSUME AdminInv, NEW a \in shown
               PROVE  LET entry == [id |-> a.id, result |-> a.result]
                          delivered == {i \in DOMAIN auditLog : auditLog[i] = entry}
                      IN  \/ entry \in auditLost /\ delivered = {}
                          \/ entry \notin auditLost /\ \E i \in DOMAIN auditLog : delivered = {i}
    BY Zenon DEF AdminInv, ConsoleHonest, ReadsAudited
  <1> DEFINE entry == [id |-> a.id, result |-> a.result]
             delivered == {i \in DOMAIN auditLog : auditLog[i] = entry}
  <1>0. entry.id = a.id /\ entry.result = a.result
    BY Zenon
  <1>1. \A i \in DOMAIN auditLog : auditLog[i] \in AuditRecord
    BY DEF AdminInv, AdminTypes
  <1>2. delivered \subseteq Logged(a.id) /\ (entry \in auditLost => entry \in Lost(a.id))
    BY <1>0, Zenon DEF Logged, Lost
  <1>3. RecordedOnce(a.id, a.result)
    BY Zenon DEF AdminInv, ShownRecorded
  <1>5. CASE Lost(a.id) = {} /\ \E i \in DOMAIN auditLog : Logged(a.id) = {i} /\ auditLog[i].result = a.result
    <2>1. PICK i \in DOMAIN auditLog : Logged(a.id) = {i} /\ auditLog[i].result = a.result
      BY <1>5, Zenon
    <2>2. auditLog[i] \in AuditRecord /\ auditLog[i].id = a.id
      BY <1>1, <2>1, Zenon DEF Logged
    <2>3. auditLog[i] = entry
      BY <2>1, <2>2, Zenon DEF AuditRecord
    <2> QED BY <1>2, <1>5, <2>1, <2>3
  <1>6. CASE Logged(a.id) = {} /\ Lost(a.id) = {entry}
    <2>1. entry \in auditLost
      BY <1>6, Zenon DEF Lost
    <2> QED BY <1>2, <1>6, <2>1, Zenon
  <1> QED BY <1>3, <1>5, <1>6, Zenon DEF RecordedOnce

(* For any number of staff, providers and reads: an answer that staff sees  *)
(* has exactly one audit record, delivered or lost, with its result, and a  *)
(* search shows only groups of providers that answered in time.             *)
THEOREM ConsoleHonestAlways == AdminSpec => []ConsoleHonest
  <1> QED BY AdminInitInv, AdminNextInv, AdminInvHonest, PTL DEF AdminSpec

-----------------------------------------------------------------------------
(* EscrowManager: the safety of an escrow.                                  *)

Rows == [state : {"WAITING"} \cup Outcomes,
         cond : [type : {"delivery_confirmation", "time_lock", "multi_party_approval"},
                 releaseAt : Nat, approvers : SUBSET EscApprovers, threshold : Int],
         funded : BOOLEAN, timeoutAt : Nat]

EscTypes ==
    /\ escrow = NoEscrow \/ escrow \in Rows
    /\ escNow \in Nat /\ fundingMsgs \in Nat
    /\ sweep \in [stage : {"none", "release", "refund"}, now : Nat] /\ sweep.now <= escNow

(* What the service knows of the funding comes from the chain, and what the *)
(* chain knows is known, to come, or was missed.                            *)
FundingKnown ==
    /\ fundingMsgs > 0 => settledTx
    /\ escrow # NoEscrow /\ escrow.funded => settledTx
    /\ escrow = NoEscrow => ~fundingSeen
    /\ escrow = NoEscrow /\ settledTx => fundingMsgs > 0 \/ passedBy
    /\ escrow # NoEscrow /\ escrow.state = "WAITING" /\ fundingSeen => escrow.funded

(* A lock ends before its timeout, and none that is due at the time of the  *)
(* pass is left when the pass comes to the refunds.                         *)
LocksReleased ==
    /\ escrow # NoEscrow /\ escrow.cond.type = "time_lock" => escrow.cond.releaseAt < escrow.timeoutAt
    /\ /\ sweep.stage = "refund" /\ ~releaseFailed
       /\ escrow # NoEscrow /\ escrow.state = "WAITING" /\ escrow.funded /\ escrow.cond.type = "time_lock"
       => escrow.cond.releaseAt > sweep.now

EscIInv ==
    EscTypes /\ FundingKnown /\ LocksReleased
        /\ ReleasedIsDue /\ NothingLeftToRelease /\ FundedLockNotRefunded /\ FundingNotMissed

-----------------------------------------------------------------------------
(* The conditions a request may ask for are well formed.                   *)
LEMMA RequestedTyped ==
    ASSUME escNow \in Nat, NEW c \in Requested
    PROVE  c \in [type : {"delivery_confirmation", "time_lock", "multi_party_approval"},
                  releaseAt : Nat, approvers : SUBSET EscApprovers, threshold : Int]
BY EscrowManagerAssumption DEF Requested, EscrowManagerAssumption

(* conditionSatisfied: a condition that was met stays met as time passes.  *)
LEMMA SatisfiedStays ==
    ASSUME NEW row \in Rows, NEW appr, NEW now \in Nat, NEW later \in Nat, now <= later,
           conditionSatisfied(row.cond, appr, now)
    PROVE  conditionSatisfied(row.cond, appr, later)
BY DEF conditionSatisfied, Rows

(* Only a time lock looks at the clock.                                    *)
LEMMA OnlyLocksWait ==
    ASSUME NEW row \in Rows, NEW appr, NEW now, NEW later, row.cond.type # "time_lock",
           conditionSatisfied(row.cond, appr, later)
    PROVE  conditionSatisfied(row.cond, appr, now)
BY Zenon DEF conditionSatisfied, Rows

(* The invariant holds before the first request.                           *)
LEMMA EscInitInv == EscrowInit => EscIInv
BY DEF EscrowInit, EscIInv, EscTypes, FundingKnown, LocksReleased, ReleasedIsDue, NothingLeftToRelease,
       FundedLockNotRefunded, FundingNotMissed, NoEscrow, NoPass

(* A step that leaves the row, the approvals, the pass and the clock alone, *)
(* and takes no funding away, keeps the invariant.                          *)
LEMMA EscrowUntouched ==
    ASSUME EscIInv, UNCHANGED <<escRow, escNow, releaseFailed>>,
           fundingMsgs' \in Nat, fundingMsgs' > 0 => settledTx',
           settledTx => settledTx',
           settledTx' => fundingMsgs' > 0 \/ passedBy' \/ (settledTx /\ fundingMsgs = 0 /\ ~passedBy),
           sweep' = sweep \/ sweep' = NoPass \/ sweep' = [stage |-> "release", now |-> escNow]
    PROVE  EscIInv'
<1>1. EscTypes'
    BY DEF EscIInv, EscTypes, escRow, NoPass
<1>2. FundingKnown'
    BY DEF EscIInv, FundingKnown, escRow
<1>3. LocksReleased'
    BY DEF EscIInv, EscTypes, LocksReleased, escRow, NoPass
<1>4. ReleasedIsDue' /\ NothingLeftToRelease' /\ FundedLockNotRefunded'
    BY Zenon DEF EscIInv, ReleasedIsDue, NothingLeftToRelease, FundedLockNotRefunded, escRow
<1>5. FundingNotMissed'
    BY DEF EscIInv, EscTypes, FundingNotMissed, escRow
<1> QED
    BY <1>1, <1>2, <1>3, <1>4, <1>5, Zenon DEF EscIInv

(* Becomes: the row of a step that changes a WAITING escrow.               *)
LEMMA BecomesRow ==
    ASSUME escrow \in Rows, NEW state \in {"WAITING"} \cup Outcomes, NEW funded \in BOOLEAN, Becomes(state, funded)
    PROVE  /\ escrow' \in Rows /\ escrow' # NoEscrow
           /\ escrow'.state = state /\ escrow'.funded = funded
           /\ escrow'.cond = escrow.cond /\ escrow'.timeoutAt = escrow.timeoutAt
BY Zenon DEF Becomes, Rows, NoEscrow

(* A row that exists, as the provers see it.                               *)
LEMMA WaitingIsRow ==
    ASSUME EscTypes, escrow.state \in {"WAITING"} \cup Outcomes
    PROVE  escrow \in Rows /\ escrow # NoEscrow
BY DEF EscTypes, NoEscrow, Rows, Outcomes

(* Every action keeps the invariant.                                       *)
LEMMA EscNextInv == EscIInv /\ [EscrowNext]_escrowVars => EscIInv'
<1> SUFFICES ASSUME EscIInv, [EscrowNext]_escrowVars PROVE EscIInv'
    BY Zenon
<1> USE DEF Outcomes
<1>create. ASSUME NEW c \in Requested, NEW d \in Offsets, CreateEscrow(c, escNow + d) PROVE EscIInv'
  <2>1. c \in [type : {"delivery_confirmation", "time_lock", "multi_party_approval"},
               releaseAt : Nat, approvers : SUBSET EscApprovers, threshold : Int]
      BY RequestedTyped, Zenon DEF EscIInv, EscTypes
  <2>2. escNow + d \in Nat
      BY EscrowManagerAssumption DEF EscrowManagerAssumption, EscIInv, EscTypes
  <2>3. /\ escrow' = [state |-> "WAITING", cond |-> c, funded |-> FALSE, timeoutAt |-> escNow + d]
        /\ escrow = NoEscrow
        /\ c.type = "time_lock" => c.releaseAt < escNow + d
        /\ UNCHANGED <<approvals, fundingSeen, escNow, settledTx, fundingMsgs, sweep, passedBy, releaseFailed>>
      BY <1>create, Zenon DEF CreateEscrow, validateCondition, escWorld, escHistory
  <2>4. escrow' \in Rows /\ escrow' # NoEscrow /\ escrow'.state = "WAITING" /\ escrow'.funded = FALSE
        /\ escrow'.cond = c /\ escrow'.timeoutAt = escNow + d
      BY <2>1, <2>2, <2>3, Zenon DEF Rows, NoEscrow
  <2>5. EscTypes' BY <2>3, <2>4, Zenon DEF EscIInv, EscTypes
  <2>6. FundingKnown' BY <2>3, <2>4, Zenon DEF EscIInv, FundingKnown
  <2>7. LocksReleased' BY <2>3, <2>4, Zenon DEF LocksReleased
  <2>8. ReleasedIsDue' /\ NothingLeftToRelease' /\ FundedLockNotRefunded'
      BY <2>4, Zenon DEF ReleasedIsDue, NothingLeftToRelease, FundedLockNotRefunded
  <2>9. FundingNotMissed' BY <2>3, <2>4, Zenon DEF EscIInv, FundingKnown, FundingNotMissed
  <2> QED BY <2>5, <2>6, <2>7, <2>8, <2>9, Zenon DEF EscIInv
<1>confirm. ASSUME NEW caller \in EscParties, Confirm(caller) PROVE EscIInv'
  <2> DEFINE met == conditionSatisfied(escrow.cond, approvals', escNow)
             next == tryRelease(escrow.funded, met)
  <2>1. /\ escrow \in Rows /\ escrow # NoEscrow /\ escrow.state = "WAITING"
        /\ Becomes(next, escrow.funded)
        /\ UNCHANGED <<fundingSeen, escNow, settledTx, fundingMsgs, sweep, passedBy, releaseFailed>>
      BY <1>confirm, WaitingIsRow, Zenon DEF Confirm, EscIInv, escWorld, escHistory
  <2>2. next \in {"WAITING", "RELEASED"} /\ (next = "RELEASED" <=> escrow.funded /\ met)
      BY Zenon DEF tryRelease
  <2>3. /\ escrow' \in Rows /\ escrow' # NoEscrow /\ escrow'.state = next /\ escrow'.funded = escrow.funded
        /\ escrow'.cond = escrow.cond /\ escrow'.timeoutAt = escrow.timeoutAt
      <3> HIDE DEF next
      <3>1. escrow.funded \in BOOLEAN BY <2>1, Zenon DEF Rows
      <3> QED BY <2>1, <2>2, <3>1, BecomesRow, Zenon
  <2> HIDE DEF next, met
  <2>4. EscTypes' BY <2>1, <2>3, Zenon DEF EscIInv, EscTypes
  <2>5. FundingKnown' BY <2>1, <2>3, Zenon DEF EscIInv, FundingKnown
  <2>6. LocksReleased' BY <2>1, <2>3, Zenon DEF EscIInv, LocksReleased
  <2>7. ReleasedIsDue' BY <2>1, <2>2, <2>3, Zenon DEF EscIInv, ReleasedIsDue, FundingKnown, met
  <2>8. NothingLeftToRelease' BY <2>1, <2>2, <2>3, Zenon DEF NothingLeftToRelease, met
  <2>9. FundedLockNotRefunded' BY <2>2, <2>3, Zenon DEF FundedLockNotRefunded
  <2>10. FundingNotMissed' BY <2>1, <2>3, Zenon DEF EscIInv, FundingNotMissed
  <2> QED BY <2>4, <2>5, <2>6, <2>7, <2>8, <2>9, <2>10, Zenon DEF EscIInv
<1>outcome. ASSUME NEW state \in {"DISPUTED", "REFUNDED"}, escrow.state = "WAITING", Becomes(state, escrow.funded),
                   UNCHANGED <<approvals, fundingSeen, escNow, settledTx, fundingMsgs, passedBy, releaseFailed>>,
                   sweep' = sweep \/ sweep' = NoPass,
                   state = "REFUNDED" => sweep.stage = "refund" /\ escrow.timeoutAt <= sweep.now
            PROVE  EscIInv'
  <2>1. escrow \in Rows /\ escrow # NoEscrow
      BY <1>outcome, WaitingIsRow, Zenon DEF EscIInv
  <2>2. /\ escrow' \in Rows /\ escrow' # NoEscrow /\ escrow'.state = state /\ escrow'.funded = escrow.funded
        /\ escrow'.cond = escrow.cond /\ escrow'.timeoutAt = escrow.timeoutAt
      <3>1. escrow.funded \in BOOLEAN BY <2>1, Zenon DEF Rows
      <3> QED BY <1>outcome, <2>1, <3>1, BecomesRow, Zenon
  <2>3. EscTypes' BY <1>outcome, <2>2 DEF EscIInv, EscTypes, NoPass
  <2>4. FundingKnown' BY <1>outcome, <2>1, <2>2, Zenon DEF EscIInv, FundingKnown
  <2>5. LocksReleased' BY <1>outcome, <2>1, <2>2, Zenon DEF EscIInv, LocksReleased
  <2>6. FundedLockNotRefunded'
      <3> SUFFICES ASSUME state = "REFUNDED", escrow.funded, escrow.cond.type = "time_lock", ~releaseFailed
                   PROVE  FALSE
          BY <1>outcome, <2>2, Zenon DEF FundedLockNotRefunded
      <3>1. escrow.cond.releaseAt < escrow.timeoutAt /\ escrow.cond.releaseAt > sweep.now
          BY <1>outcome, <2>1, Zenon DEF EscIInv, LocksReleased
      <3>2. escrow.cond.releaseAt \in Nat /\ escrow.timeoutAt \in Nat /\ sweep.now \in Nat
          BY <2>1, Zenon DEF EscIInv, EscTypes, Rows
      <3> QED BY <1>outcome, <3>1, <3>2
  <2>7. ReleasedIsDue' /\ NothingLeftToRelease' /\ FundingNotMissed'
      BY <1>outcome, <2>2, Zenon DEF ReleasedIsDue, NothingLeftToRelease, FundingNotMissed
  <2> QED BY <2>3, <2>4, <2>5, <2>6, <2>7, Zenon DEF EscIInv
<1>dispute. ASSUME NEW caller \in EscParties, Dispute(caller) PROVE EscIInv'
    BY <1>dispute, <1>outcome, Zenon DEF Dispute, escWorld, escHistory
<1>fund. ASSUME HandlePaylinkVerified PROVE EscIInv'
  <2>0. /\ fundingMsgs > 0 /\ fundingMsgs' = fundingMsgs - 1 /\ fundingMsgs' \in Nat
        /\ UNCHANGED <<escNow, settledTx, sweep, releaseFailed>> /\ settledTx
      BY <1>fund DEF HandlePaylinkVerified, EscIInv, EscTypes, FundingKnown
  <2>1. CASE escrow = NoEscrow /\ passedBy' = TRUE /\ UNCHANGED <<escRow, unsent>>
      BY <2>0, <2>1, EscrowUntouched, Zenon
  <2>2. CASE escrow # NoEscrow /\ fundingSeen /\ UNCHANGED <<escRow, unsent, passedBy>>
    <3>1. EscTypes' /\ FundingKnown' /\ LocksReleased'
        BY <2>0, <2>2, Zenon DEF EscIInv, EscTypes, FundingKnown, LocksReleased, escRow
    <3>2. ReleasedIsDue' /\ NothingLeftToRelease' /\ FundedLockNotRefunded'
        BY <2>0, <2>2, Zenon DEF EscIInv, ReleasedIsDue, NothingLeftToRelease, FundedLockNotRefunded, escRow
    <3>3. FundingNotMissed'
        BY <2>0, <2>2, Zenon DEF EscIInv, FundingKnown, FundingNotMissed, escRow
    <3> QED BY <3>1, <3>2, <3>3, Zenon DEF EscIInv
  <2>3. CASE /\ escrow # NoEscrow /\ ~fundingSeen /\ fundingSeen' = TRUE
             /\ escrow.state # "WAITING" /\ UNCHANGED <<escrow, unsent, approvals, passedBy>>
    <3>1. EscTypes' /\ FundingKnown' /\ LocksReleased'
        BY <2>0, <2>3, Zenon DEF EscIInv, EscTypes, FundingKnown, LocksReleased
    <3>2. ReleasedIsDue' /\ NothingLeftToRelease' /\ FundedLockNotRefunded' /\ FundingNotMissed'
        BY <2>0, <2>3, Zenon DEF EscIInv, ReleasedIsDue, NothingLeftToRelease, FundedLockNotRefunded, FundingNotMissed
    <3> QED BY <3>1, <3>2, Zenon DEF EscIInv
  <2>4. CASE /\ escrow # NoEscrow /\ ~fundingSeen /\ fundingSeen' = TRUE
             /\ escrow.state = "WAITING" /\ Becomes(FundedState, TRUE) /\ UNCHANGED <<approvals, passedBy>>
    <3> DEFINE met == conditionSatisfied(escrow.cond, approvals, escNow)
    <3>1. FundedState \in {"WAITING", "RELEASED"} /\ (FundedState = "RELEASED" <=> met)
        BY Zenon DEF FundedState, tryRelease
    <3>2. escrow \in Rows
        BY <2>4, Zenon DEF EscIInv, EscTypes
    <3>3. /\ escrow' \in Rows /\ escrow' # NoEscrow /\ escrow'.state = FundedState /\ escrow'.funded = TRUE
          /\ escrow'.cond = escrow.cond /\ escrow'.timeoutAt = escrow.timeoutAt
        BY <2>4, <3>1, <3>2, BecomesRow, Zenon
    <3>4. EscTypes' BY <2>0, <3>3, Zenon DEF EscIInv, EscTypes
    <3>5. FundingKnown' BY <2>0, <2>4, <3>3, Zenon DEF FundingKnown
    <3>6. LocksReleased'
      <4>1. escrow.cond.type = "time_lock" /\ FundedState = "WAITING" => escrow.cond.releaseAt > escNow
          BY <3>1, <3>2 DEF conditionSatisfied, Rows, EscIInv, EscTypes
      <4>2. escrow.cond.releaseAt \in Nat /\ escNow \in Nat /\ sweep.now \in Nat /\ sweep.now <= escNow
          BY <3>2, Zenon DEF Rows, EscIInv, EscTypes
      <4> QED BY <2>0, <2>4, <3>3, <4>1, <4>2 DEF EscIInv, LocksReleased
    <3>7. ReleasedIsDue' BY <2>0, <2>4, <3>1, <3>3, Zenon DEF ReleasedIsDue
    <3>8. NothingLeftToRelease' BY <2>0, <2>4, <3>1, <3>3, Zenon DEF NothingLeftToRelease
    <3>9. FundedLockNotRefunded' /\ FundingNotMissed'
        BY <3>1, <3>3, Zenon DEF FundedLockNotRefunded, FundingNotMissed
    <3> QED BY <3>4, <3>5, <3>6, <3>7, <3>8, <3>9, Zenon DEF EscIInv
  <2> QED BY <1>fund, <2>1, <2>2, <2>3, <2>4, Zenon DEF HandlePaylinkVerified
<1>release. ASSUME ReleaseDueTimeLocks PROVE EscIInv'
  <2>0. /\ sweep.stage = "release" /\ sweep' = [sweep EXCEPT !.stage = "refund"]
        /\ UNCHANGED <<approvals, fundingSeen, escNow, settledTx, fundingMsgs, passedBy, releaseFailed>>
      BY <1>release, Zenon DEF ReleaseDueTimeLocks, escWorld, escHistory
  <2>1. /\ sweep' \in [stage : {"none", "release", "refund"}, now : Nat]
        /\ sweep'.now = sweep.now /\ sweep.now \in Nat /\ escNow \in Nat /\ sweep.now <= escNow
      BY <2>0, Zenon DEF EscIInv, EscTypes
  <2>2. CASE Due /\ Becomes("RELEASED", TRUE)
    <3>1. escrow \in Rows /\ escrow # NoEscrow
        BY <2>2, WaitingIsRow, Zenon DEF Due, EscIInv
    <3>2. /\ escrow' \in Rows /\ escrow' # NoEscrow /\ escrow'.state = "RELEASED" /\ escrow'.funded = TRUE
          /\ escrow'.cond = escrow.cond /\ escrow'.timeoutAt = escrow.timeoutAt
        BY <2>2, <3>1, BecomesRow, Zenon
    <3>3. conditionSatisfied(escrow.cond, approvals, escNow)
        BY <2>1, <2>2, <3>1 DEF Due, conditionSatisfied, Rows
    <3>4. EscTypes' /\ LocksReleased'
        BY <2>0, <2>1, <3>1, <3>2, Zenon DEF EscIInv, EscTypes, LocksReleased
    <3>5. FundingKnown'
        BY <2>0, <2>2, <3>1, <3>2, Zenon DEF Due, EscIInv, FundingKnown
    <3>6. ReleasedIsDue'
        BY <2>0, <2>2, <3>1, <3>2, <3>3, Zenon DEF Due, EscIInv, FundingKnown, ReleasedIsDue
    <3>7. NothingLeftToRelease' /\ FundedLockNotRefunded' /\ FundingNotMissed'
        BY <3>2, Zenon DEF NothingLeftToRelease, FundedLockNotRefunded, FundingNotMissed
    <3> QED BY <3>4, <3>5, <3>6, <3>7, Zenon DEF EscIInv
  <2>3. CASE ~Due /\ UNCHANGED <<escrow, unsent>>
    <3>1. EscTypes' /\ FundingKnown'
        BY <2>0, <2>1, <2>3, Zenon DEF EscIInv, EscTypes, FundingKnown
    <3>2. LocksReleased'
        BY <2>0, <2>1, <2>3 DEF Due, EscIInv, EscTypes, Rows, LocksReleased
    <3>3. ReleasedIsDue' /\ NothingLeftToRelease' /\ FundedLockNotRefunded' /\ FundingNotMissed'
        BY <2>0, <2>3, Zenon DEF EscIInv, ReleasedIsDue, NothingLeftToRelease, FundedLockNotRefunded, FundingNotMissed
    <3> QED BY <3>1, <3>2, <3>3, Zenon DEF EscIInv
  <2> QED BY <1>release, <2>2, <2>3, Zenon DEF ReleaseDueTimeLocks
<1>fails. ASSUME ReleaseFails PROVE EscIInv'
  <2>1. /\ sweep' = [sweep EXCEPT !.stage = "refund"] /\ releaseFailed' = TRUE
        /\ UNCHANGED <<escrow, approvals, fundingSeen, escNow, settledTx, fundingMsgs, passedBy>>
      BY <1>fails, Zenon DEF ReleaseFails, escRow, escWorld
  <2>2. EscTypes' /\ FundingKnown' /\ LocksReleased'
      BY <2>1, Zenon DEF EscIInv, EscTypes, FundingKnown, LocksReleased
  <2>3. ReleasedIsDue' /\ NothingLeftToRelease' /\ FundedLockNotRefunded' /\ FundingNotMissed'
      BY <2>1, Zenon DEF EscIInv, ReleasedIsDue, NothingLeftToRelease, FundedLockNotRefunded, FundingNotMissed
  <2> QED BY <2>2, <2>3, Zenon DEF EscIInv
<1>refund. ASSUME RefundTimedOut PROVE EscIInv'
  <2>1. CASE TimedOut
      BY <1>refund, <1>outcome, <2>1, Zenon DEF RefundTimedOut, TimedOut, escWorld, escHistory
  <2>2. CASE ~TimedOut
      BY <1>refund, <2>2, EscrowUntouched
      DEF RefundTimedOut, escRow, escWorld, escHistory, EscIInv, EscTypes, FundingKnown
  <2> QED BY <2>1, <2>2, Zenon
<1>tick. ASSUME EscrowTick PROVE EscIInv'
  <2>1. /\ escNow' = escNow + 1 /\ escNow \in Nat
        /\ UNCHANGED <<escrow, approvals, fundingSeen, settledTx, fundingMsgs, sweep, passedBy, releaseFailed>>
      BY <1>tick, Zenon DEF EscrowTick, escRow, escHistory, EscIInv, EscTypes
  <2>2. EscTypes' /\ FundingKnown' /\ LocksReleased'
      BY <2>1 DEF EscIInv, EscTypes, FundingKnown, LocksReleased
  <2>3. ReleasedIsDue'
      BY <2>1, WaitingIsRow, SatisfiedStays DEF EscIInv, EscTypes, ReleasedIsDue
  <2>4. NothingLeftToRelease'
      BY <2>1, WaitingIsRow, OnlyLocksWait, Zenon DEF EscIInv, NothingLeftToRelease
  <2>5. FundedLockNotRefunded' /\ FundingNotMissed'
      BY <2>1, Zenon DEF EscIInv, FundedLockNotRefunded, FundingNotMissed
  <2> QED BY <2>2, <2>3, <2>4, <2>5, Zenon DEF EscIInv
<1>other. ASSUME \/ LoseFunding \/ RepeatFunding \/ SettlesOnChain \/ StartSweep \/ RefundFails
                 \/ (\E state \in unsent : PublishEscrow(state) \/ PublishEscrowFails(state))
                 \/ EscrowCrash \/ UNCHANGED escrowVars
          PROVE  EscIInv'
  <2>types. fundingMsgs \in Nat /\ (fundingMsgs > 0 => settledTx)
      BY Zenon DEF EscIInv, EscTypes, FundingKnown
  <2> USE DEF escRow, escWorld, escHistory
  <2>1. CASE LoseFunding
      BY <2>1, <2>types, EscrowUntouched DEF LoseFunding
  <2>2. CASE RepeatFunding
      BY <2>2, <2>types, EscrowUntouched DEF RepeatFunding
  <2>3. CASE SettlesOnChain
      BY <2>3, <2>types, EscrowUntouched DEF SettlesOnChain
  <2>4. CASE StartSweep
      BY <2>4, <2>types, EscrowUntouched DEF StartSweep
  <2>5. CASE RefundFails
      BY <2>5, <2>types, EscrowUntouched DEF RefundFails
  <2>6. ASSUME NEW state \in unsent, PublishEscrow(state) PROVE EscIInv'
      BY <2>6, <2>types, EscrowUntouched DEF PublishEscrow
  <2>7. ASSUME NEW state \in unsent, PublishEscrowFails(state) PROVE EscIInv'
      BY <2>7, <2>types, EscrowUntouched DEF PublishEscrowFails
  <2>8. CASE EscrowCrash
      BY <2>8, <2>types, EscrowUntouched DEF EscrowCrash
  <2>9. CASE UNCHANGED escrowVars
      BY <2>9, <2>types, EscrowUntouched DEF escrowVars
  <2> QED BY <1>other, <2>1, <2>2, <2>3, <2>4, <2>5, <2>6, <2>7, <2>8, <2>9, Zenon
<1> QED
    BY <1>create, <1>confirm, <1>dispute, <1>fund, <1>release, <1>fails, <1>refund, <1>tick, <1>other, Zenon
    DEF EscrowNext, EscSweepStep

-----------------------------------------------------------------------------
(* The invariant holds in every state the service can reach.               *)
LEMMA EscAlways == EscrowSpec => []EscIInv
BY EscInitInv, EscNextInv, PTL DEF EscrowSpec

(* tryRelease, ReleaseDueTimeLocks: an escrow is released only when it is   *)
(* funded, its condition is met and the chain has settled the PayLink.      *)
THEOREM ReleasedIsDueAlways == EscrowSpec => []ReleasedIsDue
<1>1. EscIInv => ReleasedIsDue BY Zenon DEF EscIInv
<1> QED BY EscAlways, <1>1, PTL

(* Confirm and HandlePaylinkVerified, in either order, leave no funded      *)
(* escrow waiting whose parties have agreed.                                *)
THEOREM NothingLeftToReleaseAlways == EscrowSpec => []NothingLeftToRelease
<1>1. EscIInv => NothingLeftToRelease BY Zenon DEF EscIInv
<1> QED BY EscAlways, <1>1, PTL

(* Sweep: a funded time lock is refunded only if a release failed.          *)
THEOREM FundedLockNotRefundedAlways == EscrowSpec => []FundedLockNotRefunded
<1>1. EscIInv => FundedLockNotRefunded BY Zenon DEF EscIInv
<1> QED BY EscAlways, <1>1, PTL

(* HandlePaylinkVerified: a settlement is missed only if its event was.     *)
THEOREM FundingNotMissedAlways == EscrowSpec => []FundingNotMissed
<1>1. EscIInv => FundingNotMissed BY Zenon DEF EscIInv
<1> QED BY EscAlways, <1>1, PTL

(* Released, refunded and disputed escrows are never touched again by a     *)
(* confirmation, a dispute, a funding event or the sweeper (the WAITING     *)
(* tests of Mutate's callers and of the conditional updates).               *)
THEOREM OutcomesAreFinal == EscrowSpec => OutcomeFinal
<1>1. [EscrowNext]_escrowVars => [escrow.state \in Outcomes => escrow' = escrow /\ approvals' = approvals]_escrowVars
  <2> SUFFICES ASSUME EscrowNext, escrow.state \in Outcomes PROVE escrow' = escrow /\ approvals' = approvals
      BY Zenon
  <2>1. escrow.state # "WAITING" /\ escrow # NoEscrow
      BY DEF Outcomes, NoEscrow
  <2>2. ASSUME NEW c \in Requested, NEW d \in Offsets, CreateEscrow(c, escNow + d) PROVE FALSE
      BY <2>1, <2>2, Zenon DEF CreateEscrow
  <2>3. ASSUME NEW caller \in EscParties, Confirm(caller) \/ Dispute(caller) PROVE FALSE
      BY <2>1, <2>3, Zenon DEF Confirm, Dispute
  <2>4. HandlePaylinkVerified => UNCHANGED <<escrow, approvals>>
      BY <2>1, Zenon DEF HandlePaylinkVerified, escRow
  <2>5. ReleaseDueTimeLocks \/ RefundTimedOut => UNCHANGED <<escrow, approvals>>
      BY <2>1, Zenon DEF ReleaseDueTimeLocks, RefundTimedOut, Due, TimedOut
  <2>6. \/ LoseFunding \/ RepeatFunding \/ SettlesOnChain \/ StartSweep \/ ReleaseFails \/ RefundFails
        \/ (\E state \in unsent : PublishEscrow(state) \/ PublishEscrowFails(state))
        \/ EscrowCrash \/ EscrowTick
        => UNCHANGED <<escrow, approvals>>
      BY Zenon DEF LoseFunding, RepeatFunding, SettlesOnChain, StartSweep, ReleaseFails, RefundFails,
             PublishEscrow, PublishEscrowFails, EscrowCrash, EscrowTick, escRow
  <2> QED BY <2>2, <2>3, <2>4, <2>5, <2>6, Zenon DEF EscrowNext, EscSweepStep
<1> QED BY <1>1, PTL DEF EscrowSpec, OutcomeFinal

-----------------------------------------------------------------------------
(* What is announced or about to be was committed: the creation, and the    *)
(* state that the row has now.                                              *)
Announced ==
    /\ escEvents \in Seq({"WAITING"} \cup Outcomes)
    /\ escrow = NoEscrow => unsent = {} /\ escEvents = <<>>
    /\ escrow # NoEscrow => unsent \subseteq {"WAITING", escrow.state}
    /\ OutcomeToldOnce

(* A WAITING row that becomes anything has announced nothing but itself.    *)
LEMMA BecomesAnnounced ==
    ASSUME Announced, escrow \in Rows, escrow.state = "WAITING", escEvents' = escEvents,
           NEW state \in {"WAITING"} \cup Outcomes, NEW funded \in BOOLEAN, Becomes(state, funded)
    PROVE  Announced'
<1>1. escrow' \in Rows /\ escrow' # NoEscrow /\ escrow'.state = state
    BY BecomesRow, Zenon
<1>2. unsent' \subseteq {"WAITING", state} /\ unsent' \subseteq unsent \cup ({state} \ {"WAITING"})
    BY Zenon DEF Announced, Becomes, Rows, NoEscrow
<1>3. \A i \in DOMAIN escEvents : escEvents[i] = "WAITING"
    BY Zenon DEF Announced, OutcomeToldOnce
<1> QED BY <1>1, <1>2, <1>3, Zenon DEF Announced, OutcomeToldOnce

(* Every step announces at most what it commits.                            *)
LEMMA AnnouncedNext == EscIInv /\ Announced /\ [EscrowNext]_escrowVars => Announced'
<1> SUFFICES ASSUME EscIInv, Announced, [EscrowNext]_escrowVars PROVE Announced'
    BY Zenon
<1>create. ASSUME NEW c \in Requested, NEW d \in Offsets, CreateEscrow(c, escNow + d) PROVE Announced'
  <2>1. escrow'.state = "WAITING" /\ escrow' # NoEscrow /\ unsent' = {"WAITING"} /\ escEvents' = <<>>
      BY <1>create, Zenon DEF CreateEscrow, Announced, NoEscrow
  <2> QED BY <2>1 DEF Announced, OutcomeToldOnce
<1>becomes. ASSUME NEW state \in {"WAITING"} \cup Outcomes, NEW funded \in BOOLEAN, Becomes(state, funded),
                   escrow.state = "WAITING", escEvents' = escEvents
            PROVE  Announced'
    BY <1>becomes, WaitingIsRow, BecomesAnnounced, Zenon DEF EscIInv
<1>still. ASSUME escrow' = escrow, escEvents' = escEvents, unsent' \subseteq unsent PROVE Announced'
    BY <1>still, Zenon DEF Announced, OutcomeToldOnce
<1>confirm. ASSUME NEW caller \in EscParties, Confirm(caller) \/ Dispute(caller) PROVE Announced'
  <2>1. escrow \in Rows
      BY <1>confirm, WaitingIsRow, Zenon DEF Confirm, Dispute, EscIInv
  <2> QED BY <1>confirm, <1>becomes, <2>1, Zenon DEF Confirm, Dispute, tryRelease, Outcomes, Rows
<1>fund. ASSUME HandlePaylinkVerified PROVE Announced'
    BY <1>fund, <1>becomes, <1>still, Zenon DEF HandlePaylinkVerified, FundedState, tryRelease, Outcomes, escRow
<1>sweep. ASSUME ReleaseDueTimeLocks \/ RefundTimedOut PROVE Announced'
  <2>1. escrow.state = "WAITING" => escrow \in Rows
      BY WaitingIsRow, Zenon DEF EscIInv
  <2> QED BY <1>sweep, <1>becomes, <1>still, <2>1, Zenon
          DEF ReleaseDueTimeLocks, RefundTimedOut, Due, TimedOut, Outcomes, Rows
<1>publish. ASSUME NEW state \in unsent, PublishEscrow(state) PROVE Announced'
  <2>1. escrow # NoEscrow /\ state \in {"WAITING", escrow.state} /\ state \in {"WAITING"} \cup Outcomes
      BY <1>publish, Zenon DEF Announced, EscIInv, EscTypes, Rows
  <2>2. /\ escrow' = escrow /\ unsent' = unsent \ {state} /\ escEvents' = Append(escEvents, state)
        /\ escEvents' \in Seq({"WAITING"} \cup Outcomes)
        /\ DOMAIN escEvents' = 1..Len(escEvents) + 1
        /\ \A i \in 1..Len(escEvents) : escEvents'[i] = escEvents[i]
        /\ escEvents'[Len(escEvents) + 1] = state
      BY <1>publish, <2>1 DEF PublishEscrow, escRow, Announced
  <2>3. \A i \in 1..Len(escEvents) : escEvents[i] # state /\ escEvents[i] \notin unsent'
                                     /\ escEvents[i] \in {"WAITING", escrow.state}
      BY <1>publish, <2>2 DEF Announced, OutcomeToldOnce
  <2>4. \A i, j \in 1..Len(escEvents) : escEvents[i] = escEvents[j] => i = j
      BY DEF Announced, OutcomeToldOnce
  <2>5. OutcomeToldOnce'
      BY <2>1, <2>2, <2>3, <2>4 DEF OutcomeToldOnce, Announced
  <2> QED BY <2>1, <2>2, <2>5, Zenon DEF Announced
<1>other. ASSUME \/ LoseFunding \/ RepeatFunding \/ SettlesOnChain \/ StartSweep \/ ReleaseFails \/ RefundFails
                 \/ (\E state \in unsent : PublishEscrowFails(state))
                 \/ EscrowCrash \/ EscrowTick \/ UNCHANGED escrowVars
          PROVE  Announced'
    BY <1>other, <1>still, Zenon
    DEF LoseFunding, RepeatFunding, SettlesOnChain, StartSweep, ReleaseFails, RefundFails,
        PublishEscrowFails, EscrowCrash, EscrowTick, escrowVars, escRow
<1> QED BY <1>create, <1>confirm, <1>fund, <1>sweep, <1>publish, <1>other, Zenon DEF EscrowNext, EscSweepStep

(* publish: the creation and the one outcome that was committed reach the   *)
(* bus at most once each, for any interleaving of requests, funding events  *)
(* and passes.                                                              *)
THEOREM OutcomeToldOnceAlways == EscrowSpec => []OutcomeToldOnce
<1>1. EscrowInit => Announced
    BY DEF EscrowInit, Announced, OutcomeToldOnce
<1>2. Announced => OutcomeToldOnce BY Zenon DEF Announced
<1> QED BY <1>1, <1>2, EscAlways, AnnouncedNext, PTL DEF EscrowSpec

(* The contract of an escrow as a whole, for any parties, approvers, times   *)
(* and number of faults.                                                    *)
THEOREM EscrowSafeAlways == EscrowSpec => []EscrowSafe
<1>1. ReleasedIsDue /\ NothingLeftToRelease /\ FundedLockNotRefunded /\ FundingNotMissed
      /\ OutcomeToldOnce => EscrowSafe
    BY Zenon DEF EscrowSafe
<1> QED BY <1>1, ReleasedIsDueAlways, NothingLeftToReleaseAlways, FundedLockNotRefundedAlways,
           FundingNotMissedAlways, OutcomeToldOnceAlways, PTL

-----------------------------------------------------------------------------
(* AuditLog: the log is one line while nobody damages it, a verification    *)
(* raises no false alarm, and it covers the range that it was asked for.    *)

LessThan == {ss \in Nat \X Nat : ss[1] < ss[2]}

(* Numbers are well founded.                                               *)
LEMMA LessThanWellFounded == IsWellFoundedOn(LessThan, Nat)
<1>1. OpToRel(<, Nat) = LessThan
    BY Zenon DEF OpToRel, LessThan
<1> QED BY <1>1, NatLessThanWellFounded, Zenon

(* The relation is the order.                                              *)
LEMMA NotLessThan == \A a, b \in Nat : ~(<<a, b>> \in LessThan) => b <= a
<1> SUFFICES ASSUME NEW a \in Nat, NEW b \in Nat, ~(b <= a) PROVE <<a, b>> \in LessThan
    BY Zenon
<1>1. <<a, b>> \in Nat \X Nat /\ <<a, b>>[1] = a /\ <<a, b>>[2] = b
    BY Zenon
<1>2. a < b
    OBVIOUS
<1> QED BY <1>1, <1>2, Zenon DEF LessThan

(* LIMIT 1 after ORDER BY entry_id: a set of ids has a least element.       *)
LEMMA LeastIsLeast ==
    ASSUME NEW S, S \subseteq Nat, S # {}
    PROVE  LeastId(S) \in S /\ \A j \in S : LeastId(S) <= j
<1>1. PICK m \in S : \A j \in S : ~(<<j, m>> \in LessThan)
    BY WFMin, LessThanWellFounded, Zenon
<1>2. \A j \in S : m <= j
    BY <1>1, NotLessThan, Zenon
<1> QED BY <1>2, Zenon DEF LeastId

(* LIMIT 1 after ORDER BY entry_id DESC: the ids so far have a greatest.    *)
LEMMA GreatestIsGreatest ==
    ASSUME NEW S, NEW n \in Nat, S \subseteq 1..n, S # {}
    PROVE  GreatestId(S) \in S /\ \A j \in S : j <= GreatestId(S)
<1> DEFINE T == {n - i : i \in S}
<1>1. T \subseteq Nat /\ T # {}
  <2>1. \A i \in S : n - i \in Nat
      OBVIOUS
  <2> QED BY <2>1, Zenon
<1>2. PICK m \in T : \A j \in T : ~(<<j, m>> \in LessThan)
    BY <1>1, WFMin, LessThanWellFounded, Zenon
<1>3. \A j \in T : m <= j
    BY <1>1, <1>2, NotLessThan, Zenon
<1>4. PICK g \in S : m = n - g
    BY <1>2, Zenon
<1>5. ASSUME NEW j \in S PROVE j <= g
  <2>1. n - j \in T
      BY Zenon
  <2>2. m <= n - j
      BY <1>3, <2>1, Zenon
  <2>3. n - g <= n - j
      BY <1>4, <2>2, Zenon
  <2>4. j \in Int /\ g \in Int
      OBVIOUS
  <2> HIDE DEF T
  <2> QED BY <2>3, <2>4, SMT
<1> QED BY <1>5, Zenon DEF GreatestId

-----------------------------------------------------------------------------
(* The lock admits one append at a time, whose prev is the tail: ids come   *)
(* from a sequence that only grows, so the tail is the row with the         *)
(* greatest id.                                                             *)
LogTypes ==
    /\ lastId \in Nat /\ lastId <= MaxEntryId
    /\ Ids \subseteq 1..lastId
    /\ DOMAIN appending = LogWriters
    /\ \A v, w \in LogWriters : appending[v] # NoAppend /\ appending[w] # NoAppend => v = w

TailLinked ==
    damage = Undamaged =>
        \A w \in LogWriters : appending[w] # NoAppend => appending[w].prev = HashBefore(MaxEntryId + 1)

LogInv == LogTypes /\ TailLinked /\ ChainIsLinear

(* The hash before an id depends on the rows before it only.                *)
LEMMA HashBeforeKept ==
    ASSUME LogTypes, NEW id, {i \in Ids' : i < id} = {i \in Ids : i < id},
           \A i \in Ids : i < id => logRows'[i].hash = logRows[i].hash
    PROVE  HashBefore(id)' = HashBefore(id)
<1> DEFINE earlier == {i \in Ids : i < id}
<1>1. earlier # {} => GreatestId(earlier) \in earlier
    BY GreatestIsGreatest, earlier \subseteq 1..lastId, Zenon DEF LogTypes
<1>2. earlier # {} => logRows'[GreatestId(earlier)].hash = logRows[GreatestId(earlier)].hash
    BY <1>1, Zenon
<1>3. HashBefore(id) = IF earlier = {} THEN Genesis ELSE logRows[GreatestId(earlier)].hash
    BY Zenon DEF HashBefore
<1>4. HashBefore(id)' = IF earlier = {} THEN Genesis ELSE logRows'[GreatestId(earlier)].hash
    BY Zenon DEF HashBefore
<1> QED BY <1>2, <1>3, <1>4

(* A row that InsertEntry adds comes after all others.                      *)
LEMMA InsertedLast ==
    ASSUME LogTypes, NEW w \in LogWriters, InsertEntry(w)
    PROVE  /\ lastId' = lastId + 1 /\ lastId' <= MaxEntryId
           /\ Ids' = Ids \cup {lastId'}
           /\ \A i \in Ids : i < lastId' /\ logRows'[i] = logRows[i]
           /\ logRows'[lastId'] = BuildEntry(w)
           /\ \A id \in Ids : HashBefore(id)' = HashBefore(id)
           /\ \A n \in Nat : n = lastId' => HashBefore(n)' = HashBefore(MaxEntryId + 1)
<1>1. /\ lastId' = lastId + 1 /\ lastId' \in Nat /\ lastId' <= MaxEntryId
      /\ Ids' = Ids \cup {lastId'}
      /\ \A i \in Ids : i \in Nat /\ i < lastId' /\ i # lastId'
    BY AuditLogAssumption DEF LogTypes, InsertEntry, Ids, AuditLogAssumption
<1>2. logRows'[lastId'] = BuildEntry(w) /\ \A i \in Ids : logRows'[i] = logRows[i]
    BY <1>1, Zenon DEF InsertEntry
<1>3. ASSUME NEW id \in Ids PROVE HashBefore(id)' = HashBefore(id)
  <2>1. {i \in Ids' : i < id} = {i \in Ids : i < id}
      BY <1>1
  <2> QED BY <2>1, <1>2, HashBeforeKept, Zenon
<1>4. ASSUME NEW n \in Nat, n = lastId' PROVE HashBefore(n)' = HashBefore(MaxEntryId + 1)
  <2>1. {i \in Ids' : i < n} = Ids /\ {i \in Ids : i < n} = Ids
      BY <1>1, <1>4
  <2>2. {i \in Ids : i < MaxEntryId + 1} = Ids
      BY <1>1, AuditLogAssumption DEF AuditLogAssumption
  <2>3. HashBefore(n)' = HashBefore(n)
      BY <2>1, <1>2, HashBeforeKept, Zenon
  <2>4. HashBefore(n) = HashBefore(MaxEntryId + 1)
      BY <2>1, <2>2, Zenon DEF HashBefore
  <2> QED BY <2>3, <2>4, Zenon
<1> QED BY <1>1, <1>2, <1>3, <1>4, Zenon

(* The log begins empty and unlocked.                                      *)
LEMMA LogInit == AuditInit => LogInv
BY AuditLogAssumption
   DEF AuditInit, LogInv, LogTypes, TailLinked, ChainIsLinear, Ids, AuditLogAssumption

(* A step that touches neither the rows nor the appends.                    *)
LEMMA LogUntouched ==
    ASSUME LogInv, UNCHANGED <<logRows, lastId, appending>>, damage' = damage
    PROVE  LogInv'
BY Zenon DEF LogInv, LogTypes, TailLinked, ChainIsLinear, CheckEntry, HashBefore, Ids

(* Appends keep the line, whoever holds the lock and however often one is   *)
(* rolled back; damage ends all that is claimed.                            *)
LEMMA LogNext == LogInv /\ [AuditNext]_auditVars => LogInv'
<1> SUFFICES ASSUME LogInv, [AuditNext]_auditVars PROVE LogInv'
    BY Zenon
<1>types. LogTypes
    BY Zenon DEF LogInv
<1>read. ASSUME NEW w \in LogWriters, NEW at \in LogTimes, ReadTail(w, at) PROVE LogInv'
  <2>1. HashBefore(MaxEntryId + 1)' = HashBefore(MaxEntryId + 1) /\ ChainIsLinear' /\ damage' = damage
      BY <1>read, Zenon DEF ReadTail, HashBefore, Ids, LogInv, ChainIsLinear, CheckEntry
  <2>2. /\ DOMAIN appending' = LogWriters
        /\ \A v \in LogWriters : v # w => appending'[v] = NoAppend
        /\ appending'[w].prev = HashBefore(MaxEntryId + 1)
      BY <1>read, <1>types, Zenon DEF ReadTail, LockFree, LogTypes
  <2>3. LogTypes'
      BY <1>read, <1>types, <2>2, Zenon DEF ReadTail, LogTypes, Ids
  <2>4. TailLinked'
      BY <2>1, <2>2, Zenon DEF TailLinked
  <2> QED BY <2>1, <2>3, <2>4, Zenon DEF LogInv
<1>insert. ASSUME NEW w \in LogWriters, InsertEntry(w) PROVE LogInv'
  <2>1. \A v \in LogWriters : appending'[v] = NoAppend
      BY <1>insert, <1>types, Zenon DEF InsertEntry, LogTypes
  <2>2. LogTypes'
    <3>1. DOMAIN appending' = LogWriters
        BY <1>insert, <1>types, Zenon DEF InsertEntry, LogTypes
    <3>2. lastId' \in Nat /\ lastId' <= MaxEntryId /\ Ids' \subseteq 1..lastId'
      <4>1. lastId' = lastId + 1 /\ lastId' <= MaxEntryId /\ Ids' = Ids \cup {lastId'}
          BY <1>insert, <1>types, InsertedLast, Zenon
      <4> QED BY <4>1, <1>types DEF LogTypes
    <3> QED BY <3>1, <3>2, <2>1, Zenon DEF LogTypes
  <2>3. TailLinked'
      BY <2>1, Zenon DEF TailLinked
  <2>4. ChainIsLinear'
    <3> SUFFICES ASSUME damage' = Undamaged, NEW id \in Ids' PROVE CheckEntry(id, HashBefore(id))'
        BY Zenon DEF ChainIsLinear
    <3>1. damage = Undamaged
        BY <1>insert, Zenon DEF InsertEntry
    <3>2. CASE id \in Ids
        BY <3>1, <3>2, <1>insert, <1>types, InsertedLast, Zenon DEF LogInv, ChainIsLinear, CheckEntry
    <3>3. CASE id = lastId'
      <4>1. /\ logRows'[id] = BuildEntry(w) /\ HashBefore(id)' = HashBefore(MaxEntryId + 1)
          BY <3>3, <1>insert, <1>types, InsertedLast DEF LogTypes
      <4>2. appending[w].prev = HashBefore(MaxEntryId + 1)
          BY <3>1, <1>insert, Zenon DEF LogInv, TailLinked, InsertEntry
      <4> QED BY <4>1, <4>2 DEF BuildEntry, CheckEntry
    <3> QED BY <3>2, <3>3, <1>insert, <1>types, InsertedLast, Zenon
  <2> QED BY <2>2, <2>3, <2>4, Zenon DEF LogInv
<1>fail. ASSUME NEW w \in LogWriters, AppendFails(w) PROVE LogInv'
  <2>1. LogTypes'
      BY <1>fail, <1>types DEF AppendFails, LogTypes, Ids
  <2>2. TailLinked' /\ ChainIsLinear'
      BY <1>fail, <1>types, Zenon DEF AppendFails, LogTypes, LogInv, TailLinked, ChainIsLinear, CheckEntry, HashBefore, Ids
  <2> QED BY <2>1, <2>2, Zenon DEF LogInv
<1>damage. ASSUME NEW id \in Ids, RemoveRow(id) \/ \E column \in {"canonical", "prev", "hash"} : EditRow(id, column)
           PROVE  LogInv'
  <2>1. damage' # Undamaged /\ UNCHANGED <<lastId, appending>> /\ Ids' \subseteq Ids
      BY <1>damage DEF RemoveRow, EditRow, Disturbs, Undamaged, Ids
  <2>2. LogTypes'
      BY <2>1, <1>types, Zenon DEF LogTypes
  <2> QED BY <2>1, <2>2, Zenon DEF LogInv, TailLinked, ChainIsLinear
<1>check. ASSUME \/ \E from, to \in LogTimes \cup {NoTime} : FindStart(from, to)
                 \/ FindEnd \/ FindSeed \/ Walk \/ EndCheck \/ UNCHANGED auditVars
          PROVE  LogInv'
    BY <1>check, LogUntouched, Zenon DEF FindStart, FindEnd, FindSeed, Walk, EndCheck, auditVars
<1> QED BY <1>read, <1>insert, <1>fail, <1>damage, <1>check, Zenon DEF AuditNext

(* Every reachable log is linked as the lock promises.                     *)
LEMMA LogAlways == AuditSpec => []LogInv
BY LogInit, LogNext, PTL DEF AuditSpec

(* pg_advisory_xact_lock in Append: for any number of writers, rollbacks    *)
(* and entries, the undamaged log is one line in the order of its ids.      *)
THEOREM ChainIsLinearAlways == AuditSpec => []ChainIsLinear
<1>1. LogInv => ChainIsLinear BY Zenon DEF LogInv
<1> QED BY LogAlways, <1>1, PTL

-----------------------------------------------------------------------------
(* What a verification has found so far.  Rows that are written later have  *)
(* greater ids: they change neither the seed nor what was asked for.        *)
CheckShape ==
    \/ checking = NoCheck
    \/ /\ {"stage", "start", "asked", "disturbed"} \subseteq DOMAIN checking
       /\ checking.stage \in {"start", "end", "seed", "done"}
       /\ checking.stage = "start" => {"from", "to"} \subseteq DOMAIN checking
       /\ checking.stage # "start" => "end" \in DOMAIN checking /\ checking.end \in Nat
       /\ checking.stage = "seed" => "expected" \in DOMAIN checking
       /\ checking.stage = "done" => "brokenAt" \in DOMAIN checking

SeedKnown ==
    damage = Undamaged /\ checking # NoCheck =>
        /\ checking.start \in Ids
        /\ checking.stage = "seed" => checking.expected = HashBefore(checking.start)

RangeKnown ==
    checking # NoCheck /\ ~checking.disturbed =>
        /\ checking.start \in Nat /\ checking.asked \subseteq Nat
        /\ \A i \in checking.asked : checking.start <= i
        /\ checking.stage = "start" => checking.asked \subseteq UpTo(checking.to)
        /\ checking.stage # "start" => \A i \in checking.asked : i <= checking.end

CheckInv == LogInv /\ CheckShape /\ SeedKnown /\ RangeKnown /\ NoFalseAlarm

(* Appends between the statements of a verification leave it its ground.    *)
LEMMA CheckKept ==
    ASSUME CheckInv, checking' = checking, damage' = damage, Ids \subseteq Ids',
           \A i \in Ids : logRows'[i] = logRows[i],
           \A id \in Ids : HashBefore(id)' = HashBefore(id)
    PROVE  CheckShape' /\ SeedKnown' /\ RangeKnown' /\ NoFalseAlarm'
<1>1. CheckShape' /\ NoFalseAlarm'
    BY Zenon DEF CheckInv, CheckShape, NoFalseAlarm
<1>2. SeedKnown'
    <2> SUFFICES ASSUME damage = Undamaged, checking # NoCheck
                 PROVE  /\ checking.start \in Ids'
                        /\ checking.stage = "seed" => checking.expected = HashBefore(checking.start)'
        BY Zenon DEF SeedKnown
    <2>1. PICK s : s = checking.start
        BY Zenon
    <2>2. s \in Ids /\ HashBefore(s)' = HashBefore(s)
        BY <2>1, Zenon DEF CheckInv, SeedKnown
    <2>3. HashBefore(checking.start)' = HashBefore(s)' /\ HashBefore(checking.start) = HashBefore(s)
        BY <2>1, Zenon DEF HashBefore
    <2> QED BY <2>1, <2>2, <2>3, Zenon DEF CheckInv, SeedKnown
<1>3. RangeKnown'
    BY Zenon DEF CheckInv, RangeKnown, UpTo
<1> QED BY <1>1, <1>2, <1>3, Zenon

(* Every statement of VerifyRange finds what the ones before it relied on.  *)
LEMMA CheckNext == CheckInv /\ [AuditNext]_auditVars => CheckInv'
<1> SUFFICES ASSUME CheckInv, [AuditNext]_auditVars PROVE CheckInv'
    BY Zenon
<1>log. LogInv /\ LogTypes /\ LogInv'
    BY LogNext, Zenon DEF CheckInv, LogInv
<1>ids. Ids \subseteq 1..lastId /\ lastId \in Nat /\ Ids \subseteq Nat
    BY <1>log DEF LogTypes
<1>append. ASSUME NEW w \in LogWriters,
                  (\E at \in LogTimes : ReadTail(w, at)) \/ InsertEntry(w) \/ AppendFails(w)
           PROVE  CheckInv'
  <2>1. checking' = checking /\ damage' = damage
      BY <1>append, Zenon DEF ReadTail, InsertEntry, AppendFails
  <2>2. CASE InsertEntry(w)
      BY <2>1, <2>2, <1>log, InsertedLast, CheckKept, Zenon DEF CheckInv
  <2>3. CASE (\E at \in LogTimes : ReadTail(w, at)) \/ AppendFails(w)
    <3>1. logRows' = logRows
        BY <2>3, Zenon DEF ReadTail, AppendFails
    <3>2. Ids' = Ids /\ \A id \in Ids : HashBefore(id)' = HashBefore(id)
        BY <3>1, Zenon DEF Ids, HashBefore
    <3> QED BY <2>1, <3>1, <3>2, <1>log, CheckKept, Zenon DEF CheckInv
  <2> QED BY <1>append, <2>2, <2>3, Zenon
<1>start. ASSUME NEW from \in LogTimes \cup {NoTime}, NEW to \in LogTimes \cup {NoTime}, FindStart(from, to)
          PROVE  CheckInv'
  <2>1. LeastId(Since(from)) \in Since(from) /\ \A j \in Since(from) : LeastId(Since(from)) <= j
    <3>1. Since(from) \subseteq Nat /\ Since(from) # {}
        BY <1>start, <1>ids, Zenon DEF FindStart, Since
    <3> QED BY <3>1, LeastIsLeast, Zenon
  <2>2. /\ checking' # NoCheck /\ checking'.stage = "start" /\ checking'.to = to
        /\ checking'.start = LeastId(Since(from))
        /\ checking'.asked = Since(from) \cap {i \in Ids : to = NoTime \/ logRows[i].at <= to}
        /\ UNCHANGED <<logRows, damage>>
      BY <1>start, Zenon DEF FindStart, NoCheck
  <2>3. CheckShape'
      BY <1>start, Zenon DEF FindStart, CheckShape
  <2>4. SeedKnown' /\ NoFalseAlarm'
      BY <2>1, <2>2, Zenon DEF SeedKnown, NoFalseAlarm, Since, Ids
  <2>5. RangeKnown'
      BY <2>1, <2>2, <1>ids, Zenon DEF RangeKnown, Since, UpTo, Ids
  <2> QED BY <2>3, <2>4, <2>5, <1>log, Zenon DEF CheckInv
<1>end. ASSUME FindEnd PROVE CheckInv'
  <2>1. /\ checking.stage = "start" /\ checking # NoCheck
        /\ UNCHANGED <<logRows, damage>>
      BY <1>end DEF FindEnd, NoCheck
  <2>2. UpTo(checking.to) # {} =>
            /\ GreatestId(UpTo(checking.to)) \in UpTo(checking.to)
            /\ \A j \in UpTo(checking.to) : j <= GreatestId(UpTo(checking.to))
      BY <1>ids, GreatestIsGreatest, Zenon DEF UpTo
  <2>3. /\ checking' # NoCheck /\ checking'.stage \in {"end", "done"}
        /\ checking'.start = checking.start /\ checking'.asked = checking.asked
        /\ checking'.disturbed = checking.disturbed
        /\ checking'.stage = "done" => checking'.brokenAt = 0
        /\ {"stage", "start", "asked", "disturbed", "end"} \subseteq DOMAIN checking'
        /\ checking'.stage = "done" => "brokenAt" \in DOMAIN checking'
      BY <1>end, Zenon DEF FindEnd, Verdict, NoCheck
  <2>4. CheckShape'
    <3>1. checking'.end \in Nat
        BY <1>end, <2>2, <1>ids, Zenon DEF FindEnd, Verdict, UpTo
    <3> QED BY <2>3, <3>1, Zenon DEF CheckShape
  <2>5. SeedKnown' /\ NoFalseAlarm'
      BY <2>1, <2>3, Zenon DEF SeedKnown, NoFalseAlarm, CheckInv, Ids
  <2>6. RangeKnown'
    <3> SUFFICES ASSUME ~checking.disturbed
                 PROVE  \A i \in checking.asked : i <= checking'.end
        BY <2>1, <2>3, Zenon DEF RangeKnown, CheckInv
    <3>1. /\ checking.asked \subseteq UpTo(checking.to) /\ checking.start \in Nat
          /\ \A i \in checking.asked : i \in Nat /\ checking.start <= i
        BY <2>1, Zenon DEF RangeKnown, CheckInv
    <3>2. CASE UpTo(checking.to) = {} \/ GreatestId(UpTo(checking.to)) < checking.start
      <4>1. checking'.end = 0
          BY <3>2, <1>end, Zenon DEF FindEnd, Verdict
      <4>2. ASSUME NEW i \in checking.asked PROVE FALSE
        <5>1. i \in UpTo(checking.to) /\ i \in Nat /\ checking.start <= i
            BY <3>1, Zenon
        <5>2. GreatestId(UpTo(checking.to)) \in Nat /\ i <= GreatestId(UpTo(checking.to))
            BY <5>1, <2>2, <1>ids, Zenon DEF UpTo
        <5> QED BY <5>1, <5>2, <3>1, <3>2
      <4> QED BY <4>1, <4>2, Zenon
    <3>3. CASE ~(UpTo(checking.to) = {} \/ GreatestId(UpTo(checking.to)) < checking.start)
      <4>1. checking'.end = GreatestId(UpTo(checking.to))
          BY <3>3, <1>end, Zenon DEF FindEnd
      <4>2. GreatestId(UpTo(checking.to)) \in Nat
          BY <3>3, <2>2, <1>ids, Zenon DEF UpTo
      <4> QED BY <4>1, <4>2, <3>1, <3>3, <2>2, Zenon
    <3> QED BY <3>2, <3>3, Zenon
  <2> QED BY <2>4, <2>5, <2>6, <1>log, Zenon DEF CheckInv
<1>seed. ASSUME FindSeed PROVE CheckInv'
  <2>1. /\ checking.stage = "end" /\ checking # NoCheck /\ UNCHANGED <<logRows, damage>>
        /\ checking' # NoCheck /\ checking'.stage = "seed"
        /\ checking'.start = checking.start /\ checking'.end = checking.end
        /\ checking'.asked = checking.asked /\ checking'.disturbed = checking.disturbed
        /\ checking'.expected = HashBefore(checking.start)
        /\ {"stage", "start", "asked", "disturbed", "end", "expected"} \subseteq DOMAIN checking'
      BY <1>seed DEF FindSeed, NoCheck, Seed
  <2>2. CheckShape' /\ NoFalseAlarm'
      BY <2>1, Zenon DEF CheckShape, NoFalseAlarm, CheckInv
  <2>3. HashBefore(checking.start)' = HashBefore(checking.start)
      BY <2>1, Zenon DEF HashBefore, Ids
  <2>4. SeedKnown'
      BY <2>1, <2>3, Zenon DEF SeedKnown, CheckInv, Ids
  <2>5. RangeKnown'
      BY <2>1, Zenon DEF RangeKnown, CheckInv
  <2> QED BY <2>2, <2>4, <2>5, <1>log, Zenon DEF CheckInv
<1>walk. ASSUME Walk PROVE CheckInv'
  <2> DEFINE segment == {i \in Ids : checking.start <= i /\ i <= checking.end}
             expected(i) == IF i = LeastId(segment) THEN checking.expected ELSE HashBefore(i)
             broken == {i \in segment : ~CheckEntry(i, expected(i))}
  <2>1. /\ checking.stage = "seed" /\ checking # NoCheck /\ UNCHANGED <<logRows, damage>>
        /\ checking' # NoCheck /\ checking'.stage = "done"
        /\ checking'.start = checking.start /\ checking'.end = checking.end
        /\ checking'.asked = checking.asked /\ checking'.disturbed = checking.disturbed
        /\ checking'.brokenAt = IF broken = {} THEN 0 ELSE LeastId(broken)
        /\ {"stage", "start", "asked", "disturbed", "end", "brokenAt"} \subseteq DOMAIN checking'
      BY <1>walk DEF Walk, Verdict, NoCheck
  <2>2. CheckShape' /\ checking.end \in Nat
      BY <2>1, Zenon DEF CheckShape, CheckInv
  <2>3. SeedKnown'
      BY <2>1, Zenon DEF SeedKnown, CheckInv, Ids
  <2>4. RangeKnown'
      BY <2>1, Zenon DEF RangeKnown, CheckInv
  <2>5. ASSUME damage = Undamaged PROVE broken = {}
    <3> SUFFICES ASSUME NEW i \in segment PROVE CheckEntry(i, expected(i))
        BY Zenon
    <3>1. checking.start \in Ids /\ checking.expected = HashBefore(checking.start)
        BY <2>5, <2>1, Zenon DEF CheckInv, SeedKnown
    <3>2. CheckEntry(i, HashBefore(i))
        BY <2>5, Zenon DEF CheckInv, LogInv, ChainIsLinear
    <3>3. i = LeastId(segment) => i = checking.start
      <4>1. segment \subseteq Nat /\ segment # {}
          BY <1>ids, Zenon
      <4>2. LeastId(segment) \in segment /\ \A j \in segment : LeastId(segment) <= j
          BY <4>1, LeastIsLeast, Zenon
      <4>3. checking.start <= i /\ i <= checking.end /\ i \in Nat /\ checking.start \in Nat
          BY <3>1, <1>ids, Zenon
      <4> HIDE DEF segment
      <4>4. ASSUME i = LeastId(segment) PROVE i = checking.start
        <5>1. checking.start \in segment
            BY <3>1, <4>3, <2>2 DEF segment
        <5> QED BY <5>1, <4>2, <4>3, <4>4
      <4> QED BY <4>4, Zenon
    <3> QED BY <3>1, <3>2, <3>3, Zenon
  <2>6. NoFalseAlarm'
      BY <2>1, <2>5, Zenon DEF NoFalseAlarm
  <2> QED BY <2>2, <2>3, <2>4, <2>6, <1>log, Zenon DEF CheckInv
<1>done. ASSUME EndCheck PROVE CheckInv'
    BY <1>done, <1>log, Zenon DEF EndCheck, CheckInv, CheckShape, SeedKnown, RangeKnown, NoFalseAlarm, NoCheck
<1>damage. ASSUME NEW id \in Ids, RemoveRow(id) \/ \E column \in {"canonical", "prev", "hash"} : EditRow(id, column)
           PROVE  CheckInv'
  <2>1. /\ damage' # Undamaged
        /\ checking' = IF checking = NoCheck THEN NoCheck ELSE [checking EXCEPT !.disturbed = TRUE]
      BY <1>damage DEF RemoveRow, EditRow, Disturbs, Undamaged
  <2>2. CASE checking = NoCheck
      BY <2>1, <2>2, <1>log, Zenon DEF CheckInv, CheckShape, SeedKnown, RangeKnown, NoFalseAlarm, NoCheck
  <2>3. CASE checking # NoCheck
    <3>1. CheckShape
        BY Zenon DEF CheckInv
    <3>2. /\ checking'.disturbed /\ checking'.stage = checking.stage
          /\ checking.stage # "start" => checking'.end = checking.end
          /\ DOMAIN checking' = DOMAIN checking
        BY <2>1, <2>3, <3>1, Zenon DEF CheckShape
    <3>3. CheckShape'
        BY <2>3, <3>1, <3>2, Zenon DEF CheckShape
    <3> QED BY <2>1, <3>2, <3>3, <1>log, Zenon DEF CheckInv, SeedKnown, RangeKnown, NoFalseAlarm
  <2> QED BY <2>2, <2>3, Zenon
<1>stutter. CASE UNCHANGED auditVars
  <2>1. UNCHANGED <<logRows, checking, damage>>
      BY <1>stutter, Zenon DEF auditVars
  <2>2. Ids' = Ids /\ \A id \in Ids : HashBefore(id)' = HashBefore(id)
      BY <2>1, Zenon DEF Ids, HashBefore
  <2> QED BY <2>1, <2>2, <1>log, CheckKept, Zenon DEF CheckInv
<1> QED BY <1>append, <1>start, <1>end, <1>seed, <1>walk, <1>done, <1>damage, <1>stutter, Zenon DEF AuditNext

(* Verifications of reachable logs.                                        *)
LEMMA CheckAlways == AuditSpec => []CheckInv
<1>1. AuditInit => CheckInv
    BY LogInit DEF AuditInit, CheckInv, CheckShape, SeedKnown, RangeKnown, NoFalseAlarm, NoCheck
<1> QED BY <1>1, CheckNext, PTL DEF AuditSpec

(* VerifyRange: entries that are appended between its statements never make *)
(* it report a break in a log that nobody damaged.                          *)
THEOREM NoFalseAlarmAlways == AuditSpec => []NoFalseAlarm
<1>1. CheckInv => NoFalseAlarm BY Zenon DEF CheckInv
<1> QED BY CheckAlways, <1>1, PTL

(* VerifyRange translates a range of times into one of ids: it covers all   *)
(* entries that were in the range when it began.                            *)
THEOREM RangeIsCoveredAlways == AuditSpec => []RangeIsCovered
<1>1. CheckInv => RangeIsCovered
    BY DEF CheckInv, CheckShape, RangeKnown, RangeIsCovered, NoCheck
<1> QED BY CheckAlways, <1>1, PTL

-----------------------------------------------------------------------------
(* RiskEngine: whatever makes an action riskier never relaxes the answer.   *)

Inputs == [action : STRING, tier : Int, amount : Nat, cumulative : Nat,
           count_1h : Nat, count_24h : Nat, geo_mismatch : BOOLEAN]

(* The ceilings grow with the tier: a tier outside 1 and 2 has the lowest,  *)
(* so only tiers 0 to 2 are compared.                                       *)
Tiered == {in \in Inputs : in.tier \in 0..2}

(* A riskier input trips every hard rule that the other trips.              *)
LEMMA HardRulesMonotone ==
    ASSUME NEW a \in Tiered, NEW b \in Tiered, Riskier(a, b)
    PROVE  /\ LowKyc(b) => LowKyc(a)
           /\ AmlCrossed(b) => AmlCrossed(a)
           /\ OverCeiling(b) => OverCeiling(a)
<1>1. /\ a.tier \in 0..2 /\ b.tier \in 0..2 /\ a.tier <= b.tier
      /\ a.amount \in Nat /\ b.amount \in Nat /\ a.amount >= b.amount
      /\ a.cumulative \in Nat /\ b.cumulative \in Nat /\ a.cumulative >= b.cumulative
      /\ a.action = b.action
    BY Zenon DEF Tiered, Inputs, Riskier
<1>2. LowKyc(b) => LowKyc(a)
    BY <1>1 DEF LowKyc, IsValueAction
<1>3. AmlCrossed(b) => AmlCrossed(a)
    BY <1>1, RiskEngineAssumption DEF AmlCrossed, IsValueAction
<1>4. CeilingFor(a.tier) <= CeilingFor(b.tier) /\ CeilingFor(a.tier) \in Nat /\ CeilingFor(b.tier) \in Nat
    BY <1>1, RiskEngineAssumption DEF CeilingFor
<1>5. OverCeiling(b) => OverCeiling(a)
    BY <1>1, <1>4 DEF OverCeiling, IsValueAction
<1>6. QED BY <1>2, <1>3, <1>5, Zenon

(* A riskier input weighs at least as much, soft signals included.          *)
LEMMA WeightMonotone ==
    ASSUME NEW a \in Tiered, NEW b \in Tiered, Riskier(a, b)
    PROVE  /\ Weight(a) \in Nat /\ Weight(b) \in Nat
           /\ Weight(a) >= Weight(b)
           /\ a.count_24h >= b.count_24h
           /\ a.count_24h \in Nat /\ b.count_24h \in Nat
<1>1. /\ a.count_1h \in Nat /\ b.count_1h \in Nat /\ a.count_1h >= b.count_1h
      /\ a.count_24h \in Nat /\ b.count_24h \in Nat /\ a.count_24h >= b.count_24h
      /\ a.geo_mismatch \in BOOLEAN /\ b.geo_mismatch \in BOOLEAN
      /\ b.geo_mismatch => a.geo_mismatch
    BY Zenon DEF Tiered, Inputs, Riskier
<1>2. /\ Velocity24hWeight(a) \in Nat /\ Velocity24hWeight(b) \in Nat
      /\ Velocity24hWeight(a) >= Velocity24hWeight(b)
    BY <1>1, RiskEngineAssumption DEF Velocity24hWeight
<1>3. /\ Velocity1hWeight(a) \in Nat /\ Velocity1hWeight(b) \in Nat
      /\ Velocity1hWeight(a) >= Velocity1hWeight(b)
    BY <1>1, RiskEngineAssumption DEF Velocity1hWeight
<1>4. GeoWeight(a) \in Nat /\ GeoWeight(b) \in Nat /\ GeoWeight(a) >= GeoWeight(b)
    BY <1>1 DEF GeoWeight
<1>5. HardWeight(a) \in Nat /\ HardWeight(b) \in Nat /\ HardWeight(a) >= HardWeight(b)
    BY HardRulesMonotone DEF HardWeight
<1>6. QED BY <1>1, <1>2, <1>3, <1>4, <1>5 DEF Weight

(* evaluate: for every ceiling, threshold and score limit, an action with   *)
(* no smaller amount, sum or count and no higher tier is answered at least  *)
(* as strictly.                                                             *)
THEOREM EvaluateMonotone ==
    ASSUME NEW a \in Tiered, NEW b \in Tiered, Riskier(a, b)
    PROVE  Severity(Evaluate(a)) >= Severity(Evaluate(b))
<1>1. Score(a) >= Score(b) /\ Score(a) \in Nat /\ Score(b) \in Nat
    BY WeightMonotone DEF Score
<1>2. HardBlock(b) => HardBlock(a)
    BY HardRulesMonotone, Zenon DEF HardBlock
<1>3. HardReview(b) => HardReview(a)
    BY HardRulesMonotone, WeightMonotone, RiskEngineAssumption DEF HardReview
<1>4. Severity(Evaluate(a)) \in 0..2 /\ Severity(Evaluate(b)) \in 0..2
    BY DEF Severity
<1>5. CASE Evaluate(b) = "block"
    <2>1. Evaluate(a) = "block"
        BY <1>1, <1>2, <1>5, RiskEngineAssumption DEF Evaluate
    <2>2. QED BY <2>1, <1>5 DEF Severity
<1>6. CASE Evaluate(b) = "review"
    <2>1. Evaluate(a) \in {"block", "review"}
        BY <1>1, <1>3, <1>6, RiskEngineAssumption DEF Evaluate
    <2>2. QED BY <2>1, <1>6 DEF Severity
<1>7. CASE Evaluate(b) = "allow"
    BY <1>4, <1>7 DEF Severity
<1>8. QED BY <1>5, <1>6, <1>7, Zenon DEF Evaluate

(* The AML rule in the engine: below tier 2, a value action whose amount    *)
(* brings the window to the threshold is blocked, whatever the limits on    *)
(* the score.                                                               *)
THEOREM AmlAlwaysBlocks ==
    ASSUME NEW in \in Inputs, in.action \in VALUE_ACTIONS, in.tier < 2,
           in.cumulative + in.amount >= AmlThreshold
    PROVE  Evaluate(in) = "block"
BY Zenon DEF Evaluate, HardBlock, AmlCrossed, IsValueAction
=============================================================================
