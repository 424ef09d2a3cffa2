---------------------------- MODULE AdminConsole ----------------------------
(***************************************************************************)
(* The reads of admin-backoffice: a search that asks every provider at once *)
(* under a timeout each, and the view of one entity.  Each sends one audit  *)
(* record before it answers; the HTTP sink may lose it.                     *)
(***************************************************************************)
EXTENDS Integers, FiniteSets, Sequences

CONSTANTS
    Providers,       \* user, merchant, paylink, payment
    Staff,           \* staff members, each with one request at a time
    Grants,          \* the scopes granted to each
    Tokens,          \* access tokens: [admin, mfa]
    MaxReads,        \* bound on reads
    MaxAuditLosses   \* bound on records that the sink loses

ASSUME AdminConsoleAssumption == {MaxReads, MaxAuditLosses} \subseteq Nat

VARIABLES
    read,         \* the read of each staff member
    upstream,     \* what each provider's last call ended in, per staff member
    auditLog,     \* records in audit-log-service
    auditLost,    \* records the sink gave up
    shown,        \* history: answers given
    readCount

adminVars == <<read, upstream, auditLog, auditLost, shown, readCount>>

NoRead == [kind |-> "none"]

(* UpstreamClient.get_json and the timeout of _run: data, an absent entity, *)
(* an error, a body that is not JSON, or an answer later than the timeout.  *)
ProviderOutcomes == {"data", "absent", "error", "garbled", "late"}

SCOPES == {"support.read", "support.write", "finance.refund", "compliance.resolve",
           "engineer.feature_flags", "superuser"}

(* ScopeResolver.resolve. *)
ResolveScopes(s) == IF "superuser" \in Grants[s] THEN SCOPES ELSE Grants[s]

(* require_admin("support.read"): staff, with a second factor, and the scope. *)
RequireAdmin(s, token) == token.admin /\ token.mfa /\ "support.read" \in ResolveScopes(s)

BeginSearch(s, token) ==
    /\ RequireAdmin(s, token)
    /\ read[s] = NoRead /\ readCount < MaxReads /\ readCount' = readCount + 1
    /\ read' = [read EXCEPT ![s] = [id |-> readCount, kind |-> "search", stage |-> "ask",
                                    groups |-> {}, degraded |-> {}]]
    /\ UNCHANGED <<upstream, auditLog, auditLost, shown>>

BeginView(s, p, token) ==
    /\ RequireAdmin(s, token)
    /\ read[s] = NoRead /\ readCount < MaxReads /\ readCount' = readCount + 1
    /\ read' = [read EXCEPT ![s] = [id |-> readCount, kind |-> "view", stage |-> "ask", of |-> p]]
    /\ \E o \in ProviderOutcomes \ {"late"} : upstream' = [upstream EXCEPT ![s][p] = o]
    /\ UNCHANGED <<auditLog, auditLost, shown>>

(* Mutant: a provider that failed is an empty group. *)
NeverFails(outcome) == FALSE

(* _run: anything but an answer in time degrades the provider's group. *)
Failed(outcome) == outcome \in {"error", "garbled", "late"}

(* asyncio.gather: providers end in any order. *)
ProviderEnds(s, p, outcome) ==
    /\ read[s].kind = "search" /\ read[s].stage = "ask"
    /\ p \notin read[s].groups \cup read[s].degraded
    /\ upstream' = [upstream EXCEPT ![s][p] = outcome]
    /\ read' = [read EXCEPT ![s] = IF Failed(outcome)
                                   THEN [read[s] EXCEPT !.degraded = read[s].degraded \cup {p}]
                                   ELSE [read[s] EXCEPT !.groups = read[s].groups \cup {p}]]
    /\ UNCHANGED <<auditLog, auditLost, shown, readCount>>

(* The result that the audit record names. *)
AuditResult(s) ==
    IF read[s].kind = "search" THEN (IF read[s].degraded = {} THEN "ok" ELSE "degraded")
    ELSE CASE upstream[s][read[s].of] = "data"   -> "ok"
           [] upstream[s][read[s].of] = "absent" -> "not_found"
           [] OTHER -> "error"

(* Mutant: an error is answered before the record is sent. *)
AuditsSuccess(result) == result \in {"ok", "degraded"}

(* Both services send the record whatever the result. *)
Audits(result) == TRUE

(* emit: the sink never raises; a record that it cannot deliver is lost. *)
EmitAudit(s) ==
    LET record == [id |-> read[s].id, result |-> AuditResult(s)]
    IN  /\ read[s] # NoRead /\ read[s].stage = "ask"
        /\ read[s].kind = "search" => read[s].groups \cup read[s].degraded = Providers
        /\ read[s].kind = "view" => upstream[s][read[s].of] # "garbled"
        /\ IF ~ Audits(record.result) THEN UNCHANGED <<auditLog, auditLost>>
           ELSE \/ auditLog' = Append(auditLog, record) /\ UNCHANGED auditLost
                \/ /\ Cardinality(auditLost) < MaxAuditLosses
                   /\ auditLost' = auditLost \cup {record} /\ UNCHANGED auditLog
        /\ read' = [read EXCEPT ![s].stage = "answer"]
        /\ UNCHANGED <<upstream, shown, readCount>>

(* get handles UpstreamError only: on a body that is not JSON the request   *)
(* ends in an internal error, with nothing shown and no record.             *)
ViewRaises(s) ==
    /\ read[s].kind = "view" /\ read[s].stage = "ask" /\ upstream[s][read[s].of] = "garbled"
    /\ read' = [read EXCEPT ![s] = NoRead]
    /\ UNCHANGED <<upstream, auditLog, auditLost, shown, readCount>>

(* 200, or ENTITY_NOT_FOUND, or UPSTREAM_UNAVAILABLE. *)
AnswerRead(s) ==
    /\ read[s] # NoRead /\ read[s].stage = "answer"
    /\ shown' = shown \cup {[id |-> read[s].id, result |-> AuditResult(s),
                             groups |-> IF read[s].kind = "search" THEN read[s].groups ELSE {},
                             inTime |-> {p \in Providers : upstream[s][p] \in {"data", "absent"}}]}
    /\ read' = [read EXCEPT ![s] = NoRead]
    /\ upstream' = [upstream EXCEPT ![s] = [p \in Providers |-> "data"]]
    /\ UNCHANGED <<auditLog, auditLost, readCount>>

AdminInit ==
    /\ read = [s \in Staff |-> NoRead]
    /\ upstream = [s \in Staff |-> [p \in Providers |-> "data"]]
    /\ auditLog = <<>> /\ auditLost = {} /\ shown = {} /\ readCount = 0

AdminNext ==
    \E s \in Staff :
        \/ \E token \in Tokens : BeginSearch(s, token) \/ \E p \in Providers : BeginView(s, p, token)
        \/ \E p \in Providers, outcome \in ProviderOutcomes : ProviderEnds(s, p, outcome)
        \/ EmitAudit(s) \/ ViewRaises(s) \/ AnswerRead(s)

AdminSpec == AdminInit /\ [][AdminNext]_adminVars

-----------------------------------------------------------------------------
(* Properties.                                                             *)

(* "every read is audited by construction" and "exactly one AuditRecord":   *)
(* a read that is answered, with data or with an error of its own, has one  *)
(* record, with the result that was answered, in the log or among those the *)
(* best-effort sink lost.                                                   *)
ReadsAudited ==
    \A a \in shown :
        LET entry == [id |-> a.id, result |-> a.result]
            delivered == {i \in DOMAIN auditLog : auditLog[i] = entry}
        IN  \/ entry \in auditLost /\ delivered = {}
            \/ entry \notin auditLost /\ \E i \in DOMAIN auditLog : delivered = {i}

(* A search shows as groups only providers that answered in time, whatever  *)
(* the order they ended in: an empty group never stands for a failure.      *)
GroupsAnsweredInTime == \A a \in shown : a.groups \subseteq a.inTime

(* Whatever fails or times out behind a back-office read, it is audited     *)
(* once with the result it showed, and a provider that failed is never      *)
(* shown as an empty group.                                                 *)
ConsoleHonest ==
    ReadsAudited /\ GroupsAnsweredInTime
=============================================================================
