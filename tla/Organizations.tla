--------------------------- MODULE Organizations ---------------------------
(***************************************************************************)
(* One organization of identity-service: its members and roles, and the     *)
(* API keys its members issue.  A handler reads the caller's role afresh,   *)
(* checks, and writes later, so that two handlers may check the same state. *)
(***************************************************************************)
EXTENDS Integers, Idempotency

CONSTANTS
    OrgUsers, NotMember,
    InvitedRoles,    \* roles that an invitation names
    ScopeLists,      \* scope sets that a key is asked for
    IssueKeys,       \* Idempotency-Keys of issued API keys
    OrgWorkers,      \* requests in progress at a time
    MaxApiKeys,      \* bound on API keys
    MaxOrgCalls, MaxOrgMishaps

Role == {"owner", "admin", "developer", "operator", "viewer"}
Scope == {"paylinks:read", "paylinks:write", "payments:read", "payments:write"}
Permission == {"org:read", "org:update", "org:delete", "member:read", "member:invite",
               "member:remove", "apikey:read", "apikey:issue", "apikey:revoke"}

ASSUME OrganizationsAssumption ==
    /\ NotMember \notin Role /\ InvitedRoles \subseteq Role
    /\ \A s \in ScopeLists : s \subseteq Scope
    /\ {MaxApiKeys, MaxOrgCalls, MaxOrgMishaps} \subseteq Nat

VARIABLES
    members,     \* the role of each user, or NotMember
    founded,     \* the organization exists
    apiKeys,     \* the api_keys table
    issueIdem,   \* idempotency records of issue_api_key
    orgReq,      \* requests in progress
    crossing,    \* history: two owners' removals were checked against one another
    issuedFor,   \* history: keys issued under each Idempotency-Key
    lapsed,      \* history: Idempotency-Keys that expired or lost their request
    orgCalls, orgMishaps

orgHistory == <<crossing, issuedFor, lapsed>>
orgVars == <<members, founded, apiKeys, issueIdem, orgReq, orgHistory, orgCalls, orgMishaps>>

(* _MATRIX. *)
permissions_for(role) ==
    CASE role = "owner"     -> Permission
      [] role = "admin"     -> Permission \ {"org:delete"}
      [] role = "developer" -> {"org:read", "member:read", "apikey:read", "apikey:issue", "apikey:revoke"}
      [] role = "operator"  -> {"org:read", "member:read", "apikey:read"}
      [] role = "viewer"    -> {"org:read", "member:read"}
      [] OTHER              -> {}

(* _SCOPE_GRANTS. *)
allowed_scopes_for_role(role) ==
    CASE role \in {"owner", "admin"} -> Scope
      [] role = "developer" -> {"paylinks:read", "paylinks:write", "payments:read"}
      [] OTHER -> {}

(* Mutant: any known scope is granted. *)
KnownScopes(role, scopes) == scopes \subseteq Scope

validate_scopes(role, scopes) == scopes \subseteq allowed_scopes_for_role(role)

(* rbac.require on the roles read from the table. *)
Allowed(u, permission) == permission \in permissions_for(members[u])

Owners == {u \in OrgUsers : members[u] = "owner"}

(* Mutant: nothing protects the last owner. *)
AlwaysRemovable(u) == TRUE

Removable(u) == members[u] = "owner" => Owners \ {u} # {}

OrgFree == [op |-> "none"]
OrgMishap == orgMishaps < MaxOrgMishaps /\ orgMishaps' = orgMishaps + 1

BeginOrg(w, request) ==
    /\ founded /\ orgReq[w] = OrgFree
    /\ orgCalls < MaxOrgCalls /\ orgCalls' = orgCalls + 1
    /\ orgReq' = [orgReq EXCEPT ![w] = request]

EndOrg(w) == orgReq' = [orgReq EXCEPT ![w] = OrgFree] /\ UNCHANGED orgCalls

-----------------------------------------------------------------------------
(* The organization and its first owner are committed together. *)
WithFounder(u) == [members EXCEPT ![u] = "owner"]

CreateOrg(u) ==
    /\ ~ founded /\ founded' = TRUE
    /\ members' = WithFounder(u)
    /\ UNCHANGED <<apiKeys, issueIdem, orgReq, orgHistory, orgCalls, orgMishaps>>

BeginAddMember(w, actor, u, role) ==
    /\ Allowed(actor, "member:invite") /\ members[u] = NotMember
    /\ BeginOrg(w, [op |-> "add", user |-> u, role |-> role])
    /\ UNCHANGED <<members, founded, apiKeys, issueIdem, orgHistory, orgMishaps>>

(* The primary key (org_id, user_id) refuses a second membership. *)
AddMember(w) ==
    /\ orgReq[w].op = "add"
    /\ members' = IF members[orgReq[w].user] = NotMember
                  THEN [members EXCEPT ![orgReq[w].user] = orgReq[w].role] ELSE members
    /\ EndOrg(w)
    /\ UNCHANGED <<founded, apiKeys, issueIdem, orgHistory, orgMishaps>>

(* An owner's removal that is checked while another owner's is in progress. *)
Crosses(u) ==
    /\ members[u] = "owner"
    /\ \E w \in OrgWorkers : orgReq[w].op = "remove" /\ orgReq[w].user # u /\ members[orgReq[w].user] = "owner"

BeginRemoveMember(w, actor, u) ==
    /\ Allowed(actor, "member:remove") /\ members[u] # NotMember
    /\ Removable(u)
    /\ BeginOrg(w, [op |-> "remove", user |-> u])
    /\ crossing' = (crossing \/ Crosses(u))
    /\ UNCHANGED <<members, founded, apiKeys, issueIdem, issuedFor, lapsed, orgMishaps>>

(* DELETE by primary key, whatever role the row has by now. *)
RemoveMember(w) ==
    /\ orgReq[w].op = "remove"
    /\ members' = [members EXCEPT ![orgReq[w].user] = NotMember]
    /\ EndOrg(w)
    /\ UNCHANGED <<founded, apiKeys, issueIdem, orgHistory, orgMishaps>>

-----------------------------------------------------------------------------
(* POST /v1/users/me/api-keys; the record of the key that a replay returns  *)
(* does not contain the secret.                                             *)
BeginIssueKey(w, actor, k, scopes) ==
    /\ BeginKey(issueIdem[k], scopes) = "owner"
    /\ Allowed(actor, "apikey:issue") /\ validate_scopes(members[actor], scopes)
    /\ BeginOrg(w, [op |-> "issue", stage |-> "insert", key |-> k, scopes |-> scopes, role |-> members[actor]])
    /\ issueIdem' = [issueIdem EXCEPT ![k] = PendingKey(scopes)]
    /\ UNCHANGED <<members, founded, apiKeys, orgHistory, orgMishaps>>

InsertApiKey(w) ==
    /\ orgReq[w].op = "issue" /\ orgReq[w].stage = "insert"
    /\ \E id \in DOMAIN apiKeys :
        /\ apiKeys[id].status = "absent" /\ \A i \in 1..(id - 1) : apiKeys[i].status # "absent"
        /\ apiKeys' = [apiKeys EXCEPT ![id] =
               [status |-> "ACTIVE", scopes |-> orgReq[w].scopes, grantor |-> orgReq[w].role]]
        /\ issuedFor' = [issuedFor EXCEPT ![orgReq[w].key] = @ \cup {id}]
    /\ orgReq' = [orgReq EXCEPT ![w].stage = "complete"]
    /\ UNCHANGED <<members, founded, issueIdem, crossing, lapsed, orgCalls, orgMishaps>>

(* complete, or the database fails and the key is released. *)
EndIssueKey(w) ==
    LET k == orgReq[w].key
    IN  /\ orgReq[w].op = "issue"
        /\ \/ /\ orgReq[w].stage = "complete"
              /\ issueIdem' = [issueIdem EXCEPT ![k] = CompletedKey(orgReq[w].scopes, "redacted")]
              /\ UNCHANGED orgMishaps
           \/ /\ orgReq[w].stage = "insert" /\ OrgMishap
              /\ issueIdem' = [issueIdem EXCEPT ![k] = ReleasedKey(@)]
        /\ EndOrg(w)
        /\ UNCHANGED <<members, founded, apiKeys, orgHistory>>

IssueKeyExpires(k) ==
    /\ issueIdem[k] # FreeKey /\ OrgMishap
    /\ issueIdem' = [issueIdem EXCEPT ![k] = FreeKey]
    /\ lapsed' = lapsed \cup {k}
    /\ UNCHANGED <<members, founded, apiKeys, orgReq, crossing, issuedFor, orgCalls>>

BeginRevokeKey(w, actor, i) ==
    /\ Allowed(actor, "apikey:revoke") /\ apiKeys[i].status = "ACTIVE"
    /\ BeginOrg(w, [op |-> "revoke", id |-> i])
    /\ UNCHANGED <<members, founded, apiKeys, issueIdem, orgHistory, orgMishaps>>

RevokeKey(w) ==
    /\ orgReq[w].op = "revoke"
    /\ apiKeys' = [apiKeys EXCEPT ![orgReq[w].id].status = "REVOKED"]
    /\ EndOrg(w)
    /\ UNCHANGED <<members, founded, issueIdem, orgHistory, orgMishaps>>

-----------------------------------------------------------------------------
OrgInit ==
    /\ members = [u \in OrgUsers |-> NotMember] /\ founded = FALSE
    /\ apiKeys = [i \in 1..MaxApiKeys |-> [status |-> "absent", scopes |-> {}, grantor |-> NotMember]]
    /\ issueIdem = [k \in IssueKeys |-> FreeKey]
    /\ orgReq = [w \in OrgWorkers |-> OrgFree]
    /\ crossing = FALSE /\ issuedFor = [k \in IssueKeys |-> {}] /\ lapsed = {}
    /\ orgCalls = 0 /\ orgMishaps = 0

OrgNext ==
    \/ \E u \in OrgUsers : CreateOrg(u)
    \/ \E w \in OrgWorkers, actor \in OrgUsers :
           \/ \E u \in OrgUsers, role \in InvitedRoles : BeginAddMember(w, actor, u, role)
           \/ \E u \in OrgUsers : BeginRemoveMember(w, actor, u)
           \/ \E k \in IssueKeys, scopes \in ScopeLists : BeginIssueKey(w, actor, k, scopes)
           \/ \E i \in DOMAIN apiKeys : BeginRevokeKey(w, actor, i)
    \/ \E w \in OrgWorkers :
           AddMember(w) \/ RemoveMember(w) \/ InsertApiKey(w) \/ EndIssueKey(w) \/ RevokeKey(w)
    \/ \E k \in IssueKeys : IssueKeyExpires(k)

OrgSpec == OrgInit /\ [][OrgNext]_orgVars

-----------------------------------------------------------------------------
(* Properties.                                                             *)

(* Roles are roles, and a key holds no scope that the role of the member    *)
(* who asked for it could not grant ("cannot escalate beyond this set").    *)
OrgTypeOK ==
    /\ members \in [OrgUsers -> Role \cup {NotMember}]
    /\ \A i \in DOMAIN apiKeys : apiKeys[i].scopes \subseteq allowed_scopes_for_role(apiKeys[i].grantor)

(* CANNOT_REMOVE_LAST_OWNER: an organization keeps an owner, whoever is     *)
(* invited and removed in whatever order, except when two owners' removals  *)
(* were both checked before either was written.                             *)
OrgKeepsOwner == founded /\ Owners = {} => crossing

(* An Idempotency-Key issues one API key, unless its record expired.        *)
OneApiKeyPerIdem == \A k \in IssueKeys \ lapsed : \A i, j \in issuedFor[k] : i = j

(* An organization keeps an owner but for two removals that crossed, and    *)
(* its API keys are issued once per Idempotency-Key with no scope above the *)
(* role of who asked.                                                       *)
MembershipsSound ==
    OrgTypeOK /\ OrgKeepsOwner /\ OneApiKeyPerIdem
=============================================================================
