---------------------------- MODULE AccessTokens ----------------------------
(***************************************************************************)
(* The access tokens identity-service signs and the services that trust     *)
(* them.  A token carries the memberships its request read, lives for its   *)
(* TTL whatever happens to the memberships and to the session, and every    *)
(* other service decides from its claims alone.                             *)
(***************************************************************************)
EXTENDS Integers, Sequences

CONSTANTS
    TokenUsers,
    TokenOrgs,
    OrgTypeOf,      \* the type of each organization
    NoRole,
    IssueWorkers,   \* requests in progress at a time
    AccessTtl,      \* access_token_ttl_seconds
    IssueTime,      \* bound on how long a request takes from its read to its token
    MaxClock, MaxTokens,
    MaxChanges      \* bound on changes of memberships and factors

TokenRoles == {"owner", "admin", "viewer"}

ASSUME AccessTokensAssumption ==
    /\ NoRole \notin TokenRoles
    /\ OrgTypeOf \in [TokenOrgs -> {"merchant", "admin"}]
    /\ AccessTtl \in Nat \ {0} /\ {IssueTime, MaxClock, MaxTokens, MaxChanges} \subseteq Nat

VARIABLES
    memberOf,      \* the memberships table: one role per user and organization
    codeRequired,  \* users with an active TOTP factor
    issuing,       \* requests that have read the memberships
    issued,        \* the tokens handed out, in order
    clock,
    lastRole,      \* history: when a user last held a role in an organization
    lastCode,      \* history: when a user last logged in with a code
    changes

tokenVars == <<memberOf, codeRequired, issuing, issued, clock, lastRole, lastCode,
               changes>>

NotIssuing == [busy |-> FALSE]
Never == -1000

Change == changes < MaxChanges /\ changes' = changes + 1

-----------------------------------------------------------------------------
(* identity-service.                                                       *)

(* _roles: the org type rides along; the only user role is "payer". *)
RolesOf(u) ==
    [orgs |-> {[org |-> o, role |-> memberOf[u][o], type |-> OrgTypeOf[o]] :
                  o \in {p \in TokenOrgs : memberOf[u][p] # NoRole}},
     user |-> {"payer"}]

BeginToken(w, u, roles, mfa) ==
    /\ issuing[w] = NotIssuing
    /\ issuing' = [issuing EXCEPT ![w] =
                      [busy |-> TRUE, user |-> u, roles |-> roles, mfa |-> mfa, began |-> clock]]
    /\ UNCHANGED <<memberOf, codeRequired, issued, clock, lastRole, changes>>

(* login: a user with an active factor must show a code; others cannot. *)
LoginToken(w, u) ==
    /\ BeginToken(w, u, RolesOf(u), u \in codeRequired)
    /\ lastCode' = IF u \in codeRequired THEN [lastCode EXCEPT ![u] = clock] ELSE lastCode

(* Mutant: a refreshed token keeps the elevation of the user's login. *)
ElevationKept(u) == lastCode[u] # Never

(* "rotate and the OAuth path leave it False". *)
RefreshElevation(u) == FALSE

(* Mutant: the roles are those of the last token. *)
RolesKept(u) == [orgs |-> issued[Len(issued)].roles, user |-> {"payer"}]

(* rotate reads the memberships afresh. *)
RefreshRoles(u) == RolesOf(u)

RefreshToken(w, u) ==
    /\ \E i \in DOMAIN issued : issued[i].user = u
    /\ BeginToken(w, u, RefreshRoles(u), RefreshElevation(u))
    /\ UNCHANGED lastCode

(* issue_access: exp counts from the time of signing. *)
IssueAccess(r) ==
    [user |-> r.user, roles |-> r.roles.orgs, userRoles |-> r.roles.user, mfa |-> r.mfa,
     exp |-> clock + AccessTtl]

SignToken(w) ==
    /\ issuing[w].busy
    /\ Len(issued) < MaxTokens /\ issued' = Append(issued, IssueAccess(issuing[w]))
    /\ issuing' = [issuing EXCEPT ![w] = NotIssuing]
    /\ UNCHANGED <<memberOf, codeRequired, clock, lastRole, lastCode, changes>>

AddMembership(u, o, role) ==
    /\ memberOf[u][o] = NoRole /\ Change
    /\ memberOf' = [memberOf EXCEPT ![u][o] = role]
    /\ UNCHANGED <<codeRequired, issuing, issued, clock, lastRole, lastCode>>

(* The organization's other owners are the business of Organizations. *)
RemoveMembership(u, o) ==
    /\ memberOf[u][o] # NoRole /\ Change
    /\ memberOf' = [memberOf EXCEPT ![u][o] = NoRole]
    /\ lastRole' = [lastRole EXCEPT ![u][o][memberOf[u][o]] = clock]
    /\ UNCHANGED <<codeRequired, issuing, issued, clock, lastCode>>

ToggleFactor(u) ==
    /\ Change
    /\ codeRequired' = IF u \in codeRequired THEN codeRequired \ {u} ELSE codeRequired \cup {u}
    /\ UNCHANGED <<memberOf, issuing, issued, clock, lastRole, lastCode>>

PassTime ==
    /\ clock < MaxClock
    /\ \A w \in IssueWorkers : issuing[w].busy => clock < issuing[w].began + IssueTime
    /\ clock' = clock + 1
    /\ UNCHANGED <<memberOf, codeRequired, issuing, issued, lastRole, lastCode, changes>>

-----------------------------------------------------------------------------
(* The verifiers.  Each service has its own copy: what they share is that   *)
(* an expired token is refused; they differ in the claims they keep.        *)

Unexpired(t) == clock < t.exp

Refused == [user |-> "nobody"]

TypedClaims(t) ==
    [user |-> t.user, roles |-> t.roles, userRoles |-> t.userRoles, mfa |-> t.mfa]

(* The roles without the type of their organization, and no elevation. *)
PlainClaims(t) ==
    [user |-> t.user, roles |-> {[org |-> r.org, role |-> r.role] : r \in t.roles},
     userRoles |-> t.userRoles]

IdentityPrincipal(t) == IF Unexpired(t) THEN TypedClaims(t) ELSE Refused

AdminPrincipal(t) == IF Unexpired(t) THEN TypedClaims(t) ELSE Refused

MerchantPrincipal(t) == IF Unexpired(t) THEN PlainClaims(t) ELSE Refused

CompliancePrincipal(t) == IF Unexpired(t) THEN PlainClaims(t) ELSE Refused

(* Mutant: the end of a token is not looked at. *)
PricingForever(t) == PlainClaims(t)

PricingPrincipal(t) == IF Unexpired(t) THEN PlainClaims(t) ELSE Refused

InvoicePrincipal(t) == IF Unexpired(t) THEN PlainClaims(t) ELSE Refused

Principals(t) ==
    {IdentityPrincipal(t), AdminPrincipal(t), MerchantPrincipal(t), CompliancePrincipal(t),
     PricingPrincipal(t), InvoicePrincipal(t)}

-----------------------------------------------------------------------------
(* The gates.                                                              *)

(* merchant-onboarding, require_admin: "owner" or "admin" in that org. *)
MerchantAdmits(t, o) ==
    LET p == MerchantPrincipal(t)
    IN  p # Refused /\ \E r \in p.roles : r.org = o /\ r.role \in {"owner", "admin"}

(* compliance-risk, require_self_or_admin for another user. *)
ComplianceAdmits(t) ==
    LET p == CompliancePrincipal(t)
    IN  p # Refused /\ ("admin" \in p.userRoles \/ \E r \in p.roles : r.role = "admin")

(* admin-backoffice, is_admin and the MFA gate; scopes are AdminConsole's. *)
BackofficeAdmits(t) ==
    LET p == AdminPrincipal(t)
    IN  /\ p # Refused
        /\ "admin" \in p.userRoles \/ \E r \in p.roles : r.type = "admin" \/ r.role = "admin"
        /\ p.mfa

(* fee-pricing-service, require_platform_admin: a role of the user. *)
PricingAdmits(t) == LET p == PricingPrincipal(t) IN p # Refused /\ "admin" \in p.userRoles

-----------------------------------------------------------------------------
TokenInit ==
    /\ memberOf = [u \in TokenUsers |-> [o \in TokenOrgs |-> NoRole]]
    /\ codeRequired = {}
    /\ issuing = [w \in IssueWorkers |-> NotIssuing]
    /\ issued = <<>>
    /\ clock = 0 /\ changes = 0
    /\ lastRole = [u \in TokenUsers |-> [o \in TokenOrgs |-> [r \in TokenRoles |-> Never]]]
    /\ lastCode = [u \in TokenUsers |-> Never]

TokenNext ==
    \/ \E w \in IssueWorkers :
           SignToken(w) \/ \E u \in TokenUsers : LoginToken(w, u) \/ RefreshToken(w, u)
    \/ \E u \in TokenUsers :
           \/ ToggleFactor(u)
           \/ \E o \in TokenOrgs :
                  RemoveMembership(u, o) \/ \E r \in TokenRoles : AddMembership(u, o, r)
    \/ PassTime

TokenSpec == TokenInit /\ [][TokenNext]_tokenVars

-----------------------------------------------------------------------------
(* Properties.                                                             *)

HandedOut == {issued[i] : i \in DOMAIN issued}

(* When the user of a token last held one of the roles in an organization. *)
HeldSince(t, o, roles, since) ==
    \/ memberOf[t.user][o] \in roles
    \/ \E r \in roles : lastRole[t.user][o][r] >= since

(* Services that "authorize from AccessClaims.roles directly" act on        *)
(* memberships that may have ended: never longer ago than the life of a     *)
(* token and the time its request took.                                     *)
AccessEndsWithMembership ==
    LET since == clock - AccessTtl - IssueTime
    IN  \A t \in HandedOut :
            /\ \A o \in TokenOrgs :
                   MerchantAdmits(t, o) => HeldSince(t, o, {"owner", "admin"}, since)
            /\ ComplianceAdmits(t) => \E o \in TokenOrgs : HeldSince(t, o, {"admin"}, since)

(* "re-authenticating with the second factor is required to obtain an       *)
(* MFA-elevated token" (SessionsService.issue): whom admin-backoffice lets  *)
(* in has shown a code within the life of one token, however often the      *)
(* session was refreshed since.                                             *)
BackofficeNeedsFreshCode ==
    \A t \in HandedOut : BackofficeAdmits(t) => lastCode[t.user] >= clock - AccessTtl - IssueTime

(* The six copies of the verifier agree on whether a token is good, whose   *)
(* it is and which roles it carries.                                        *)
VerifiersAgree ==
    \A t \in HandedOut : \A p, q \in Principals(t) :
        /\ (p = Refused) = (q = Refused)
        /\ p # Refused => /\ p.user = q.user
                          /\ {<<r.org, r.role>> : r \in p.roles} = {<<r.org, r.role>> : r \in q.roles}

(* What a token opens was true when it was issued and ends with it:         *)
(* memberships, the second factor and the signature are judged alike by all *)
(* verifiers and never longer than the life of a token after they ended.    *)
AccessIsCurrent ==
    AccessEndsWithMembership /\ BackofficeNeedsFreshCode /\ VerifiersAgree
=============================================================================
