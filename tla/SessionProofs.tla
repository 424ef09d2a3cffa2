--------------------------- MODULE SessionProofs ---------------------------
(***************************************************************************)
(* The credentials of a user of identity-service: sessions, reset tokens,  *)
(* the second factor and access tokens, for any number of workers,         *)
(* sessions, tokens, users and organizations.                              *)
(***************************************************************************)
EXTENDS IdentitySessions, AccessTokens, FiniteSetTheorems, TLAPS

-----------------------------------------------------------------------------
(* AccessTokens: the inductive invariant.                                   *)

RoleClaim == [org : TokenOrgs, role : TokenRoles, type : {"merchant", "admin"}]
RoleClaims == [orgs : SUBSET RoleClaim, user : {{"payer"}}]
TokenRequest == [busy : {TRUE}, user : TokenUsers, roles : RoleClaims, mfa : BOOLEAN, began : Nat]
AccessToken ==
    [user : TokenUsers, roles : SUBSET RoleClaim, userRoles : {{"payer"}}, mfa : BOOLEAN, exp : Nat]

TokenTypes ==
    /\ memberOf \in [TokenUsers -> [TokenOrgs -> TokenRoles \cup {NoRole}]]
    /\ lastRole \in [TokenUsers -> [TokenOrgs -> [TokenRoles -> Int]]]
    /\ lastCode \in [TokenUsers -> Int]
    /\ issuing \in [IssueWorkers -> {NotIssuing} \cup TokenRequest]
    /\ issued \in Seq(AccessToken)
    /\ clock \in Nat

(* The user held the role at the time from or later. *)
Held(u, o, r, from) == memberOf[u][o] = r \/ lastRole[u][o][r] >= from

(* Nothing happened later than now; a request is under way for IssueTime at *)
(* most, and its roles and its code were good when it began.                *)
RequestsCurrent ==
    /\ \A u \in TokenUsers : lastCode[u] <= clock
    /\ \A w \in IssueWorkers : issuing[w] # NotIssuing =>
           /\ issuing[w].began <= clock /\ clock <= issuing[w].began + IssueTime
           /\ \A r \in issuing[w].roles.orgs : Held(issuing[w].user, r.org, r.role, issuing[w].began)
           /\ issuing[w].mfa => lastCode[issuing[w].user] >= issuing[w].began

(* When the request of a token began, at the earliest. *)
BeganAfter(t) == t.exp - AccessTtl - IssueTime

TokenCurrent(t) ==
    /\ BeganAfter(t) <= clock
    /\ \A r \in t.roles : Held(t.user, r.org, r.role, BeganAfter(t))
    /\ t.mfa => lastCode[t.user] >= BeganAfter(t)

TokensCurrent == \A i \in DOMAIN issued : TokenCurrent(issued[i])

TokenInv == TokenTypes /\ RequestsCurrent /\ TokensCurrent

(* No token is issued at the start. *)
LEMMA TokenInitInv == TokenInit => TokenInv
  <1> SUFFICES ASSUME TokenInit PROVE TokenInv
    BY Zenon
  <1>1. TokenTypes
    BY DEF TokenInit, TokenTypes, Never
  <1>2. RequestsCurrent
    BY DEF TokenInit, RequestsCurrent, Never
  <1>3. TokensCurrent
    BY DEF TokenInit, TokensCurrent
  <1> QED BY <1>1, <1>2, <1>3, Zenon DEF TokenInv

(* Time passes, and memberships and codes are only added to the past: what  *)
(* was held stays held.                                                     *)
LEMMA HeldStays ==
  ASSUME TokenTypes, TokenTypes', NEW u \in TokenUsers, NEW o \in TokenOrgs, NEW r \in TokenRoles, NEW from \in Int,
         Held(u, o, r, from), from <= clock, clock <= clock',
         lastRole'[u][o][r] \in {lastRole[u][o][r], clock},
         memberOf[u][o] = r => memberOf'[u][o] = r \/ lastRole'[u][o][r] = clock
  PROVE  Held(u, o, r, from)'
BY Zenon DEF Held, TokenTypes

(* roles_of reads memberships that are held. *)
LEMMA RolesAreHeld ==
  ASSUME TokenTypes, NEW u \in TokenUsers
  PROVE  /\ RolesOf(u) \in RoleClaims
         /\ \A r \in RolesOf(u).orgs : memberOf[u][r.org] = r.role
  <1>1. ASSUME NEW o \in TokenOrgs, memberOf[u][o] # NoRole
        PROVE  /\ [org |-> o, role |-> memberOf[u][o], type |-> OrgTypeOf[o]] \in RoleClaim
               /\ memberOf[u][[org |-> o, role |-> memberOf[u][o], type |-> OrgTypeOf[o]].org]
                    = [org |-> o, role |-> memberOf[u][o], type |-> OrgTypeOf[o]].role
    BY <1>1, AccessTokensAssumption DEF TokenTypes, RoleClaim
  <1>2. \A r \in RolesOf(u).orgs : r \in RoleClaim /\ memberOf[u][r.org] = r.role
    BY <1>1 DEF RolesOf
  <1> QED BY <1>2, Zenon DEF RolesOf, RoleClaims

(* A step that hands out no token keeps the past, if it adds to it.          *)
LEMMA TokensKept ==
  ASSUME TokenTypes, TokenTypes', TokensCurrent, UNCHANGED issued, clock <= clock',
         \A u \in TokenUsers : lastCode'[u] >= lastCode[u],
         \A u \in TokenUsers, o \in TokenOrgs, r \in TokenRoles :
            /\ lastRole'[u][o][r] \in {lastRole[u][o][r], clock}
            /\ memberOf[u][o] = r => memberOf'[u][o] = r \/ lastRole'[u][o][r] = clock
  PROVE  TokensCurrent'
  <1> SUFFICES ASSUME NEW i \in DOMAIN issued PROVE TokenCurrent(issued[i])'
    BY Zenon DEF TokensCurrent
  <1> DEFINE t == issued[i]
  <1>1. t \in AccessToken /\ TokenCurrent(t)
    BY DEF TokenTypes, TokensCurrent
  <1>2. BeganAfter(t) \in Int
    BY <1>1, AccessTokensAssumption DEF BeganAfter, AccessToken
  <1>3. \A r \in t.roles : Held(t.user, r.org, r.role, BeganAfter(t))'
    <2> SUFFICES ASSUME NEW r \in t.roles PROVE Held(t.user, r.org, r.role, BeganAfter(t))'
      BY Zenon
    <2>1. t.user \in TokenUsers /\ r.org \in TokenOrgs /\ r.role \in TokenRoles
      BY <1>1, Zenon DEF AccessToken, RoleClaim
    <2>2. Held(t.user, r.org, r.role, BeganAfter(t)) /\ BeganAfter(t) <= clock
      BY <1>1, Zenon DEF TokenCurrent
    <2>3. PICK u \in TokenUsers, o \in TokenOrgs, x \in TokenRoles, from \in Int :
             u = t.user /\ o = r.org /\ x = r.role /\ from = BeganAfter(t)
      BY <1>2, <2>1, Zenon
    <2>4. Held(u, o, x, from)'
      BY <2>2, <2>3, HeldStays
    <2>5. t' = t /\ BeganAfter(t)' = BeganAfter(t)
      BY Zenon DEF BeganAfter
    <2> QED BY <2>3, <2>4, <2>5, Zenon
  <1>4. t' = t /\ BeganAfter(t)' = BeganAfter(t)
    BY Zenon DEF BeganAfter
  <1>5. t.mfa => lastCode'[t.user] >= BeganAfter(t)
    <2>1. t.user \in TokenUsers
      BY <1>1, Zenon DEF AccessToken
    <2> QED BY <1>1, <1>2, <2>1 DEF TokenCurrent, TokenTypes
  <1> QED BY <1>1, <1>2, <1>3, <1>4, <1>5 DEF TokenCurrent, TokenTypes

(* The same for the requests, if none begins or ends and time does not pass *)
(* beyond what they may take.                                               *)
LEMMA RequestsKept ==
  ASSUME TokenTypes, TokenTypes', RequestsCurrent, clock <= clock',
         NEW w \in IssueWorkers, issuing'[w] = issuing[w], issuing[w] # NotIssuing,
         clock' <= issuing[w].began + IssueTime,
         \A u \in TokenUsers : lastCode'[u] >= lastCode[u],
         \A u \in TokenUsers, o \in TokenOrgs, r \in TokenRoles :
            /\ lastRole'[u][o][r] \in {lastRole[u][o][r], clock}
            /\ memberOf[u][o] = r => memberOf'[u][o] = r \/ lastRole'[u][o][r] = clock
  PROVE  /\ issuing'[w].began <= clock' /\ clock' <= issuing'[w].began + IssueTime
         /\ \A r \in issuing'[w].roles.orgs : Held(issuing[w].user, r.org, r.role, issuing[w].began)'
         /\ issuing'[w].mfa => lastCode'[issuing'[w].user] >= issuing'[w].began
  <1> DEFINE q == issuing[w]
  <1>1. PICK x \in TokenRequest : x = q
    BY Zenon DEF TokenTypes
  <1>2. /\ x.began <= clock
        /\ \A r \in x.roles.orgs : Held(x.user, r.org, r.role, x.began)
        /\ x.mfa => lastCode[x.user] >= x.began
    BY <1>1, Zenon DEF RequestsCurrent
  <1>3. x.user \in TokenUsers /\ x.began \in Nat /\ x.roles.orgs \subseteq RoleClaim
    BY Zenon DEF TokenRequest, RoleClaims
  <1>4. \A r \in x.roles.orgs : Held(x.user, r.org, r.role, x.began)'
    <2> SUFFICES ASSUME NEW r \in x.roles.orgs PROVE Held(x.user, r.org, r.role, x.began)'
      BY Zenon
    <2>1. r.org \in TokenOrgs /\ r.role \in TokenRoles
      BY <1>3, Zenon DEF RoleClaim
    <2> QED BY <1>2, <1>3, <2>1, HeldStays
  <1>5. x.mfa => lastCode'[x.user] >= x.began
    BY <1>2, <1>3 DEF TokenTypes
  <1>6. x.began <= clock' /\ clock' <= x.began + IssueTime
    BY <1>1, <1>2, <1>3 DEF TokenTypes
  <1>7. issuing'[w] = x
    BY <1>1, Zenon
  <1> QED BY <1>4, <1>5, <1>6, <1>7, Zenon

(* A request that has just read the memberships. *)
LEMMA TokenBegins ==
  ASSUME TokenInv, NEW w \in IssueWorkers, NEW u \in TokenUsers, NEW mfa \in BOOLEAN,
         BeginToken(w, u, RolesOf(u), mfa),
         lastCode' \in [TokenUsers -> Int],
         \A v \in TokenUsers : lastCode'[v] >= lastCode[v] /\ lastCode'[v] <= clock,
         mfa => lastCode'[u] = clock
  PROVE  TokenInv'
  <1> DEFINE q == [busy |-> TRUE, user |-> u, roles |-> RolesOf(u), mfa |-> mfa, began |-> clock]
  <1>1. /\ issuing' = [issuing EXCEPT ![w] = q]
        /\ UNCHANGED <<memberOf, issued, clock, lastRole>>
    BY Zenon DEF BeginToken
  <1>2. q \in TokenRequest
    BY RolesAreHeld, Zenon DEF TokenInv, TokenTypes, TokenRequest
  <1>3. q.user = u /\ q.began = clock /\ q.mfa = mfa /\ q.roles = RolesOf(u)
    BY Zenon
  <1> HIDE DEF q
  <1>4. TokenTypes'
    BY <1>1, <1>2, Zenon DEF TokenInv, TokenTypes
  <1>5. TokensCurrent'
    BY <1>1, <1>4, TokensKept DEF TokenInv, TokenTypes
  <1>6. RequestsCurrent'
    <2>1. \A v \in TokenUsers : lastCode'[v] <= clock'
      BY <1>1, Zenon
    <2>2. ASSUME NEW v \in IssueWorkers, issuing'[v] # NotIssuing
          PROVE  /\ issuing'[v].began <= clock' /\ clock' <= issuing'[v].began + IssueTime
                 /\ \A r \in issuing'[v].roles.orgs : Held(issuing[v].user, r.org, r.role, issuing[v].began)'
                 /\ issuing'[v].mfa => lastCode'[issuing'[v].user] >= issuing'[v].began
      <3>1. CASE v = w
        <4>1. issuing'[v] = q
          BY <1>1, <3>1, Zenon DEF TokenInv, TokenTypes
        <4>2. \A r \in q.roles.orgs : memberOf'[q.user][r.org] = r.role
          <5>1. \A r \in RolesOf(u).orgs : memberOf[u][r.org] = r.role
            BY RolesAreHeld, Zenon DEF TokenInv
          <5> QED BY <1>1, <1>3, <5>1, Zenon
        <4>3. q.began <= clock' /\ clock' <= q.began + IssueTime
          BY <1>1, <1>3, AccessTokensAssumption DEF TokenInv, TokenTypes
        <4>4. q.mfa => lastCode'[q.user] >= q.began
          BY <1>3, Zenon DEF TokenInv, TokenTypes
        <4> QED BY <4>1, <4>2, <4>3, <4>4, Zenon DEF Held
      <3>2. CASE v # w
        <4>1. issuing'[v] = issuing[v]
          BY <1>1, <3>2, Zenon DEF TokenInv, TokenTypes
        <4>2. clock' <= issuing[v].began + IssueTime
          BY <1>1, <2>2, <4>1, Zenon DEF TokenInv, RequestsCurrent
        <4> QED BY <1>1, <1>4, <2>2, <4>1, <4>2, RequestsKept DEF TokenInv, TokenTypes
      <3> QED BY <3>1, <3>2, Zenon
    <2> QED BY <2>1, <2>2, Zenon DEF RequestsCurrent
  <1> QED BY <1>4, <1>5, <1>6, Zenon DEF TokenInv

(* A step of the memberships, the factors or the clock. *)
LEMMA TokenBackground ==
  ASSUME TokenInv, TokenTypes', UNCHANGED <<issuing, issued, lastCode>>, clock <= clock',
         \A w \in IssueWorkers : issuing[w] # NotIssuing => clock' <= issuing[w].began + IssueTime,
         \A u \in TokenUsers, o \in TokenOrgs, r \in TokenRoles :
            /\ lastRole'[u][o][r] \in {lastRole[u][o][r], clock}
            /\ memberOf[u][o] = r => memberOf'[u][o] = r \/ lastRole'[u][o][r] = clock
  PROVE  TokenInv'
  <1>1. \A u \in TokenUsers : lastCode'[u] >= lastCode[u] /\ lastCode'[u] <= clock'
    BY DEF TokenInv, TokenTypes, RequestsCurrent
  <1>2. TokensCurrent'
    BY <1>1, TokensKept, Zenon DEF TokenInv
  <1>3. ASSUME NEW v \in IssueWorkers, issuing'[v] # NotIssuing
        PROVE  /\ issuing'[v].began <= clock' /\ clock' <= issuing'[v].began + IssueTime
               /\ \A r \in issuing'[v].roles.orgs : Held(issuing[v].user, r.org, r.role, issuing[v].began)'
               /\ issuing'[v].mfa => lastCode'[issuing'[v].user] >= issuing'[v].began
    BY <1>1, <1>3, RequestsKept, Zenon DEF TokenInv
  <1>4. RequestsCurrent'
    BY <1>1, <1>3, Zenon DEF RequestsCurrent
  <1> QED BY <1>2, <1>4, Zenon DEF TokenInv

(* Every step keeps the invariant. *)
LEMMA TokenNextInv == TokenInv /\ [TokenNext]_tokenVars => TokenInv'
  <1> SUFFICES ASSUME TokenInv, [TokenNext]_tokenVars PROVE TokenInv'
    BY Zenon
  <1> USE DEF TokenInv
  <1>1. ASSUME NEW w \in IssueWorkers, SignToken(w) PROVE TokenInv'
    <2> DEFINE t == IssueAccess(issuing[w])
    <2>1. /\ issuing[w].busy
          /\ issued' = Append(issued, t)
          /\ issuing' = [issuing EXCEPT ![w] = NotIssuing]
          /\ UNCHANGED <<memberOf, clock, lastRole, lastCode>>
      BY <1>1, Zenon DEF SignToken
    <2>2. PICK q \in TokenRequest : q = issuing[w] /\ issuing[w] # NotIssuing
      BY <2>1 DEF TokenTypes, NotIssuing
    <2>3. /\ q.began <= clock /\ clock <= q.began + IssueTime
          /\ \A r \in q.roles.orgs : Held(q.user, r.org, r.role, q.began)
          /\ q.mfa => lastCode[q.user] >= q.began
      BY <2>2, Zenon DEF RequestsCurrent
    <2>4. /\ q.user \in TokenUsers /\ q.began \in Nat /\ q.roles.orgs \subseteq RoleClaim
          /\ q.roles.user \in {{"payer"}} /\ q.mfa \in BOOLEAN
      BY Zenon DEF TokenRequest, RoleClaims
    <2>5. /\ t.user = q.user /\ t.roles = q.roles.orgs /\ t.mfa = q.mfa /\ t.exp = clock + AccessTtl
          /\ t \in AccessToken
      BY <2>2, <2>4, AccessTokensAssumption DEF IssueAccess, AccessToken, TokenTypes
    <2> HIDE DEF t
    <2>6. BeganAfter(t) \in Int /\ BeganAfter(t) <= q.began /\ BeganAfter(t) <= clock
      BY <2>3, <2>4, <2>5, AccessTokensAssumption DEF BeganAfter, TokenTypes
    <2>7. TokenCurrent(t)
      <3>1. ASSUME NEW r \in t.roles PROVE Held(t.user, r.org, r.role, BeganAfter(t))
        <4>1. r.org \in TokenOrgs /\ r.role \in TokenRoles
          BY <2>4, <2>5 DEF RoleClaim
        <4>2. Held(q.user, r.org, r.role, q.began)
          BY <2>3, <2>5, Zenon
        <4>3. lastRole[q.user][r.org][r.role] \in Int
          BY <2>4, <4>1 DEF TokenTypes
        <4> QED BY <2>4, <2>5, <2>6, <4>2, <4>3 DEF Held
      <3>2. t.mfa => lastCode[t.user] >= BeganAfter(t)
        BY <2>3, <2>4, <2>5, <2>6 DEF TokenTypes
      <3> QED BY <2>6, <3>1, <3>2, Zenon DEF TokenCurrent
    <2>8. TokenTypes'
      BY <2>1, <2>5 DEF TokenTypes
    <2>9. TokensCurrent'
      <3> SUFFICES ASSUME NEW i \in DOMAIN issued' PROVE TokenCurrent(issued'[i])
        BY <2>1 DEF TokensCurrent, TokenCurrent, Held, BeganAfter
      <3> QED BY <2>1, <2>5, <2>7 DEF TokensCurrent, TokenTypes
    <2>10. RequestsCurrent'
      BY <2>1, Zenon DEF RequestsCurrent, TokenTypes, Held
    <2> QED BY <2>8, <2>9, <2>10, Zenon
  <1>2. ASSUME NEW w \in IssueWorkers, NEW u \in TokenUsers, LoginToken(w, u) PROVE TokenInv'
    <2>1. (u \in codeRequired) \in BOOLEAN
      OBVIOUS
    <2>2. PICK mfa \in BOOLEAN : mfa = (u \in codeRequired)
      BY <2>1, Zenon
    <2>3. BeginToken(w, u, RolesOf(u), mfa)
      BY <1>2, <2>2, Zenon DEF LoginToken
    <2>4. /\ lastCode' \in [TokenUsers -> Int]
          /\ \A v \in TokenUsers : lastCode'[v] >= lastCode[v] /\ lastCode'[v] <= clock
          /\ u \in codeRequired => lastCode'[u] = clock
      BY <1>2 DEF LoginToken, TokenTypes, RequestsCurrent
    <2>5. mfa => lastCode'[u] = clock
      BY <2>2, <2>4, Zenon
    <2> QED BY <2>3, <2>4, <2>5, TokenBegins, Zenon
  <1>3. ASSUME NEW w \in IssueWorkers, NEW u \in TokenUsers, RefreshToken(w, u) PROVE TokenInv'
    <2>1. BeginToken(w, u, RolesOf(u), FALSE) /\ lastCode' = lastCode
      BY <1>3, Zenon DEF RefreshToken, RefreshRoles, RefreshElevation
    <2>2. /\ lastCode' \in [TokenUsers -> Int]
          /\ \A v \in TokenUsers : lastCode'[v] >= lastCode[v] /\ lastCode'[v] <= clock
      BY <2>1 DEF TokenTypes, RequestsCurrent
    <2> QED BY <2>1, <2>2, TokenBegins, Zenon
  <1>4. ASSUME NEW u \in TokenUsers, ToggleFactor(u) PROVE TokenInv'
    BY <1>4 DEF ToggleFactor, TokenTypes, RequestsCurrent, TokensCurrent, TokenCurrent, Held, BeganAfter
  <1>5. ASSUME NEW u \in TokenUsers, NEW o \in TokenOrgs, RemoveMembership(u, o) PROVE TokenInv'
    <2>1. /\ memberOf[u][o] \in TokenRoles
          /\ memberOf' = [memberOf EXCEPT ![u][o] = NoRole]
          /\ lastRole' = [lastRole EXCEPT ![u][o][memberOf[u][o]] = clock]
          /\ UNCHANGED <<issuing, issued, clock, lastCode>>
      BY <1>5 DEF RemoveMembership, TokenTypes
    <2>2. TokenTypes'
      BY <2>1 DEF TokenTypes
    <2>3. \A v \in TokenUsers, p \in TokenOrgs, r \in TokenRoles :
            /\ lastRole'[v][p][r] \in {lastRole[v][p][r], clock}
            /\ memberOf[v][p] = r => memberOf'[v][p] = r \/ lastRole'[v][p][r] = clock
      BY <2>1 DEF TokenTypes
    <2>4. clock <= clock' /\ \A w \in IssueWorkers : issuing[w] # NotIssuing => clock' <= issuing[w].began + IssueTime
      BY <2>1 DEF TokenTypes, RequestsCurrent
    <2> QED BY <2>1, <2>2, <2>3, <2>4, TokenBackground, Zenon
  <1>6. ASSUME NEW u \in TokenUsers, NEW o \in TokenOrgs, NEW x \in TokenRoles, AddMembership(u, o, x)
        PROVE TokenInv'
    <2>1. /\ memberOf[u][o] = NoRole
          /\ memberOf' = [memberOf EXCEPT ![u][o] = x]
          /\ UNCHANGED <<issuing, issued, clock, lastCode, lastRole>>
      BY <1>6, Zenon DEF AddMembership
    <2>2. TokenTypes'
      BY <2>1, Zenon DEF TokenTypes
    <2>3. \A v \in TokenUsers, p \in TokenOrgs, r \in TokenRoles :
            /\ lastRole'[v][p][r] \in {lastRole[v][p][r], clock}
            /\ memberOf[v][p] = r => memberOf'[v][p] = r \/ lastRole'[v][p][r] = clock
      BY <2>1, AccessTokensAssumption, Zenon DEF TokenTypes
    <2>4. clock <= clock' /\ \A w \in IssueWorkers : issuing[w] # NotIssuing => clock' <= issuing[w].began + IssueTime
      BY <2>1 DEF TokenTypes, RequestsCurrent
    <2> QED BY <2>1, <2>2, <2>3, <2>4, TokenBackground, Zenon
  <1>7. ASSUME PassTime PROVE TokenInv'
    <2>1. /\ \A w \in IssueWorkers : issuing[w].busy => clock < issuing[w].began + IssueTime
          /\ clock' = clock + 1
          /\ UNCHANGED <<memberOf, issuing, issued, lastRole, lastCode>>
      BY <1>7, Zenon DEF PassTime
    <2>2. TokenTypes'
      BY <2>1 DEF TokenTypes
    <2>3. \A w \in IssueWorkers : issuing[w] # NotIssuing => clock' <= issuing[w].began + IssueTime
      <3> SUFFICES ASSUME NEW w \in IssueWorkers, issuing[w] # NotIssuing PROVE clock' <= issuing[w].began + IssueTime
        BY Zenon
      <3>1. issuing[w].busy /\ issuing[w].began \in Nat
        BY Zenon DEF TokenTypes, TokenRequest
      <3> QED BY <2>1, <3>1, AccessTokensAssumption DEF TokenTypes
    <2>4. clock <= clock'
      BY <2>1 DEF TokenTypes
    <2> QED BY <2>1, <2>2, <2>3, <2>4, TokenBackground, Zenon
  <1>8. CASE UNCHANGED tokenVars
    BY <1>8 DEF tokenVars, TokenTypes, RequestsCurrent, TokensCurrent, TokenCurrent, Held, BeganAfter
  <1> QED BY <1>1, <1>2, <1>3, <1>4, <1>5, <1>6, <1>7, <1>8, Zenon DEF TokenNext

(* An unexpired token carries only roles held since the life of a token ago. *)
LEMMA GoodTokenIsCurrent ==
  ASSUME TokenInv, NEW t \in HandedOut, Unexpired(t)
  PROVE  /\ t \in AccessToken
         /\ \A r \in t.roles : HeldSince(t, r.org, {r.role}, clock - AccessTtl - IssueTime)
         /\ t.mfa => lastCode[t.user] >= clock - AccessTtl - IssueTime
  <1>1. t \in AccessToken /\ TokenCurrent(t)
    BY DEF TokenInv, TokenTypes, TokensCurrent, HandedOut
  <1>2. t.user \in TokenUsers /\ t.roles \subseteq RoleClaim /\ t.exp \in Nat /\ clock \in Nat /\ clock < t.exp
    BY <1>1, Zenon DEF AccessToken, TokenInv, TokenTypes, Unexpired
  <1>3. /\ BeganAfter(t) \in Int /\ clock - AccessTtl - IssueTime \in Int
        /\ clock - AccessTtl - IssueTime <= BeganAfter(t)
    BY <1>2, AccessTokensAssumption DEF BeganAfter
  <1>4. ASSUME NEW r \in t.roles PROVE HeldSince(t, r.org, {r.role}, clock - AccessTtl - IssueTime)
    <2>1. r.org \in TokenOrgs /\ r.role \in TokenRoles
      BY <1>2, Zenon DEF RoleClaim
    <2>2. lastRole[t.user][r.org][r.role] \in Int
      BY <1>2, <2>1 DEF TokenInv, TokenTypes
    <2>3. Held(t.user, r.org, r.role, BeganAfter(t))
      BY <1>1, Zenon DEF TokenCurrent
    <2> QED BY <1>3, <2>2, <2>3 DEF Held, HeldSince
  <1>5. t.mfa => lastCode[t.user] >= clock - AccessTtl - IssueTime
    <2>1. lastCode[t.user] \in Int
      BY <1>2, Zenon DEF TokenInv, TokenTypes
    <2> QED BY <1>1, <1>3, <2>1 DEF TokenCurrent
  <1> QED BY <1>1, <1>4, <1>5, Zenon

(* A good token's claims are not those of nobody, and name its roles. *)
LEMMA ClaimsNameRoles ==
  ASSUME NEW t \in AccessToken
  PROVE  /\ TypedClaims(t) # Refused /\ PlainClaims(t) # Refused
         /\ TypedClaims(t).user = t.user /\ PlainClaims(t).user = t.user
         /\ {<<r.org, r.role>> : r \in TypedClaims(t).roles} = {<<r.org, r.role>> : r \in t.roles}
         /\ {<<r.org, r.role>> : r \in PlainClaims(t).roles} = {<<r.org, r.role>> : r \in t.roles}
  <1>1. DOMAIN TypedClaims(t) = {"user", "roles", "userRoles", "mfa"}
    BY Zenon DEF TypedClaims
  <1>2. DOMAIN PlainClaims(t) = {"user", "roles", "userRoles"}
    BY Zenon DEF PlainClaims
  <1>3. DOMAIN Refused = {"user"}
    BY Zenon DEF Refused
  <1>4. TypedClaims(t) # Refused /\ PlainClaims(t) # Refused
    BY <1>1, <1>2, <1>3
  <1>5. /\ TypedClaims(t).user = t.user /\ PlainClaims(t).user = t.user
        /\ TypedClaims(t).roles = t.roles
        /\ PlainClaims(t).roles = {[org |-> r.org, role |-> r.role] : r \in t.roles}
    BY Zenon DEF TypedClaims, PlainClaims
  <1>6. {<<r.org, r.role>> : r \in {[org |-> x.org, role |-> x.role] : x \in t.roles}}
          = {<<r.org, r.role>> : r \in t.roles}
    <2> DEFINE Plain(x) == [org |-> x.org, role |-> x.role]
    <2>1. \A r \in t.roles : Plain(r).org = r.org /\ Plain(r).role = r.role
      BY Zenon
    <2> HIDE DEF Plain
    <2>2. {<<r.org, r.role>> : r \in {Plain(x) : x \in t.roles}} = {<<Plain(x).org, Plain(x).role>> : x \in t.roles}
      BY Zenon
    <2>3. {<<Plain(x).org, Plain(x).role>> : x \in t.roles} = {<<r.org, r.role>> : r \in t.roles}
      BY <2>1, Zenon
    <2> QED BY <2>2, <2>3, Zenon DEF Plain
  <1> QED BY <1>4, <1>5, <1>6, Zenon

(* The invariant gives the property. *)
LEMMA TokenInvIsCurrent == TokenInv => AccessIsCurrent
  <1> SUFFICES ASSUME TokenInv PROVE AccessIsCurrent
    BY Zenon
  <1>1. \A t \in HandedOut : t \in AccessToken
    BY DEF TokenInv, TokenTypes, HandedOut
  <1>2. AccessEndsWithMembership
    <2> DEFINE since == clock - AccessTtl - IssueTime
    <2> SUFFICES ASSUME NEW t \in HandedOut
                 PROVE  /\ \A o \in TokenOrgs :
                              MerchantAdmits(t, o) => HeldSince(t, o, {"owner", "admin"}, since)
                        /\ ComplianceAdmits(t) => \E o \in TokenOrgs : HeldSince(t, o, {"admin"}, since)
      BY Zenon DEF AccessEndsWithMembership
    <2>1. ASSUME Unexpired(t)
          PROVE  \A r \in t.roles : r \in RoleClaim /\ HeldSince(t, r.org, {r.role}, since)
      <3>1. t.roles \subseteq RoleClaim
        BY <1>1, Zenon DEF AccessToken
      <3> QED BY <2>1, <3>1, GoodTokenIsCurrent, Zenon
    <2> HIDE DEF since
    <2>2. ASSUME NEW o \in TokenOrgs, MerchantAdmits(t, o) PROVE HeldSince(t, o, {"owner", "admin"}, since)
      <3>1. Unexpired(t) /\ MerchantPrincipal(t) = PlainClaims(t)
        BY <2>2, Zenon DEF MerchantAdmits, MerchantPrincipal
      <3>2. \E r \in PlainClaims(t).roles : r.org = o /\ r.role \in {"owner", "admin"}
        BY <2>2, <3>1, Zenon DEF MerchantAdmits
      <3>3. PICK r \in t.roles : r.org = o /\ r.role \in {"owner", "admin"}
        BY <3>2 DEF PlainClaims
      <3> QED BY <2>1, <3>1, <3>3, Zenon DEF HeldSince
    <2>3. ASSUME ComplianceAdmits(t) PROVE \E o \in TokenOrgs : HeldSince(t, o, {"admin"}, since)
      <3>1. Unexpired(t) /\ CompliancePrincipal(t) = PlainClaims(t)
        BY <2>3, Zenon DEF ComplianceAdmits, CompliancePrincipal
      <3>2. "admin" \in PlainClaims(t).userRoles \/ \E r \in PlainClaims(t).roles : r.role = "admin"
        BY <2>3, <3>1, Zenon DEF ComplianceAdmits
      <3>3. PlainClaims(t).userRoles = {"payer"}
        BY <1>1, Zenon DEF PlainClaims, AccessToken
      <3>4. PICK r \in t.roles : r.role = "admin"
        BY <3>2, <3>3 DEF PlainClaims
      <3>5. r.org \in TokenOrgs /\ HeldSince(t, r.org, {"admin"}, since)
        BY <2>1, <3>1, <3>4, Zenon DEF RoleClaim
      <3> QED BY <3>5, Zenon
    <2> QED BY <2>2, <2>3, Zenon
  <1>3. BackofficeNeedsFreshCode
    <2> SUFFICES ASSUME NEW t \in HandedOut, BackofficeAdmits(t)
                 PROVE  lastCode[t.user] >= clock - AccessTtl - IssueTime
      BY Zenon DEF BackofficeNeedsFreshCode
    <2>1. Unexpired(t) /\ AdminPrincipal(t) = TypedClaims(t)
      BY Zenon DEF BackofficeAdmits, AdminPrincipal
    <2>2. t.mfa
      BY <2>1 DEF BackofficeAdmits, TypedClaims
    <2> QED BY <2>1, <2>2, GoodTokenIsCurrent, Zenon
  <1>4. VerifiersAgree
    <2> SUFFICES ASSUME NEW t \in HandedOut, NEW p \in Principals(t), NEW q \in Principals(t)
                 PROVE  /\ (p = Refused) = (q = Refused)
                        /\ p # Refused => /\ p.user = q.user
                                          /\ {<<r.org, r.role>> : r \in p.roles} = {<<r.org, r.role>> : r \in q.roles}
      BY Zenon DEF VerifiersAgree
    <2>1. CASE Unexpired(t)
      <3>1. p \in {TypedClaims(t), PlainClaims(t)} /\ q \in {TypedClaims(t), PlainClaims(t)}
        BY <2>1, Zenon DEF Principals, IdentityPrincipal, AdminPrincipal, MerchantPrincipal, CompliancePrincipal,
                    PricingPrincipal, InvoicePrincipal
      <3>2. p # Refused /\ q # Refused
        BY <1>1, <3>1, ClaimsNameRoles, Zenon
      <3>3. p.user = t.user /\ q.user = t.user
        BY <1>1, <3>1, ClaimsNameRoles, Zenon
      <3>4. /\ {<<r.org, r.role>> : r \in p.roles} = {<<r.org, r.role>> : r \in t.roles}
            /\ {<<r.org, r.role>> : r \in q.roles} = {<<r.org, r.role>> : r \in t.roles}
        BY <1>1, <3>1, ClaimsNameRoles, Zenon
      <3> QED BY <3>2, <3>3, <3>4, Zenon
    <2>2. CASE ~ Unexpired(t)
      <3>1. p = Refused /\ q = Refused
        BY <2>2, Zenon DEF Principals, IdentityPrincipal, AdminPrincipal, MerchantPrincipal, CompliancePrincipal,
                    PricingPrincipal, InvoicePrincipal
      <3> QED BY <3>1, Zenon
    <2> QED BY <2>1, <2>2, Zenon
  <1> QED BY <1>2, <1>3, <1>4, Zenon DEF AccessIsCurrent

(* For any users, organizations and lifetimes: what a verifier accepts was  *)
(* a membership, or a fresh code for the back office, no longer ago than    *)
(* the life of a token and the time to issue it, and all verifiers judge it *)
(* alike.                                                                   *)
THEOREM AccessIsCurrentAlways == TokenSpec => []AccessIsCurrent
  <1>1. TokenInit => TokenInv
    BY TokenInitInv, Zenon
  <1>2. TokenInv /\ [TokenNext]_tokenVars => TokenInv'
    BY TokenNextInv, Zenon
  <1>3. TokenInv => AccessIsCurrent
    BY TokenInvIsCurrent, Zenon
  <1> QED BY <1>1, <1>2, <1>3, PTL DEF TokenSpec

-----------------------------------------------------------------------------
(* IdentitySessions: the inductive invariant.                               *)

SessionRow == [state : {"absent", "active", "revoked"}, lapsed : BOOLEAN, pwd : Nat, parent : 0..MaxSessions]
ResetRow == [state : {"absent", "live", "lapsed", "used"}, uses : Nat]
FactorRow == [state : {"absent", "pending", "active"}, secret : Nat, proven : Nat]

AuthRequest ==
    {AuthFree} \cup [op : {"login"}, began : Nat]
        \cup [op : {"rotate"}, from : SessionIds, seen : {"active"}, began : Nat]
        \cup [op : {"family"}, found : SUBSET SessionIds]
        \cup [op : {"request"}, found : SUBSET TokenIds]
        \cup [op : {"confirm"}, token : TokenIds, found : SUBSET SessionIds]
        \cup [op : {"enroll", "verify"}, read : FactorRow]

SessionTypes ==
    /\ sessions \in [SessionIds -> SessionRow] /\ password \in Nat
    /\ late \in SUBSET SessionIds /\ splits \in [SessionIds -> Nat]

ResetTypes == resets \in [TokenIds -> ResetRow] /\ doubles \in [TokenIds -> Nat]

FactorTypes == factor \in FactorRow /\ secrets \in Nat /\ factor.secret <= secrets

RequestTypes == authReq \in [AuthWorkers -> AuthRequest]

Made(s) == sessions[s].state # "absent"
Sent(t) == resets[t].state # "absent"

(* Sessions are numbered as they come; a parent has been retired. *)
SessionRows ==
    /\ \E n \in 0..MaxSessions : {s \in SessionIds : Made(s)} = 1..n
    /\ \A s \in SessionIds : ~ Made(s) => sessions[s].parent = 0
    /\ \A s \in SessionIds : sessions[s].parent # 0 => sessions[sessions[s].parent].state = "revoked"

(* Tokens are numbered as they come; one not used has no use. *)
TokenRows ==
    /\ \E n \in 0..MaxResetTokens : {t \in TokenIds : Sent(t)} = 1..n
    /\ \A t \in TokenIds : resets[t].state # "used" => resets[t].uses = 0
    /\ ~ crossed => \A t, u \in TokenIds : resets[t].state = "live" /\ resets[u].state = "live" => t = u

(* What a request has read and is still true when it writes: what it found  *)
(* is there; a session rotated was not from before a change of password,    *)
(* unless late; a session the confirmation did not find is late; no factor  *)
(* that was active is enrolled over.                                        *)
Knows(q) ==
    /\ q.op = "rotate" => Made(q.from) /\ (sessions[q.from].pwd < q.began => q.from \in late)
    /\ q.op = "family" => \A s \in q.found : Made(s)
    /\ q.op = "request" => \A t \in q.found : Sent(t)
    /\ q.op = "confirm" => /\ Sent(q.token) /\ \A s \in q.found : Made(s)
                           /\ \A s \in Active : s \in q.found \/ s \in late
    /\ q.op = "enroll" => q.read.state # "active"

RequestsKnow == \A w \in AuthWorkers : Knows(authReq[w])

SessionInv ==
    /\ SessionTypes /\ ResetTypes /\ FactorTypes /\ RequestTypes
    /\ SessionRows /\ TokenRows /\ RequestsKnow
    /\ RotatedOnce /\ ResetEndsOldSessions /\ ResetTokenSingleUse /\ ActiveFactorProven

(* A worker without a request serves no operation. *)
LEMMA AuthFreeIs == AuthFree.op = "none" /\ AuthFree \in AuthRequest
BY Zenon DEF AuthFree, AuthRequest

(* No session, no token and no factor at the start. *)
LEMMA SessionInitInv == SessionInit => SessionInv
  <1> SUFFICES ASSUME SessionInit PROVE SessionInv
    BY Zenon
  <1> USE IdentitySessionsAssumption
  <1>1. /\ \A s \in SessionIds : sessions[s] = NoSession /\ splits[s] = 0
        /\ \A t \in TokenIds : resets[t] = NoToken /\ doubles[t] = 0
        /\ \A w \in AuthWorkers : authReq[w] = AuthFree
    BY Zenon DEF SessionInit
  <1>2. /\ NoSession \in SessionRow /\ NoSession.state = "absent" /\ NoSession.parent = 0
        /\ NoToken \in ResetRow /\ NoToken.state = "absent" /\ NoToken.uses = 0
        /\ NoFactor \in FactorRow /\ NoFactor.state = "absent" /\ NoFactor.secret = 0
    BY DEF NoSession, SessionRow, NoToken, ResetRow, NoFactor, FactorRow
  <1>3. SessionTypes /\ ResetTypes /\ FactorTypes /\ RequestTypes
    BY <1>2, AuthFreeIs DEF SessionInit, SessionTypes, ResetTypes, FactorTypes, RequestTypes
  <1>4. SessionRows
    <2>1. {s \in SessionIds : Made(s)} = 1..0 /\ 0 \in 0..MaxSessions
      BY <1>1, <1>2 DEF Made
    <2> QED BY <1>1, <1>2, <2>1, Zenon DEF SessionRows
  <1>5. TokenRows
    <2>1. {t \in TokenIds : Sent(t)} = 1..0 /\ 0 \in 0..MaxResetTokens
      BY <1>1, <1>2 DEF Sent
    <2> QED BY <1>1, <1>2, <2>1, Zenon DEF TokenRows
  <1>6. RequestsKnow
    BY <1>1, AuthFreeIs, Zenon DEF RequestsKnow, Knows
  <1>7. RotatedOnce
    <2> SUFFICES ASSUME NEW s \in SessionIds
                 PROVE  Cardinality({c \in SessionIds : sessions[c].state # "absent" /\ sessions[c].parent = s})
                            <= 1 + splits[s]
      BY Zenon DEF RotatedOnce
    <2>1. {c \in SessionIds : sessions[c].state # "absent" /\ sessions[c].parent = s} = {}
      BY <1>1, <1>2, Zenon
    <2>2. Cardinality({}) = 0
      BY FS_EmptySet, Zenon
    <2>3. splits[s] \in Nat
      BY <1>1
    <2> QED BY <2>1, <2>2, <2>3
  <1>8. ResetEndsOldSessions
    BY <1>1, <1>2, Zenon DEF ResetEndsOldSessions, Active
  <1>9. ResetTokenSingleUse /\ ActiveFactorProven
    BY <1>1, <1>2 DEF ResetTokenSingleUse, ActiveFactorProven, SessionInit
  <1> QED BY <1>3, <1>4, <1>5, <1>6, <1>7, <1>8, <1>9, Zenon DEF SessionInv

(* What a request knows stays true while rows are only added and retired,    *)
(* and sessions added while a confirmation is under way are late.            *)
LEMMA KnowsStays ==
  ASSUME NEW q \in AuthRequest, Knows(q),
         \A s \in SessionIds : Made(s) => Made(s)' /\ sessions'[s].pwd = sessions[s].pwd,
         \A t \in TokenIds : Sent(t) => Sent(t)',
         late \subseteq late',
         q.op = "confirm" => \A s \in Active' : s \in Active \/ s \in late'
  PROVE  Knows(q)'
  <1>1. q.op = "rotate" => Made(q.from)' /\ (sessions'[q.from].pwd < q.began => q.from \in late')
    BY DEF Knows, AuthRequest, AuthFree
  <1>2. q.op = "family" => \A s \in q.found : Made(s)'
    BY DEF Knows, AuthRequest, AuthFree
  <1>3. q.op = "request" => \A t \in q.found : Sent(t)'
    BY DEF Knows, AuthRequest, AuthFree
  <1>4. q.op = "confirm" => /\ Sent(q.token)' /\ \A s \in q.found : Made(s)'
                            /\ \A s \in Active' : s \in q.found \/ s \in late'
    <2> SUFFICES ASSUME q.op = "confirm"
                 PROVE  /\ Sent(q.token)' /\ \A s \in q.found : Made(s)'
                        /\ \A s \in Active' : s \in q.found \/ s \in late'
      BY Zenon
    <2>1. q.token \in TokenIds /\ q.found \subseteq SessionIds
      BY DEF AuthRequest, AuthFree
    <2> QED BY <2>1, Zenon DEF Knows
  <1> QED BY <1>1, <1>2, <1>3, <1>4, Zenon DEF Knows

(* What the requests know stays true while sessions and tokens are only     *)
(* added or retired.                                                        *)
LEMMA RequestsStay ==
  ASSUME RequestTypes, RequestsKnow,
         \A w \in AuthWorkers : authReq'[w] \in {authReq[w], AuthFree},
         \A s \in SessionIds : Made(s) => Made(s)' /\ sessions'[s].pwd = sessions[s].pwd,
         \A t \in TokenIds : Sent(t) => Sent(t)',
         late \subseteq late',
         (\E w \in AuthWorkers : authReq[w].op = "confirm") => \A s \in Active' : s \in Active \/ s \in late'
  PROVE  RequestsKnow'
  <1> SUFFICES ASSUME NEW w \in AuthWorkers PROVE Knows(authReq[w])'
    BY Zenon DEF RequestsKnow
  <1>1. PICK q \in AuthRequest : q = authReq[w]
    BY Zenon DEF RequestTypes
  <1>2. Knows(q)
    BY <1>1, Zenon DEF RequestsKnow
  <1>3. Knows(q)'
    BY <1>1, <1>2, KnowsStays, Zenon
  <1>4. Knows(AuthFree)'
    BY AuthFreeIs, Zenon DEF Knows
  <1>5. CASE authReq'[w] = q
    BY <1>3, <1>5, Zenon DEF Knows
  <1>6. CASE authReq'[w] = AuthFree
    BY <1>4, <1>6, Zenon DEF Knows, AuthFree
  <1> QED BY <1>1, <1>5, <1>6, Zenon

(* The sessions a session was rotated into. *)
Successors(s) == {c \in SessionIds : sessions[c].state # "absent" /\ sessions[c].parent = s}

(* A session has finitely many successors. *)
LEMMA SuccessorsFinite ==
  ASSUME NEW s PROVE IsFiniteSet(Successors(s)) /\ Cardinality(Successors(s)) \in Nat
  <1>1. IsFiniteSet(SessionIds)
    BY FS_Interval, IdentitySessionsAssumption DEF SessionIds
  <1>2. Successors(s) \in SUBSET SessionIds
    BY Zenon DEF Successors
  <1> QED BY <1>1, <1>2, FS_Subset, FS_CardinalityType, Zenon

(* RotatedOnce, counted by successors. *)
LEMMA RotatedOnceIs == RotatedOnce <=> \A s \in SessionIds : Cardinality(Successors(s)) <= 1 + splits[s]
BY Zenon DEF RotatedOnce, Successors

(* Retiring sessions that are there. *)
LEMMA SessionsRetired ==
  ASSUME SessionTypes, SessionRows, NEW S \in SUBSET SessionIds, \A s \in S : Made(s), sessions' = Revoke(S)
  PROVE  /\ sessions' \in [SessionIds -> SessionRow] /\ SessionRows'
         /\ \A s \in SessionIds : /\ Made(s)' <=> Made(s)
                                  /\ sessions'[s].pwd = sessions[s].pwd
                                  /\ sessions'[s].parent = sessions[s].parent
         /\ \A s \in SessionIds : sessions'[s].state = IF s \in S THEN "revoked" ELSE sessions[s].state
         /\ Active' = Active \ S
         /\ \A s \in SessionIds : Successors(s)' = Successors(s)
  <1>1. ASSUME NEW s \in SessionIds
        PROVE  /\ sessions'[s] \in SessionRow
               /\ sessions'[s].state = IF s \in S THEN "revoked" ELSE sessions[s].state
               /\ sessions'[s].pwd = sessions[s].pwd /\ sessions'[s].parent = sessions[s].parent
    BY DEF Revoke, SessionTypes, SessionRow
  <1>2. sessions' \in [SessionIds -> SessionRow]
    BY <1>1, Zenon DEF Revoke
  <1>3. \A s \in SessionIds : Made(s)' <=> Made(s)
    BY <1>1, Zenon DEF Made
  <1>4. SessionRows'
    <2>1. {s \in SessionIds : Made(s)'} = {s \in SessionIds : Made(s)}
      BY <1>3, Zenon
    <2>2. \A s \in SessionIds : sessions[s].parent \in 0..MaxSessions
      BY Zenon DEF SessionTypes, SessionRow
    <2>3. \A s \in SessionIds : sessions'[s].parent # 0 => sessions'[sessions'[s].parent].state = "revoked"
      BY <1>1, <2>2 DEF SessionRows, SessionIds
    <2> QED BY <1>1, <1>3, <2>1, <2>3, Zenon DEF SessionRows
  <1>5. Active' = Active \ S
    BY <1>1, Zenon DEF Active
  <1>6. \A s \in SessionIds : Successors(s)' = Successors(s)
    BY <1>1, <1>3 DEF Successors, Made
  <1> QED BY <1>1, <1>2, <1>3, <1>4, <1>5, <1>6

(* The next session id is not taken, and taking it keeps the order. *)
LEMMA NextSessionIs ==
  ASSUME SessionRows, NextSession \in SessionIds
  PROVE  /\ ~ Made(NextSession)
         /\ \E n \in 0..MaxSessions : {s \in SessionIds : Made(s)} \cup {NextSession} = 1..n
  <1>1. PICK n \in 0..MaxSessions : {s \in SessionIds : Made(s)} = 1..n
    BY Zenon DEF SessionRows
  <1>2. Cardinality(1..n) = n
    BY <1>1, FS_Interval, IdentitySessionsAssumption
  <1>3. NextSession = n + 1
    BY <1>1, <1>2, Zenon DEF NextSession, Made
  <1>4. n + 1 \in 0..MaxSessions /\ n + 1 \notin 1..n /\ 1..n \cup {n + 1} = 1..(n + 1)
    BY <1>3, IdentitySessionsAssumption DEF SessionIds
  <1> QED BY <1>1, <1>3, <1>4, Zenon

(* The sessions, after some of them were retired. *)
SomeRetired(rows) ==
    \A s \in SessionIds :
        /\ rows[s].state \in {sessions[s].state, "revoked"}
        /\ rows[s].state = "absent" <=> sessions[s].state = "absent"
        /\ rows[s].pwd = sessions[s].pwd /\ rows[s].parent = sessions[s].parent

(* What the insert of a session leaves true and what it changes. *)
SessionIsNew(n, pwd, p) ==
    /\ sessions' \in [SessionIds -> SessionRow] /\ SessionRows'
    /\ ~ Made(n) /\ sessions'[n].pwd = pwd
    /\ \A s \in SessionIds : Made(s) => Made(s)' /\ sessions'[s].pwd = sessions[s].pwd
    /\ \A s \in Active' : s \in Active \/ s = n
    /\ \A s \in SessionIds : Successors(s)' = IF s = p THEN Successors(s) \cup {n} ELSE Successors(s)

(* One more session, after some were retired. *)
LEMMA SessionAdded ==
  ASSUME SessionTypes, SessionRows, NEW n \in SessionIds, n = NextSession,
         NEW rows \in [SessionIds -> SessionRow],
         SomeRetired(rows),
         NEW pwd \in Nat, NEW p \in 0..MaxSessions, p # 0 => rows[p].state = "revoked",
         sessions' = [rows EXCEPT ![n] = NewSession(pwd, p)]
  PROVE  SessionIsNew(n, pwd, p)
  <1> DEFINE new == NewSession(pwd, p)
  <1>1. new \in SessionRow /\ new.state = "active" /\ new.pwd = pwd /\ new.parent = p
    BY Zenon DEF NewSession, SessionRow
  <1> HIDE DEF new
  <1>2. sessions' \in [SessionIds -> SessionRow] /\ sessions'[n] = new
        /\ \A s \in SessionIds \ {n} : sessions'[s] = rows[s]
    BY <1>1, Zenon DEF new
  <1>3. ~ Made(n) /\ \E k \in 0..MaxSessions : {s \in SessionIds : Made(s)} \cup {n} = 1..k
    BY NextSessionIs, Zenon
  <1>4. \A s \in SessionIds : Made(s)' <=> Made(s) \/ s = n
    BY <1>1, <1>2, Zenon DEF Made, SomeRetired
  <1>5. \A s \in SessionIds : Made(s) => sessions'[s].pwd = sessions[s].pwd
    BY <1>2, <1>3, Zenon DEF SomeRetired
  <1>6. \A s \in Active' : s \in Active \/ s = n
    BY <1>2 DEF Active, SomeRetired, SessionRow
  <1>7. \A s \in SessionIds : Successors(s)' = IF s = p THEN Successors(s) \cup {n} ELSE Successors(s)
    <2> SUFFICES ASSUME NEW s \in SessionIds
                 PROVE  Successors(s)' = IF s = p THEN Successors(s) \cup {n} ELSE Successors(s)
      BY Zenon
    <2>1. \A c \in SessionIds \ {n} : (c \in Successors(s)') <=> c \in Successors(s)
      BY <1>2 DEF Successors, SomeRetired
    <2>2. n \notin Successors(s) /\ ((n \in Successors(s)') <=> s = p)
      BY <1>1, <1>2, <1>3, Zenon DEF Successors, Made
    <2>3. Successors(s) \subseteq SessionIds /\ (Successors(s)') \subseteq SessionIds
      BY Zenon DEF Successors
    <2>4. CASE s = p
      <3>1. Successors(s)' = Successors(s) \cup {n}
        BY <2>1, <2>2, <2>3, <2>4, Zenon
      <3> QED BY <2>4, <3>1, Zenon
    <2>5. CASE s # p
      <3>1. \A c \in SessionIds : (c \in Successors(s)') <=> c \in Successors(s)
        BY <2>1, <2>2, <2>5, Zenon
      <3>2. Successors(s)' = Successors(s)
        BY <2>3, <3>1, Zenon
      <3> QED BY <2>5, <3>2, Zenon
    <2> QED BY <2>4, <2>5, Zenon
  <1>8. SessionRows'
    <2>1. {s \in SessionIds : Made(s)'} = {s \in SessionIds : Made(s)} \cup {n}
      BY <1>4, Zenon
    <2>2. \A s \in SessionIds : ~ Made(s)' => sessions'[s].parent = 0
      BY <1>2, <1>4 DEF SessionRows, Made, SomeRetired
    <2>3. \A q \in SessionIds : rows[q].state = "revoked" => sessions'[q].state = "revoked"
      BY <1>2, <1>3, Zenon DEF Made, SomeRetired
    <2>4. ASSUME NEW s \in SessionIds, sessions'[s].parent # 0
          PROVE  sessions'[sessions'[s].parent].state = "revoked"
      <3>1. CASE s = n
        BY <1>1, <1>2, <2>3, <2>4, <3>1 DEF SessionIds
      <3>2. CASE s # n
        <4>a. sessions'[s].parent = sessions[s].parent /\ sessions[s].parent # 0
          BY <1>2, <2>4, <3>2, Zenon DEF SomeRetired
        <4>b. sessions[s].parent \in 0..MaxSessions
          BY DEF SessionTypes, SessionRow
        <4>1. sessions'[s].parent = sessions[s].parent /\ sessions[s].parent \in SessionIds
          BY <4>a, <4>b DEF SessionIds
        <4>2. sessions[sessions[s].parent].state = "revoked"
          BY <2>4, <4>1, Zenon DEF SessionRows
        <4>3. rows[sessions[s].parent].state = "revoked"
          BY <4>1, <4>2, Zenon DEF SomeRetired
        <4> QED BY <2>3, <4>1, <4>3, Zenon
      <3> QED BY <3>1, <3>2, Zenon
    <2> QED BY <1>3, <2>1, <2>2, <2>4, Zenon DEF SessionRows
  <1> QED BY <1>1, <1>2, <1>3, <1>4, <1>5, <1>6, <1>7, <1>8 DEF SessionIsNew

(* A request begins: it knows what it read. *)
LEMMA AuthBegins ==
  ASSUME SessionInv, NEW w \in AuthWorkers, NEW q \in AuthRequest, Knows(q), BeginAuth(w, q)
  PROVE  SessionInv'
  <1>1. /\ authReq' = [authReq EXCEPT ![w] = q]
        /\ UNCHANGED <<password, sessions, resets, factor, secrets, late, splits, doubles, crossed, swapped>>
    BY Zenon DEF BeginAuth, sessionTables, sessionHistory
  <1>2. RequestTypes'
    BY <1>1, Zenon DEF SessionInv, RequestTypes
  <1>3. RequestsKnow'
    BY <1>1 DEF SessionInv, RequestTypes, RequestsKnow, Knows, Made, Sent, Active
  <1>4. SessionTypes' /\ ResetTypes' /\ FactorTypes' /\ SessionRows' /\ TokenRows'
    BY <1>1, Zenon DEF SessionInv, SessionTypes, ResetTypes, FactorTypes, SessionRows, TokenRows, Made, Sent
  <1>5. RotatedOnce' /\ ResetEndsOldSessions' /\ ResetTokenSingleUse' /\ ActiveFactorProven'
    BY <1>1, Zenon DEF SessionInv, RotatedOnce, ResetEndsOldSessions, ResetTokenSingleUse, ActiveFactorProven, Active
  <1> QED BY <1>2, <1>3, <1>4, <1>5, Zenon DEF SessionInv

(* The part of the invariant about sessions, after a step that only retires. *)
LEMMA RetiringKeeps ==
  ASSUME SessionInv, NEW S \in SUBSET SessionIds, \A s \in S : Made(s), sessions' = Revoke(S),
         UNCHANGED <<late, splits>>, password' = password \/ (password' = password + 1 /\ \A s \in Active : s \in S \/ s \in late)
  PROVE  /\ SessionTypes' /\ SessionRows' /\ RotatedOnce' /\ ResetEndsOldSessions'
         /\ \A s \in SessionIds : Made(s) => Made(s)' /\ sessions'[s].pwd = sessions[s].pwd
         /\ \A s \in Active' : s \in Active
  <1>0. SessionTypes /\ SessionRows /\ RotatedOnce /\ ResetEndsOldSessions
    BY Zenon DEF SessionInv
  <1>1. /\ sessions' \in [SessionIds -> SessionRow] /\ SessionRows'
        /\ \A s \in SessionIds : (Made(s)' <=> Made(s)) /\ sessions'[s].pwd = sessions[s].pwd
        /\ Active' = Active \ S
        /\ \A s \in SessionIds : Successors(s)' = Successors(s)
    BY <1>0, SessionsRetired
  <1>2. SessionTypes'
    BY <1>0, <1>1 DEF SessionTypes
  <1>3. RotatedOnce'
    BY <1>0, <1>1, RotatedOnceIs, SuccessorsFinite, Zenon DEF SessionTypes, RotatedOnce, Successors
  <1>4. ResetEndsOldSessions'
    BY <1>0, <1>1, Zenon DEF ResetEndsOldSessions, Active
  <1> QED BY <1>1, <1>2, <1>3, <1>4, Zenon

(* What issuing a session leaves true and what it changes. *)
SessionIsIssued(n, p) ==
    /\ sessions' \in [SessionIds -> SessionRow] /\ late' \in SUBSET SessionIds
    /\ SessionRows' /\ ResetEndsOldSessions' /\ late \subseteq late'
    /\ \A s \in SessionIds : Made(s) => Made(s)' /\ sessions'[s].pwd = sessions[s].pwd
    /\ (\E v \in AuthWorkers : authReq[v].op = "confirm") => \A s \in Active' : s \in Active \/ s \in late'
    /\ n \notin Successors(p)
    /\ \A s \in SessionIds : Successors(s)' = IF s = p THEN Successors(s) \cup {n} ELSE Successors(s)

(* The same after a session was issued. *)
LEMMA IssuingKeeps ==
  ASSUME SessionInv, NEW w \in AuthWorkers, NEW n \in SessionIds, n = NextSession,
         NEW rows \in [SessionIds -> SessionRow],
         SomeRetired(rows),
         NEW pwd \in Nat, NEW p \in 0..MaxSessions, p # 0 => rows[p].state = "revoked",
         sessions' = [rows EXCEPT ![n] = NewSession(pwd, p)],
         late' = IF IsLate(w, p) THEN late \cup {n} ELSE late, UNCHANGED password,
         pwd < password => IsLate(w, p)
  PROVE  SessionIsIssued(n, p)
  <1>0. SessionTypes /\ SessionRows /\ ResetEndsOldSessions
    BY Zenon DEF SessionInv
  <1>1. /\ sessions' \in [SessionIds -> SessionRow] /\ SessionRows'
        /\ ~ Made(n) /\ sessions'[n].pwd = pwd
        /\ \A s \in SessionIds : Made(s) => Made(s)' /\ sessions'[s].pwd = sessions[s].pwd
        /\ \A s \in Active' : s \in Active \/ s = n
        /\ \A s \in SessionIds : Successors(s)' = IF s = p THEN Successors(s) \cup {n} ELSE Successors(s)
    <2>1. SessionIsNew(n, pwd, p)
      BY <1>0, SessionAdded, Zenon
    <2> QED BY <2>1, Zenon DEF SessionIsNew
  <1>2. late' \in SUBSET SessionIds /\ late \subseteq late' /\ (IsLate(w, p) => n \in late')
    BY <1>0 DEF SessionTypes
  <1>3. (\E v \in AuthWorkers : authReq[v].op = "confirm") => \A s \in Active' : s \in Active \/ s \in late'
    <2>1. (\E v \in AuthWorkers : authReq[v].op = "confirm") => IsLate(w, p)
      BY Zenon DEF IsLate
    <2> QED BY <1>1, <1>2, <2>1, Zenon
  <1>4. ResetEndsOldSessions'
    <2> SUFFICES ASSUME NEW s \in Active', sessions'[s].pwd < password' PROVE s \in late'
      BY Zenon DEF ResetEndsOldSessions
    <2>1. CASE s = n
      BY <1>1, <1>2, <2>1, Zenon
    <2>2. CASE s \in Active
      <3>1. s \in SessionIds /\ Made(s)
        BY <2>2, Zenon DEF Active, Made
      <3> QED BY <1>0, <1>1, <1>2, <2>2, <3>1, Zenon DEF ResetEndsOldSessions
    <2> QED BY <1>1, <2>1, <2>2, Zenon
  <1>5. n \notin Successors(p)
    <2>1. ~ Made(n)
      BY <1>1, Zenon
    <2> QED BY <2>1, Zenon DEF Successors, Made
  <1> QED BY <1>1, <1>2, <1>3, <1>4, <1>5, Zenon DEF SessionIsIssued

(* The part of the invariant about reset tokens and the factor is untouched. *)
LEMMA ResetsUntouched ==
  ASSUME SessionInv, UNCHANGED <<resets, doubles, crossed>>
  PROVE  /\ ResetTypes' /\ TokenRows' /\ ResetTokenSingleUse'
         /\ \A t \in TokenIds : Sent(t) => Sent(t)'
BY Zenon DEF SessionInv, ResetTypes, TokenRows, ResetTokenSingleUse, Sent

(* A step that does not touch the second factor keeps what is known of it. *)
LEMMA FactorUntouched ==
  ASSUME SessionInv, UNCHANGED <<factor, secrets, swapped>>
  PROVE  FactorTypes' /\ ActiveFactorProven'
BY Zenon DEF SessionInv, FactorTypes, ActiveFactorProven

(* Nor do sessions change under a step that does not touch them. *)
LEMMA SessionsUntouched ==
  ASSUME SessionInv, UNCHANGED <<password, sessions, late, splits>>
  PROVE  /\ SessionTypes' /\ SessionRows' /\ RotatedOnce' /\ ResetEndsOldSessions'
         /\ \A s \in SessionIds : Made(s) => Made(s)' /\ sessions'[s].pwd = sessions[s].pwd
         /\ \A s \in Active' : s \in Active
BY Zenon DEF SessionInv, SessionTypes, SessionRows, RotatedOnce, ResetEndsOldSessions, Active, Made

(* The slot of a request that ends is free, the others are as they were. *)
LEMMA AuthEnds ==
  ASSUME SessionInv, NEW w \in AuthWorkers, NEW op, EndAuth(w, op)
  PROVE  /\ RequestTypes' /\ authReq[w].op = op
         /\ \A v \in AuthWorkers : authReq'[v] \in {authReq[v], AuthFree}
BY AuthFreeIs, Zenon DEF EndAuth, SessionInv, RequestTypes

(* login inserts a session of the password it verified; the session is late *)
(* when a confirmation has already looked for sessions to end.              *)
LEMMA LoginKeeps ==
  ASSUME SessionInv, NEW w \in AuthWorkers, CommitLogin(w)
  PROVE  SessionInv'
  <1>0. SessionTypes /\ SessionRows /\ RequestTypes /\ RequestsKnow /\ RotatedOnce
    BY Zenon DEF SessionInv
  <1>1. /\ EndAuth(w, "login") /\ NextSession \in SessionIds
        /\ sessions' = [sessions EXCEPT ![NextSession] = NewSession(authReq[w].began, 0)]
        /\ late' = IF IsLate(w, 0) THEN late \cup {NextSession} ELSE late
        /\ UNCHANGED <<password, resets, factor, secrets, splits, doubles, crossed, swapped>>
    BY Zenon DEF CommitLogin, Issue
  <1>2. PICK n \in SessionIds : n = NextSession
    BY <1>1, Zenon
  <1>3. authReq[w].op = "login" /\ RequestTypes' /\ \A v \in AuthWorkers : authReq'[v] \in {authReq[v], AuthFree}
    BY <1>1, AuthEnds, Zenon
  <1>4. PICK pwd \in Nat : pwd = authReq[w].began
    BY <1>0, <1>3 DEF RequestTypes, AuthRequest, AuthFree
  <1>5. pwd < password => IsLate(w, 0)
    BY <1>0, <1>4 DEF IsLate, SessionTypes
  <1>6. SessionIsIssued(n, 0)
    <2>1. sessions \in [SessionIds -> SessionRow] /\ SomeRetired(sessions)
      BY <1>0, Zenon DEF SessionTypes, SomeRetired
    <2>2. 0 \in 0..MaxSessions
      BY IdentitySessionsAssumption
    <2>3. PICK rows \in [SessionIds -> SessionRow] : rows = sessions /\ SomeRetired(rows)
      BY <2>1, Zenon
    <2>4. sessions' = [rows EXCEPT ![n] = NewSession(pwd, 0)]
      BY <1>1, <1>2, <1>4, <2>3
    <2>5. late' = IF IsLate(w, 0) THEN late \cup {n} ELSE late
      BY <1>1, <1>2
    <2> QED BY <1>1, <1>2, <1>5, <2>2, <2>3, <2>4, <2>5, IssuingKeeps, Zenon
  <1>7. RotatedOnce'
    <2>1. \A s \in SessionIds : Successors(s)' = Successors(s)
      BY <1>6 DEF SessionIsIssued, SessionIds
    <2> QED BY <1>0, <1>1, <2>1, RotatedOnceIs, Zenon DEF RotatedOnce, Successors
  <1>8. SessionTypes'
    BY <1>0, <1>1, <1>6, Zenon DEF SessionTypes, SessionIsIssued
  <1>9. SessionRows' /\ ResetEndsOldSessions'
    BY <1>6, Zenon DEF SessionIsIssued
  <1>10. ResetTypes' /\ TokenRows' /\ ResetTokenSingleUse' /\ \A t \in TokenIds : Sent(t) => Sent(t)'
    BY <1>1, ResetsUntouched, Zenon
  <1>11. FactorTypes' /\ ActiveFactorProven'
    BY <1>1, FactorUntouched, Zenon
  <1>12. RequestsKnow'
    BY <1>0, <1>3, <1>6, <1>10, RequestsStay DEF SessionIsIssued
  <1> QED BY <1>3, <1>7, <1>8, <1>9, <1>10, <1>11, <1>12 DEF SessionInv

(* rotate retires the session of its token and inserts the successor; two   *)
(* that read the same session are a split.                                  *)
LEMMA RotateKeeps ==
  ASSUME SessionInv, NEW w \in AuthWorkers, CommitRotate(w)
  PROVE  SessionInv'
  <1>0. SessionTypes /\ SessionRows /\ RequestTypes /\ RequestsKnow /\ RotatedOnce /\ ResetEndsOldSessions
    BY Zenon DEF SessionInv
  <1>1. EndAuth(w, "rotate")
    BY Zenon DEF CommitRotate
  <1>3. authReq[w].op = "rotate" /\ RequestTypes' /\ \A v \in AuthWorkers : authReq'[v] \in {authReq[v], AuthFree}
    BY <1>1, AuthEnds, Zenon
  <1>4. PICK q \in AuthRequest : q = authReq[w]
    BY <1>0, Zenon DEF RequestTypes
  <1>5. q.from \in SessionIds /\ q.seen = "active" /\ q.began \in Nat
    BY <1>3, <1>4 DEF AuthRequest, AuthFree
  <1>6. PICK s \in SessionIds : s = q.from
    BY <1>5, Zenon
  <1>7. Made(s) /\ (sessions[s].pwd < q.began => s \in late)
    BY <1>0, <1>3, <1>4, <1>6, Zenon DEF RequestsKnow, Knows
  <1>8. /\ NextSession \in SessionIds
        /\ sessions' = [Revoke({s}) EXCEPT ![NextSession] = NewSession(sessions[s].pwd, s)]
        /\ late' = IF IsLate(w, s) THEN late \cup {NextSession} ELSE late
        /\ splits' = IF sessions[s].state = "revoked" THEN [splits EXCEPT ![s] = @ + 1] ELSE splits
        /\ UNCHANGED <<password, resets, factor, secrets, doubles, crossed, swapped>>
    BY <1>4, <1>5, <1>6, Zenon DEF CommitRotate, Issue, RetiresPresented
  <1>9. PICK n \in SessionIds, pwd \in Nat, rows \in [SessionIds -> SessionRow] :
          n = NextSession /\ pwd = sessions[s].pwd /\ rows = Revoke({s})
    <2>1. Revoke({s}) \in [SessionIds -> SessionRow]
      BY <1>0 DEF Revoke, SessionTypes, SessionRow
    <2>2. sessions[s].pwd \in Nat
      BY <1>0, Zenon DEF SessionTypes, SessionRow
    <2> QED BY <1>8, <2>1, <2>2, Zenon
  <1>10. SomeRetired(rows) /\ rows[s].state = "revoked"
    BY <1>0, <1>7, <1>9 DEF SomeRetired, Revoke, SessionTypes, SessionRow, Made
  <1>11. pwd < password => IsLate(w, s)
    BY <1>0, <1>4, <1>5, <1>7, <1>9, Zenon DEF IsLate, SessionTypes
  <1>12. SessionIsIssued(n, s)
    <2>1. s \in 0..MaxSessions /\ (s # 0 => rows[s].state = "revoked")
      BY <1>10 DEF SessionIds
    <2>2. sessions' = [rows EXCEPT ![n] = NewSession(pwd, s)]
      BY <1>8, <1>9, Zenon
    <2>3. late' = IF IsLate(w, s) THEN late \cup {n} ELSE late
      BY <1>8, <1>9, Zenon
    <2> QED BY <1>8, <1>9, <1>10, <1>11, <2>1, <2>2, <2>3, IssuingKeeps, Zenon
  <1>13. RotatedOnce'
    <2> SUFFICES ASSUME NEW x \in SessionIds PROVE Cardinality(Successors(x)') <= 1 + splits'[x]
      BY Zenon DEF RotatedOnce, Successors
    <2>0. Cardinality(Successors(x)) <= 1 + splits[x] /\ splits[x] \in Nat /\ Cardinality(Successors(x)) \in Nat
      BY <1>0, RotatedOnceIs, SuccessorsFinite, Zenon DEF SessionTypes
    <2>1. CASE x # s
      <3>1. Successors(x)' = Successors(x)
        BY <1>12, <2>1, Zenon DEF SessionIsIssued
      <3>2. splits'[x] = splits[x]
        BY <1>0, <1>8, <2>1, Zenon DEF SessionTypes
      <3> QED BY <2>0, <3>1, <3>2, Zenon
    <2>2. CASE x = s
      <3>1. Successors(x)' = Successors(x) \cup {n} /\ n \notin Successors(x)
        BY <1>12, <2>2, Zenon DEF SessionIsIssued
      <3>2. Cardinality(Successors(x)') = Cardinality(Successors(x)) + 1
        BY <3>1, SuccessorsFinite, FS_AddElement, Zenon
      <3>3. CASE sessions[s].state = "revoked"
        <4>1. splits'[x] = splits[x] + 1
          BY <1>0, <1>8, <2>2, <3>3 DEF SessionTypes
        <4> QED BY <2>0, <3>2, <4>1
      <3>4. CASE sessions[s].state # "revoked"
        <4>1. Successors(x) = {}
          BY <1>0, <2>2, <3>4 DEF SessionRows, Successors, SessionIds
        <4>2. Cardinality(Successors(x)) = 0
          BY <4>1, FS_EmptySet, Zenon
        <4>3. splits'[x] = splits[x]
          BY <1>8, <3>4, Zenon
        <4> QED BY <2>0, <3>2, <4>2, <4>3
      <3> QED BY <3>3, <3>4, Zenon
    <2> QED BY <2>1, <2>2, Zenon
  <1>14. SessionTypes'
    <2>1. splits' \in [SessionIds -> Nat] /\ password' \in Nat
      BY <1>0, <1>8 DEF SessionTypes
    <2>2. sessions' \in [SessionIds -> SessionRow] /\ late' \in SUBSET SessionIds
      BY <1>12, Zenon DEF SessionIsIssued
    <2> QED BY <2>1, <2>2, Zenon DEF SessionTypes
  <1>15. SessionRows' /\ ResetEndsOldSessions'
    BY <1>12, Zenon DEF SessionIsIssued
  <1>16. ResetTypes' /\ TokenRows' /\ ResetTokenSingleUse' /\ \A t \in TokenIds : Sent(t) => Sent(t)'
    BY <1>8, ResetsUntouched, Zenon
  <1>17. FactorTypes' /\ ActiveFactorProven'
    BY <1>8, FactorUntouched, ZenonT(30)
  <1>18. RequestsKnow'
    BY <1>0, <1>3, <1>12, <1>16, RequestsStay, Zenon DEF SessionIsIssued
  <1> QED BY <1>3, <1>13, <1>14, <1>15, <1>16, <1>17, <1>18 DEF SessionInv

(* The next reset token is not taken, and taking it keeps the order. *)
LEMMA NextTokenIs ==
  ASSUME TokenRows, NextToken \in TokenIds
  PROVE  /\ ~ Sent(NextToken)
         /\ \E n \in 0..MaxResetTokens : {t \in TokenIds : Sent(t)} \cup {NextToken} = 1..n
  <1>1. PICK n \in 0..MaxResetTokens : {t \in TokenIds : Sent(t)} = 1..n
    BY Zenon DEF TokenRows
  <1>2. Cardinality(1..n) = n
    BY <1>1, FS_Interval, IdentitySessionsAssumption
  <1>3. NextToken = n + 1
    BY <1>1, <1>2, Zenon DEF NextToken, Sent
  <1>4. n + 1 \in 0..MaxResetTokens /\ n + 1 \notin 1..n /\ 1..n \cup {n + 1} = 1..(n + 1)
    BY <1>3, IdentitySessionsAssumption DEF TokenIds
  <1> QED BY <1>1, <1>3, <1>4, Zenon

(* A reset request lapses the live tokens it found and inserts one; two     *)
(* that overlap are crossed.                                                *)
LEMMA RequestResetKeeps ==
  ASSUME SessionInv, NEW w \in AuthWorkers, CommitRequestReset(w)
  PROVE  SessionInv'
  <1>0. ResetTypes /\ TokenRows /\ RequestTypes /\ RequestsKnow /\ ResetTokenSingleUse
    BY Zenon DEF SessionInv
  <1>1. authReq[w].op = "request" /\ RequestTypes' /\ \A v \in AuthWorkers : authReq'[v] \in {authReq[v], AuthFree}
    BY AuthEnds, ZenonT(30) DEF CommitRequestReset
  <1>2. PICK found \in SUBSET TokenIds : found = authReq[w].found
    BY <1>0, <1>1 DEF RequestTypes, AuthRequest, AuthFree
  <1>3. \A t \in found : Sent(t)
    BY <1>0, <1>1, <1>2, Zenon DEF RequestsKnow, Knows
  <1>4. PICK n \in TokenIds : n = NextToken
    BY Zenon DEF CommitRequestReset
  <1>5. /\ resets' = [Invalidated(found) EXCEPT ![n] = [state |-> "live", uses |-> 0]]
        /\ UNCHANGED <<password, sessions, factor, secrets, late, splits, doubles, swapped>>
    BY <1>2, <1>4, Zenon DEF CommitRequestReset
  <1>6. ~ crossed' => ~ crossed /\ Unused \subseteq found
    BY <1>2, Zenon DEF CommitRequestReset
  <1>7. ~ Sent(n) /\ \E k \in 0..MaxResetTokens : {t \in TokenIds : Sent(t)} \cup {n} = 1..k
    BY <1>0, <1>4, NextTokenIs, Zenon
  <1>8. /\ resets' \in [TokenIds -> ResetRow]
        /\ resets'[n].state = "live" /\ resets'[n].uses = 0
        /\ \A t \in TokenIds \ {n} :
              /\ resets'[t].uses = resets[t].uses
              /\ resets'[t].state = IF t \in found THEN "used" ELSE resets[t].state
    BY <1>0, <1>5 DEF ResetTypes, ResetRow, Invalidated
  <1>9. \A t \in TokenIds : Sent(t)' <=> Sent(t) \/ t = n
    BY <1>3, <1>8, Zenon DEF Sent
  <1>10. ResetTypes'
    BY <1>0, <1>5, <1>8, Zenon DEF ResetTypes
  <1>11. TokenRows'
    <2>1. {t \in TokenIds : Sent(t)'} = {t \in TokenIds : Sent(t)} \cup {n}
      BY <1>9, Zenon
    <2>2. \A t \in TokenIds : resets'[t].state # "used" => resets'[t].uses = 0
      BY <1>0, <1>8, Zenon DEF TokenRows
    <2>3. ASSUME ~ crossed', NEW t \in TokenIds, resets'[t].state = "live" PROVE t = n
      BY <1>6, <1>8, <2>3, Zenon DEF Unused
    <2> QED BY <1>7, <2>1, <2>2, <2>3, Zenon DEF TokenRows
  <1>12. ResetTokenSingleUse'
    BY <1>0, <1>5, <1>8 DEF ResetTokenSingleUse, ResetTypes
  <1>13. /\ SessionTypes' /\ SessionRows' /\ RotatedOnce' /\ ResetEndsOldSessions'
         /\ \A s \in SessionIds : Made(s) => Made(s)' /\ sessions'[s].pwd = sessions[s].pwd
         /\ \A s \in Active' : s \in Active
    BY <1>5, SessionsUntouched, Zenon
  <1>14. FactorTypes' /\ ActiveFactorProven'
    BY <1>5, FactorUntouched, Zenon
  <1>15. RequestsKnow'
    BY <1>0, <1>1, <1>5, <1>9, <1>13, RequestsStay, Zenon
  <1> QED BY <1>1, <1>10, <1>11, <1>12, <1>13, <1>14, <1>15, Zenon DEF SessionInv

(* A confirmation uses its token, changes the password and ends the         *)
(* sessions it found; those it did not find are late.                       *)
LEMMA ConfirmResetKeeps ==
  ASSUME SessionInv, NEW w \in AuthWorkers, CommitConfirmReset(w)
  PROVE  SessionInv'
  <1>0. ResetTypes /\ TokenRows /\ RequestTypes /\ RequestsKnow /\ ResetTokenSingleUse
    BY Zenon DEF SessionInv
  <1>1. authReq[w].op = "confirm" /\ RequestTypes' /\ \A v \in AuthWorkers : authReq'[v] \in {authReq[v], AuthFree}
    BY AuthEnds, Zenon DEF CommitConfirmReset
  <1>2. PICK t \in TokenIds, found \in SUBSET SessionIds : t = authReq[w].token /\ found = authReq[w].found
    BY <1>0, <1>1 DEF RequestTypes, AuthRequest, AuthFree
  <1>3. Sent(t) /\ (\A s \in found : Made(s)) /\ \A s \in Active : s \in found \/ s \in late
    BY <1>0, <1>1, <1>2, Zenon DEF RequestsKnow, Knows
  <1>4. /\ password' = password + 1
        /\ resets' = [resets EXCEPT ![t] = [state |-> "used", uses |-> @.uses + 1]]
        /\ sessions' = Revoke(found)
        /\ doubles' = IF resets[t].state = "used" THEN [doubles EXCEPT ![t] = @ + 1] ELSE doubles
        /\ UNCHANGED <<factor, secrets, late, splits, crossed, swapped>>
    BY <1>2, Zenon DEF CommitConfirmReset, TokenAfterUse, RevokesAll
  <1>5. /\ SessionTypes' /\ SessionRows' /\ RotatedOnce' /\ ResetEndsOldSessions'
        /\ \A s \in SessionIds : Made(s) => Made(s)' /\ sessions'[s].pwd = sessions[s].pwd
        /\ \A s \in Active' : s \in Active
    BY <1>3, <1>4, RetiringKeeps, Zenon
  <1>6. /\ resets'[t].state = "used" /\ resets'[t].uses = resets[t].uses + 1
        /\ \A u \in TokenIds \ {t} : resets'[u] = resets[u]
    BY <1>0, <1>4, Zenon DEF ResetTypes, ResetRow
  <1>7. ResetTypes'
    <2>1. resets' \in [TokenIds -> ResetRow]
      BY <1>0, <1>4 DEF ResetTypes, ResetRow
    <2>2. doubles' \in [TokenIds -> Nat]
      BY <1>0, <1>4 DEF ResetTypes
    <2> QED BY <2>1, <2>2, Zenon DEF ResetTypes
  <1>8. \A u \in TokenIds : Sent(u)' <=> Sent(u)
    BY <1>3, <1>6, Zenon DEF Sent
  <1>9. TokenRows'
    <2>1. {u \in TokenIds : Sent(u)'} = {u \in TokenIds : Sent(u)}
      BY <1>8, Zenon
    <2>2. \A u \in TokenIds : resets'[u].state # "used" => resets'[u].uses = 0
      BY <1>0, <1>6, Zenon DEF TokenRows
    <2>3. \A u \in TokenIds : resets'[u].state = "live" => resets[u].state = "live"
      BY <1>6, Zenon
    <2> QED BY <1>0, <1>4, <2>1, <2>2, <2>3 DEF TokenRows
  <1>10. ResetTokenSingleUse'
    <2> SUFFICES ASSUME NEW u \in TokenIds PROVE resets'[u].uses <= 1 + doubles'[u]
      BY Zenon DEF ResetTokenSingleUse
    <2>0. resets[u].uses <= 1 + doubles[u] /\ resets[u].uses \in Nat /\ doubles[u] \in Nat
      BY <1>0, Zenon DEF ResetTokenSingleUse, ResetTypes, ResetRow
    <2>1. CASE u # t
      BY <1>0, <1>4, <1>6, <2>0, <2>1, Zenon DEF ResetTypes
    <2>2. CASE u = t /\ resets[t].state = "used"
      <3>1. doubles'[u] = doubles[u] + 1
        BY <1>0, <1>4, <2>2, Zenon DEF ResetTypes
      <3> QED BY <1>6, <2>0, <2>2, <3>1
    <2>3. CASE u = t /\ resets[t].state # "used"
      BY <1>0, <1>4, <1>6, <2>0, <2>3 DEF TokenRows
    <2> QED BY <2>1, <2>2, <2>3, Zenon
  <1>11. FactorTypes' /\ ActiveFactorProven'
    BY <1>4, FactorUntouched, Zenon
  <1>12. RequestsKnow'
    BY <1>0, <1>1, <1>4, <1>5, <1>8, RequestsStay, Zenon
  <1> QED BY <1>1, <1>5, <1>7, <1>9, <1>10, <1>11, <1>12 DEF SessionInv

(* A step of the factor touches nothing else. *)
LEMMA FactorKeeps ==
  ASSUME SessionInv, FactorTypes', ActiveFactorProven', RequestTypes',
         \A v \in AuthWorkers : authReq'[v] \in {authReq[v], AuthFree},
         UNCHANGED <<password, sessions, resets, late, splits, doubles, crossed>>
  PROVE  SessionInv'
  <1>1. /\ SessionTypes' /\ SessionRows' /\ RotatedOnce' /\ ResetEndsOldSessions'
        /\ \A s \in SessionIds : Made(s) => Made(s)' /\ sessions'[s].pwd = sessions[s].pwd
        /\ \A s \in Active' : s \in Active
    BY SessionsUntouched, ZenonT(30)
  <1>2. ResetTypes' /\ TokenRows' /\ ResetTokenSingleUse' /\ \A t \in TokenIds : Sent(t) => Sent(t)'
    BY ResetsUntouched, Zenon
  <1>3. RequestsKnow'
    BY <1>1, <1>2, RequestsStay, Zenon DEF SessionInv
  <1> QED BY <1>1, <1>2, <1>3 DEF SessionInv

(* An enrolment writes a new secret that is yet to be proven, over no       *)
(* factor it saw active.                                                    *)
LEMMA EnrollKeeps ==
  ASSUME SessionInv, NEW w \in AuthWorkers, CommitEnroll(w)
  PROVE  SessionInv'
  <1>0. FactorTypes /\ RequestTypes /\ RequestsKnow /\ ActiveFactorProven
    BY Zenon DEF SessionInv
  <1>1. authReq[w].op = "enroll" /\ RequestTypes' /\ \A v \in AuthWorkers : authReq'[v] \in {authReq[v], AuthFree}
    BY AuthEnds, Zenon DEF CommitEnroll
  <1>2. PICK read \in FactorRow : read = authReq[w].read
    BY <1>0, <1>1 DEF RequestTypes, AuthRequest, AuthFree
  <1>3. read.state # "active"
    BY <1>0, <1>1, <1>2, Zenon DEF RequestsKnow, Knows
  <1>4. /\ (read.state = "absent") = (factor.state = "absent")
        /\ secrets' = secrets + 1
        /\ factor' = [factor EXCEPT !.secret = secrets + 1, !.state = IF @ = "absent" THEN "pending" ELSE @]
        /\ UNCHANGED <<password, sessions, resets, late, splits, doubles, crossed>>
    BY <1>2, Zenon DEF CommitEnroll
  <1>5. ~ swapped' => ~ swapped /\ ~ (read.state = "pending" /\ factor.state = "active")
    BY <1>2, Zenon DEF CommitEnroll
  <1>6. /\ factor' \in FactorRow /\ factor'.secret = secrets + 1 /\ secrets + 1 \in Nat
        /\ factor'.state = IF factor.state = "absent" THEN "pending" ELSE factor.state
    <2> DEFINE f == [factor EXCEPT !.secret = secrets + 1, !.state = IF @ = "absent" THEN "pending" ELSE @]
    <2>1. secrets + 1 \in Nat
      BY <1>0 DEF FactorTypes
    <2>2. f.secret = secrets + 1 /\ f.proven = factor.proven
      BY <1>0, Zenon DEF FactorTypes, FactorRow
    <2>3. f.state = IF factor.state = "absent" THEN "pending" ELSE factor.state
      BY <1>0, Zenon DEF FactorTypes, FactorRow
    <2>4. f \in FactorRow
      BY <1>0, <2>1, Zenon DEF FactorTypes, FactorRow
    <2> QED BY <1>4, <2>1, <2>2, <2>3, <2>4, Zenon
  <1>7. FactorTypes'
    BY <1>4, <1>6 DEF FactorTypes
  <1>8. ActiveFactorProven'
    <2> SUFFICES ASSUME factor'.state = "active", ~ swapped' PROVE FALSE
      BY Zenon DEF ActiveFactorProven
    <2>1. factor.state = "active"
      BY <1>6, Zenon
    <2>2. read.state = "pending"
      BY <1>3, <1>4, <2>1, Zenon DEF FactorRow
    <2> QED BY <1>5, <2>1, <2>2, Zenon
  <1> QED BY <1>1, <1>4, <1>7, <1>8, FactorKeeps

(* A verification activates the factor by the secret its code was made of;  *)
(* a secret that was replaced meanwhile is a swap.                          *)
LEMMA VerifyKeeps ==
  ASSUME SessionInv, NEW w \in AuthWorkers, CommitVerify(w)
  PROVE  SessionInv'
  <1>0. FactorTypes /\ RequestTypes /\ ActiveFactorProven
    BY Zenon DEF SessionInv
  <1>1. authReq[w].op = "verify" /\ RequestTypes' /\ \A v \in AuthWorkers : authReq'[v] \in {authReq[v], AuthFree}
    BY AuthEnds, Zenon DEF CommitVerify
  <1>2. PICK read \in FactorRow : read = authReq[w].read
    BY <1>0, <1>1 DEF RequestTypes, AuthRequest, AuthFree
  <1>3. /\ factor' = IF factor.state = "absent" THEN factor
                     ELSE [factor EXCEPT !.state = "active", !.proven = read.secret]
        /\ UNCHANGED <<password, sessions, resets, secrets, late, splits, doubles, crossed>>
    BY <1>2, Zenon DEF CommitVerify
  <1>4. ~ swapped' => ~ swapped /\ ~ (factor.state # "absent" /\ factor.secret # read.secret)
    BY <1>2, Zenon DEF CommitVerify
  <1>5. CASE factor.state = "absent"
    <2>1. FactorTypes' /\ ActiveFactorProven'
      BY <1>0, <1>3, <1>5, Zenon DEF FactorTypes, ActiveFactorProven
    <2> QED BY <1>1, <1>3, <2>1, FactorKeeps, Zenon
  <1>6. CASE factor.state # "absent"
    <2>1. /\ factor' \in FactorRow /\ factor'.secret = factor.secret /\ factor'.proven = read.secret
      BY <1>0, <1>3, <1>6, ZenonT(30) DEF FactorTypes, FactorRow
    <2>2. FactorTypes'
      BY <1>0, <1>3, <2>1 DEF FactorTypes
    <2>3. ActiveFactorProven'
      BY <1>4, <1>6, <2>1, Zenon DEF ActiveFactorProven
    <2> QED BY <1>1, <1>3, <2>2, <2>3, FactorKeeps, Zenon
  <1> QED BY <1>5, <1>6

(* A step that only retires sessions. *)
LEMMA RevocationKeeps ==
  ASSUME SessionInv, NEW S \in SUBSET SessionIds, \A s \in S : Made(s), sessions' = Revoke(S), RequestTypes',
         \A v \in AuthWorkers : authReq'[v] \in {authReq[v], AuthFree},
         UNCHANGED <<password, resets, factor, secrets, late, splits, doubles, crossed, swapped>>
  PROVE  SessionInv'
  <1>1. /\ SessionTypes' /\ SessionRows' /\ RotatedOnce' /\ ResetEndsOldSessions'
        /\ \A s \in SessionIds : Made(s) => Made(s)' /\ sessions'[s].pwd = sessions[s].pwd
        /\ \A s \in Active' : s \in Active
    BY RetiringKeeps, Zenon
  <1>2. ResetTypes' /\ TokenRows' /\ ResetTokenSingleUse' /\ \A t \in TokenIds : Sent(t) => Sent(t)'
    BY ResetsUntouched, Zenon
  <1>3. FactorTypes' /\ ActiveFactorProven'
    BY FactorUntouched, Zenon
  <1>4. RequestsKnow'
    BY <1>1, <1>2, RequestsStay, Zenon DEF SessionInv
  <1> QED BY <1>1, <1>2, <1>3, <1>4 DEF SessionInv

(* A session that expires is neither retired nor made anew. *)
LEMMA SessionExpiryKeeps ==
  ASSUME SessionInv, NEW s \in SessionIds, SessionExpires(s)
  PROVE  SessionInv'
  <1>0. SessionTypes /\ SessionRows /\ RotatedOnce /\ ResetEndsOldSessions /\ RequestTypes /\ RequestsKnow
    BY Zenon DEF SessionInv
  <1>1. /\ sessions' = [sessions EXCEPT ![s].lapsed = TRUE]
        /\ UNCHANGED <<password, resets, factor, secrets, authReq, late, splits, doubles, crossed, swapped>>
    BY Zenon DEF SessionExpires, sessionHistory
  <1>2. /\ sessions' \in [SessionIds -> SessionRow]
        /\ \A x \in SessionIds : /\ sessions'[x].state = sessions[x].state
                                 /\ sessions'[x].pwd = sessions[x].pwd /\ sessions'[x].parent = sessions[x].parent
    BY <1>0, <1>1, Zenon DEF SessionTypes, SessionRow
  <1>3. /\ \A x \in SessionIds : Made(x)' <=> Made(x)
        /\ Active' = Active
        /\ \A x \in SessionIds : Successors(x)' = Successors(x)
    BY <1>2, Zenon DEF Made, Active, Successors
  <1>4. SessionTypes'
    BY <1>0, <1>1, <1>2, Zenon DEF SessionTypes
  <1>5. SessionRows'
    <2>1. {x \in SessionIds : Made(x)'} = {x \in SessionIds : Made(x)}
      BY <1>3, Zenon
    <2>2. \A x \in SessionIds : sessions[x].parent \in 0..MaxSessions
      BY <1>0, Zenon DEF SessionTypes, SessionRow
    <2>3. \A x \in SessionIds : sessions'[x].parent # 0 => sessions'[sessions'[x].parent].state = "revoked"
      BY <1>0, <1>2, <2>2 DEF SessionRows, SessionIds
    <2> QED BY <1>0, <1>2, <1>3, <2>1, <2>3, Zenon DEF SessionRows
  <1>6. RotatedOnce'
    BY <1>0, <1>1, <1>3, RotatedOnceIs, Zenon DEF RotatedOnce, Successors
  <1>7. ResetEndsOldSessions'
    BY <1>0, <1>1, <1>2, <1>3 DEF ResetEndsOldSessions, Active
  <1>8. ResetTypes' /\ TokenRows' /\ ResetTokenSingleUse' /\ \A t \in TokenIds : Sent(t) => Sent(t)'
    BY <1>1, ResetsUntouched, Zenon
  <1>9. FactorTypes' /\ ActiveFactorProven'
    BY <1>1, FactorUntouched, Zenon
  <1>10. RequestTypes' /\ \A v \in AuthWorkers : authReq'[v] \in {authReq[v], AuthFree}
    BY <1>0, <1>1, Zenon DEF RequestTypes
  <1>11. RequestsKnow'
    BY <1>0, <1>1, <1>2, <1>3, <1>8, <1>10, RequestsStay
  <1> QED BY <1>4, <1>5, <1>6, <1>7, <1>8, <1>9, <1>10, <1>11 DEF SessionInv

(* A reset token that expires is no longer live and was not used. *)
LEMMA TokenExpiryKeeps ==
  ASSUME SessionInv, NEW t \in TokenIds, TokenExpires(t)
  PROVE  SessionInv'
  <1>0. ResetTypes /\ TokenRows /\ ResetTokenSingleUse /\ RequestTypes /\ RequestsKnow
    BY Zenon DEF SessionInv
  <1>1. /\ resets[t].state = "live" /\ resets' = [resets EXCEPT ![t].state = "lapsed"]
        /\ UNCHANGED <<password, sessions, factor, secrets, authReq, late, splits, doubles, crossed, swapped>>
    BY Zenon DEF TokenExpires, sessionHistory
  <1>2. /\ resets' \in [TokenIds -> ResetRow] /\ resets'[t].state = "lapsed"
        /\ \A u \in TokenIds : resets'[u].uses = resets[u].uses
        /\ \A u \in TokenIds \ {t} : resets'[u].state = resets[u].state
    BY <1>0, <1>1, Zenon DEF ResetTypes, ResetRow
  <1>3. \A u \in TokenIds : Sent(u)' <=> Sent(u)
    BY <1>1, <1>2 DEF Sent
  <1>4. ResetTypes' /\ ResetTokenSingleUse'
    BY <1>0, <1>1, <1>2 DEF ResetTypes, ResetTokenSingleUse
  <1>5. TokenRows'
    <2>1. {u \in TokenIds : Sent(u)'} = {u \in TokenIds : Sent(u)}
      BY <1>3, Zenon
    <2>2. \A u \in TokenIds : resets'[u].state # "used" => resets'[u].uses = 0
      BY <1>0, <1>1, <1>2, Zenon DEF TokenRows
    <2>3. \A u \in TokenIds : resets'[u].state = "live" => resets[u].state = "live"
      BY <1>1, <1>2, Zenon
    <2> QED BY <1>0, <1>1, <2>1, <2>2, <2>3 DEF TokenRows
  <1>6. /\ SessionTypes' /\ SessionRows' /\ RotatedOnce' /\ ResetEndsOldSessions'
        /\ \A s \in SessionIds : Made(s) => Made(s)' /\ sessions'[s].pwd = sessions[s].pwd
        /\ \A s \in Active' : s \in Active
    BY <1>1, SessionsUntouched, Zenon
  <1>7. FactorTypes' /\ ActiveFactorProven'
    BY <1>1, FactorUntouched, Zenon
  <1>8. RequestTypes' /\ \A v \in AuthWorkers : authReq'[v] \in {authReq[v], AuthFree}
    BY <1>0, <1>1, Zenon DEF RequestTypes
  <1>9. RequestsKnow'
    BY <1>0, <1>1, <1>3, <1>6, <1>8, RequestsStay
  <1> QED BY <1>4, <1>5, <1>6, <1>7, <1>8, <1>9 DEF SessionInv

(* Every step keeps the invariant. *)
LEMMA SessionNextInv == SessionInv /\ [SessionNext]_sessionVars => SessionInv'
  <1> SUFFICES ASSUME SessionInv, [SessionNext]_sessionVars PROVE SessionInv'
    BY Zenon
  <1>0. SessionTypes /\ SessionRows /\ ResetTypes /\ FactorTypes /\ RequestTypes /\ RequestsKnow /\ ResetEndsOldSessions
    BY Zenon DEF SessionInv
  <1>1. ASSUME NEW w \in AuthWorkers, BeginLogin(w) PROVE SessionInv'
    <2>1. PICK q \in AuthRequest : q = [op |-> "login", began |-> password]
      BY <1>0, ZenonT(30) DEF AuthRequest, SessionTypes
    <2>2. Knows(q)
      BY <2>1, Zenon DEF Knows
    <2> QED BY <1>1, <2>1, <2>2, AuthBegins, Zenon DEF BeginLogin
  <1>2. ASSUME NEW w \in AuthWorkers, CommitLogin(w) PROVE SessionInv'
    BY <1>2, LoginKeeps, Zenon
  <1>3. ASSUME NEW w \in AuthWorkers, CommitRotate(w) PROVE SessionInv'
    BY <1>3, RotateKeeps, Zenon
  <1>4. ASSUME NEW w \in AuthWorkers, CommitRevokeFamily(w) PROVE SessionInv'
    <2>1. authReq[w].op = "family" /\ RequestTypes' /\ \A v \in AuthWorkers : authReq'[v] \in {authReq[v], AuthFree}
      BY <1>4, AuthEnds, Zenon DEF CommitRevokeFamily
    <2>2. PICK S \in SUBSET SessionIds : S = authReq[w].found
      BY <1>0, <2>1 DEF RequestTypes, AuthRequest, AuthFree
    <2>3. \A s \in S : Made(s)
      BY <1>0, <2>1, <2>2, Zenon DEF RequestsKnow, Knows
    <2>4. /\ sessions' = Revoke(S)
          /\ UNCHANGED <<password, resets, factor, secrets, late, splits, doubles, crossed, swapped>>
      BY <1>4, <2>2, Zenon DEF CommitRevokeFamily, sessionHistory
    <2> QED BY <2>1, <2>3, <2>4, RevocationKeeps, Zenon
  <1>5. ASSUME NEW w \in AuthWorkers, BeginRequestReset(w) PROVE SessionInv'
    <2>1. PICK q \in AuthRequest : q = [op |-> "request", found |-> Unused]
      BY Zenon DEF AuthRequest, Unused
    <2>2. Knows(q)
      BY <2>1, Zenon DEF Knows, Unused, Sent
    <2> QED BY <1>5, <2>1, <2>2, AuthBegins, Zenon DEF BeginRequestReset
  <1>6. ASSUME NEW w \in AuthWorkers, CommitRequestReset(w) PROVE SessionInv'
    BY <1>6, RequestResetKeeps, Zenon
  <1>7. ASSUME NEW w \in AuthWorkers, CommitConfirmReset(w) PROVE SessionInv'
    BY <1>7, ConfirmResetKeeps, Zenon
  <1>8. ASSUME NEW w \in AuthWorkers, BeginEnroll(w) PROVE SessionInv'
    <2>1. PICK q \in AuthRequest : q = [op |-> "enroll", read |-> factor]
      BY <1>0, Zenon DEF AuthRequest, FactorTypes
    <2>2. Knows(q)
      BY <1>8, <2>1, Zenon DEF Knows, BeginEnroll, Enrollable
    <2> QED BY <1>8, <2>1, <2>2, AuthBegins, Zenon DEF BeginEnroll
  <1>9. ASSUME NEW w \in AuthWorkers, CommitEnroll(w) PROVE SessionInv'
    BY <1>9, EnrollKeeps, Zenon
  <1>10. ASSUME NEW w \in AuthWorkers, EnrollFails(w) PROVE SessionInv'
    <2>1. RequestTypes' /\ \A v \in AuthWorkers : authReq'[v] \in {authReq[v], AuthFree}
      BY <1>10, AuthEnds, Zenon DEF EnrollFails
    <2>2. UNCHANGED <<password, sessions, resets, factor, secrets, late, splits, doubles, crossed, swapped>>
      BY <1>10, Zenon DEF EnrollFails, sessionTables, sessionHistory
    <2>3. FactorTypes' /\ ActiveFactorProven'
      BY <2>2, FactorUntouched, Zenon
    <2> QED BY <2>1, <2>2, <2>3, FactorKeeps, Zenon
  <1>11. ASSUME NEW w \in AuthWorkers, BeginVerify(w) PROVE SessionInv'
    <2>1. PICK q \in AuthRequest : q = [op |-> "verify", read |-> factor]
      BY <1>0, Zenon DEF AuthRequest, FactorTypes
    <2>2. Knows(q)
      BY <2>1, Zenon DEF Knows
    <2> QED BY <1>11, <2>1, <2>2, AuthBegins, Zenon DEF BeginVerify
  <1>12. ASSUME NEW w \in AuthWorkers, CommitVerify(w) PROVE SessionInv'
    BY <1>12, VerifyKeeps, Zenon
  <1>13. ASSUME NEW w \in AuthWorkers, NEW s \in SessionIds, BeginRotate(w, s) PROVE SessionInv'
    <2>1. sessions[s].state = "active"
      BY <1>13, Zenon DEF BeginRotate, Rotatable
    <2>2. PICK q \in AuthRequest : q = [op |-> "rotate", from |-> s, seen |-> sessions[s].state, began |-> password]
      BY <1>0, <2>1, ZenonT(30) DEF AuthRequest, SessionTypes
    <2>3. Knows(q)
      BY <1>0, <2>1, <2>2, ZenonT(30) DEF Knows, Made, ResetEndsOldSessions, Active
    <2> QED BY <1>13, <2>2, <2>3, AuthBegins, Zenon DEF BeginRotate
  <1>14. ASSUME NEW w \in AuthWorkers, NEW s \in SessionIds, BeginRevokeFamily(w, s) PROVE SessionInv'
    <2>1. PICK q \in AuthRequest : q = [op |-> "family", found |-> Active]
      BY ZenonT(30) DEF AuthRequest, Active
    <2>2. Knows(q)
      BY <2>1, Zenon DEF Knows, Active, Made
    <2> QED BY <1>14, <2>1, <2>2, AuthBegins, Zenon DEF BeginRevokeFamily
  <1>15. ASSUME NEW w \in AuthWorkers, NEW t \in TokenIds, BeginConfirmReset(w, t) PROVE SessionInv'
    <2>1. PICK q \in AuthRequest : q = [op |-> "confirm", token |-> t, found |-> Active]
      BY Zenon DEF AuthRequest, Active
    <2>2. Knows(q)
      BY <1>15, <2>1, Zenon DEF Knows, Active, Made, Sent, BeginConfirmReset
    <2> QED BY <1>15, <2>1, <2>2, AuthBegins, ZenonT(30) DEF BeginConfirmReset
  <1>16. ASSUME NEW s \in SessionIds, RevokeActive(s) PROVE SessionInv'
    <2>1. PICK S \in SUBSET SessionIds : S = {s}
      BY Zenon
    <2>2. /\ sessions' = Revoke(S) /\ \A x \in S : Made(x)
          /\ UNCHANGED <<password, resets, factor, secrets, authReq, late, splits, doubles, crossed, swapped>>
      BY <1>16, <2>1, Zenon DEF RevokeActive, sessionHistory, Made
    <2>3. RequestTypes' /\ \A v \in AuthWorkers : authReq'[v] \in {authReq[v], AuthFree}
      BY <1>0, <2>2, Zenon DEF RequestTypes
    <2> QED BY <2>2, <2>3, RevocationKeeps, Zenon
  <1>17. ASSUME NEW s \in SessionIds, SessionExpires(s) PROVE SessionInv'
    BY <1>17, SessionExpiryKeeps, Zenon
  <1>18. ASSUME NEW t \in TokenIds, TokenExpires(t) PROVE SessionInv'
    BY <1>18, TokenExpiryKeeps, Zenon
  <1>19. ASSUME DisableMfa PROVE SessionInv'
    <2>1. /\ factor' = FactorDeleted(factor)
          /\ UNCHANGED <<password, sessions, resets, secrets, authReq, late, splits, doubles, crossed, swapped>>
      BY <1>19, Zenon DEF DisableMfa, sessionHistory
    <2>2. NoFactor \in FactorRow /\ NoFactor.state = "absent" /\ NoFactor.secret = 0
      BY Zenon DEF NoFactor, FactorRow
    <2>3. FactorTypes' /\ ActiveFactorProven'
      BY <1>0, <2>1, <2>2 DEF FactorTypes, ActiveFactorProven, FactorDeleted, SessionInv
    <2>4. RequestTypes' /\ \A v \in AuthWorkers : authReq'[v] \in {authReq[v], AuthFree}
      BY <1>0, <2>1, Zenon DEF RequestTypes
    <2> QED BY <2>1, <2>3, <2>4, FactorKeeps
  <1>20. CASE UNCHANGED sessionVars
    <2>1. UNCHANGED <<password, sessions, resets, factor, secrets, authReq, late, splits, doubles, crossed, swapped>>
      BY <1>20, Zenon DEF sessionVars, sessionTables, sessionHistory
    <2>2. FactorTypes' /\ ActiveFactorProven'
      BY <2>1, FactorUntouched, Zenon
    <2>3. RequestTypes' /\ \A v \in AuthWorkers : authReq'[v] \in {authReq[v], AuthFree}
      BY <1>0, <2>1, Zenon DEF RequestTypes
    <2> QED BY <2>1, <2>2, <2>3, FactorKeeps
  <1>21. \A s \in SessionIds : Logout(s) \/ RevokeSession(s) => SessionInv'
    BY <1>16, Zenon DEF Logout, RevokeSession
  <1> QED BY <1>1, <1>2, <1>3, <1>4, <1>5, <1>6, <1>7, <1>8, <1>9, <1>10, <1>11, <1>12, <1>13, <1>14, <1>15,
             <1>17, <1>18, <1>19, <1>20, <1>21 DEF SessionNext

(* The invariant gives the property. *)
LEMMA SessionInvExpires == SessionInv => CredentialsExpire
  <1> SUFFICES ASSUME SessionInv PROVE CredentialsExpire
    BY Zenon
  <1>1. SessionTypeOK
    <2>1. \A s \in SessionIds : sessions[s].state \in {"absent", "active", "revoked"}
      BY Zenon DEF SessionInv, SessionTypes, SessionRow
    <2> QED BY <2>1, Zenon DEF SessionInv, SessionTypes, SessionRows, FactorTypes, SessionTypeOK
  <1>2. OneLiveResetToken
    <2> SUFFICES ASSUME ~ crossed PROVE Cardinality({t \in TokenIds : resets[t].state = "live"}) <= 1
      BY Zenon DEF OneLiveResetToken
    <2>1. CASE \E t \in TokenIds : resets[t].state = "live"
      <3>1. PICK t \in TokenIds : resets[t].state = "live"
        BY <2>1, Zenon
      <3>2. {u \in TokenIds : resets[u].state = "live"} = {t}
        BY <3>1, Zenon DEF SessionInv, TokenRows
      <3>3. Cardinality({t}) = 1
        BY FS_Singleton, Zenon
      <3> QED BY <3>2, <3>3
    <2>2. CASE ~ \E t \in TokenIds : resets[t].state = "live"
      <3>1. {u \in TokenIds : resets[u].state = "live"} = {}
        BY <2>2, Zenon
      <3> QED BY <3>1, FS_EmptySet
    <2> QED BY <2>1, <2>2, Zenon
  <1> QED BY <1>1, <1>2, Zenon DEF SessionInv, CredentialsExpire

(* For any number of workers, sessions and tokens: a refresh token is       *)
(* rotated once, a reset token used once, no session of an old password     *)
(* survives a reset, and an active factor was proven by its own secret, but *)
(* for the overlaps that the variables late, splits, doubles, crossed and   *)
(* swapped record.                                                          *)
THEOREM CredentialsExpireAlways == SessionSpec => []CredentialsExpire
  <1>1. SessionInit => SessionInv
    BY SessionInitInv, Zenon
  <1>2. SessionInv /\ [SessionNext]_sessionVars => SessionInv'
    BY SessionNextInv, Zenon
  <1>3. SessionInv => CredentialsExpire
    BY SessionInvExpires, Zenon
  <1> QED BY <1>1, <1>2, <1>3, PTL DEF SessionSpec
=============================================================================
