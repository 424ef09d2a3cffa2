-------------------------- MODULE IdentityAccounts --------------------------
(***************************************************************************)
(* The users and OAuth links of identity-service: registration under an     *)
(* Idempotency-Key, sign-in through a provider, and changes of email.       *)
(* Each handler looks for the email first and writes afterwards; the        *)
(* partial unique index on email decides between two that overlap.  A phone *)
(* is handled like an email, and left out.                                  *)
(***************************************************************************)
EXTENDS Integers, Idempotency

CONSTANTS
    Emails, NoEmail,
    Subjects,          \* accounts at the OAuth provider
    RegisterKeys,      \* Idempotency-Keys of registrations
    AccountWorkers,    \* requests in progress at a time
    MaxUsers,          \* bound on users
    MaxAccountCalls,   \* bound on requests
    MaxAccountMishaps  \* bound on crashes and expiries

ASSUME IdentityAccountsAssumption ==
    /\ NoEmail \notin Emails
    /\ {MaxUsers, MaxAccountCalls, MaxAccountMishaps} \subseteq Nat

VARIABLES
    users,       \* the users table
    links,       \* oauth_identities: the user of each subject, or 0
    regKeys,     \* the idempotency record of each key
    accReq,      \* requests in progress
    madeBy,      \* history: users registered under each key
    disowned,    \* history: keys whose record outlived or lost its request
    selfRefused, \* history: keys refused for the email of their own user
    accCalls, accMishaps

accountTables == <<users, links, regKeys>>
accountHistory == <<madeBy, disowned, selfRefused>>
accountVars == <<accountTables, accReq, accountHistory, accCalls, accMishaps>>

UserIds == 1..MaxUsers
NoUser == [email |-> NoEmail, password |-> FALSE, present |-> FALSE]
NewUser(email, password) == [email |-> email, password |-> password, present |-> TRUE]
NextUser == CHOOSE n \in 1..(MaxUsers + 1) : \A u \in UserIds : users[u].present <=> u < n

AccFree == [op |-> "none"]
AccMishap == accMishaps < MaxAccountMishaps /\ accMishaps' = accMishaps + 1

(* get_user_by_email. *)
EmailTaken(e) == \E u \in UserIds : users[u].present /\ users[u].email = e

(* Mutant: no unique index on the email. *)
NoEmailIndex(e) == TRUE

(* uq_users_email, which ignores NULL. *)
EmailIndexAllows(e) == e = NoEmail \/ ~ EmailTaken(e)

BeginAccount(w, request) ==
    /\ accReq[w] = AccFree
    /\ accCalls < MaxAccountCalls /\ accCalls' = accCalls + 1
    /\ accReq' = [accReq EXCEPT ![w] = request]

EndAccount(w) == accReq' = [accReq EXCEPT ![w] = AccFree] /\ UNCHANGED accCalls

-----------------------------------------------------------------------------
(* POST /v1/auth/register.                                                 *)

(* idempotent: the key is claimed.  A replay or a conflict changes nothing. *)
BeginRegister(w, k, e) ==
    /\ BeginKey(regKeys[k], e) = "owner"
    /\ BeginAccount(w, [op |-> "register", stage |-> "check", key |-> k, email |-> e])
    /\ regKeys' = [regKeys EXCEPT ![k] = PendingKey(e)]
    /\ UNCHANGED <<users, links, accountHistory, accMishaps>>

(* EMAIL_TAKEN, or the index refuses the insert: the key is released. *)
RegisterRefused(w) ==
    LET k == accReq[w].key
    IN  /\ accReq[w].op = "register" /\ accReq[w].stage \in {"check", "insert"}
        /\ IF accReq[w].stage = "check" THEN EmailTaken(accReq[w].email)
                                        ELSE ~ EmailIndexAllows(accReq[w].email)
        /\ regKeys' = [regKeys EXCEPT ![k] = ReleasedKey(@)]
        /\ selfRefused' = IF \E u \in madeBy[k] : users[u].email = accReq[w].email
                          THEN selfRefused \cup {k} ELSE selfRefused
        /\ EndAccount(w)
        /\ UNCHANGED <<users, links, madeBy, disowned, accMishaps>>

RegisterChecked(w) ==
    /\ accReq[w].op = "register" /\ accReq[w].stage = "check"
    /\ ~ EmailTaken(accReq[w].email)
    /\ accReq' = [accReq EXCEPT ![w].stage = "insert"]
    /\ UNCHANGED <<accountTables, accountHistory, accCalls, accMishaps>>

RegisterInserts(w) ==
    /\ accReq[w].op = "register" /\ accReq[w].stage = "insert"
    /\ EmailIndexAllows(accReq[w].email) /\ NextUser \in UserIds
    /\ users' = [users EXCEPT ![NextUser] = NewUser(accReq[w].email, TRUE)]
    /\ madeBy' = [madeBy EXCEPT ![accReq[w].key] = @ \cup {NextUser}]
    /\ accReq' = [accReq EXCEPT ![w].stage = "complete"]
    /\ UNCHANGED <<links, regKeys, disowned, selfRefused, accCalls, accMishaps>>

RegisterCompletes(w) ==
    /\ accReq[w].op = "register" /\ accReq[w].stage = "complete"
    /\ regKeys' = [regKeys EXCEPT ![accReq[w].key] = CompletedKey(accReq[w].email, "created")]
    /\ EndAccount(w)
    /\ UNCHANGED <<users, links, accountHistory, accMishaps>>

(* The process dies: the record stays pending until it expires. *)
RegisterDies(w) ==
    /\ accReq[w].op = "register"
    /\ AccMishap
    /\ disowned' = disowned \cup {accReq[w].key}
    /\ EndAccount(w)
    /\ UNCHANGED <<accountTables, madeBy, selfRefused>>

RegisterKeyExpires(k) ==
    /\ regKeys[k] # FreeKey
    /\ AccMishap
    /\ regKeys' = [regKeys EXCEPT ![k] = FreeKey]
    /\ disowned' = disowned \cup {k}
    /\ UNCHANGED <<users, links, accReq, madeBy, selfRefused, accCalls>>

-----------------------------------------------------------------------------
(* POST /v1/auth/oauth/{provider}/callback.                                *)

(* Mutant: an empty string in place of NULL. *)
EmptyEmail(e) == IF EmailTaken(e) THEN "" ELSE e

(* The provider's email is attached only if nobody holds it. *)
OAuthEmail(e) == IF EmailTaken(e) THEN NoEmail ELSE e

(* No link yet: a user is to be created. *)
BeginOAuth(w, s, e) ==
    /\ links[s] = 0
    /\ BeginAccount(w, [op |-> "oauth", subject |-> s, email |-> OAuthEmail(e)])
    /\ UNCHANGED <<accountTables, accountHistory, accMishaps>>

(* Mutant: the user is kept when the link is refused. *)
UserKept(s) == TRUE

(* The primary key of oauth_identities is (provider, subject). *)
LinkAllowed(s) == links[s] = 0

(* User, event and link in the one commit of issue. *)
OAuthRegisters(w) ==
    LET s == accReq[w].subject
    IN  /\ accReq[w].op = "oauth"
        /\ NextUser \in UserIds
        /\ EmailIndexAllows(accReq[w].email) /\ LinkAllowed(s)
        /\ users' = [users EXCEPT ![NextUser] = NewUser(accReq[w].email, FALSE)]
        /\ links' = IF links[s] = 0 THEN [links EXCEPT ![s] = NextUser] ELSE links
        /\ EndAccount(w)
        /\ UNCHANGED <<regKeys, accountHistory, accMishaps>>

(* The index or the primary key refuses: everything is rolled back. *)
OAuthRefused(w) ==
    /\ accReq[w].op = "oauth"
    /\ ~ (EmailIndexAllows(accReq[w].email) /\ LinkAllowed(accReq[w].subject))
    /\ EndAccount(w)
    /\ UNCHANGED <<accountTables, accountHistory, accMishaps>>

-----------------------------------------------------------------------------
(* PATCH /v1/users/me.                                                     *)

BeginUpdate(w, u, e) ==
    /\ users[u].present /\ e # users[u].email
    /\ ~ EmailTaken(e)
    /\ BeginAccount(w, [op |-> "update", user |-> u, email |-> e])
    /\ UNCHANGED <<accountTables, accountHistory, accMishaps>>

UpdateWrites(w) ==
    /\ accReq[w].op = "update"
    /\ users' = IF EmailIndexAllows(accReq[w].email)
                THEN [users EXCEPT ![accReq[w].user].email = accReq[w].email] ELSE users
    /\ EndAccount(w)
    /\ UNCHANGED <<links, regKeys, accountHistory, accMishaps>>

-----------------------------------------------------------------------------
AccountInit ==
    /\ users = [u \in UserIds |-> NoUser]
    /\ links = [s \in Subjects |-> 0]
    /\ regKeys = [k \in RegisterKeys |-> FreeKey]
    /\ accReq = [w \in AccountWorkers |-> AccFree]
    /\ madeBy = [k \in RegisterKeys |-> {}] /\ disowned = {} /\ selfRefused = {}
    /\ accCalls = 0 /\ accMishaps = 0

AccountNext ==
    \/ \E w \in AccountWorkers :
           \/ \E k \in RegisterKeys, e \in Emails : BeginRegister(w, k, e)
           \/ RegisterRefused(w) \/ RegisterChecked(w) \/ RegisterInserts(w) \/ RegisterCompletes(w)
           \/ RegisterDies(w)
           \/ \E s \in Subjects, e \in Emails : BeginOAuth(w, s, e)
           \/ OAuthRegisters(w) \/ OAuthRefused(w)
           \/ \E u \in UserIds, e \in Emails : BeginUpdate(w, u, e)
           \/ UpdateWrites(w)
    \/ \E k \in RegisterKeys : RegisterKeyExpires(k)

AccountSpec == AccountInit /\ [][AccountNext]_accountVars

-----------------------------------------------------------------------------
(* Properties.                                                             *)

(* Emails are emails or NULL, and links lead to users that exist. *)
AccountTypeOK ==
    /\ \A u \in UserIds : users[u].email \in Emails \cup {NoEmail}
    /\ \A s \in Subjects : links[s] # 0 => users[links[s]].present

(* Two users never hold one email, whichever of registration, sign-in and   *)
(* profile change wrote it last.                                            *)
EmailsUnique ==
    \A u, v \in UserIds : users[u].email = users[v].email /\ users[u].email # NoEmail => u = v

(* A user without a password can sign in: it has a link, and shares it with *)
(* nobody, also when two callbacks of one subject overlap.                  *)
PasswordlessLinked ==
    \A u \in UserIds : users[u].present /\ ~ users[u].password =>
        \E s \in Subjects : {t \in Subjects : links[t] = u} = {s}

(* "Run work once per Idempotency-Key, replaying the cached response on     *)
(* retry" (idempotent): a retried registration is refused for the email of  *)
(* its own user only if the key's record was lost or abandoned.             *)
RetryNotRefused == selfRefused \subseteq disowned

(* A key is pending only while its request runs, unless that request died:  *)
(* every other way out of idempotent completes the key or releases it, so   *)
(* that no retry is answered "in flight" for ever.                          *)
PendingHasRequest ==
    \A k \in RegisterKeys \ disowned : (\E e \in Emails : regKeys[k] = PendingKey(e)) =>
        \E w \in AccountWorkers : accReq[w].op = "register" /\ accReq[w].key = k

(* However registrations, OAuth callbacks and profile changes overlap and   *)
(* are retried, an email belongs to one user, a user without a password can *)
(* sign in by its link, and a key is neither stuck nor refused for its own  *)
(* user.                                                                    *)
AccountsReachable ==
    /\ AccountTypeOK /\ EmailsUnique /\ PasswordlessLinked
    /\ RetryNotRefused /\ PendingHasRequest
=============================================================================
