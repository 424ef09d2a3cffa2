-------------------------- MODULE IdentitySessions --------------------------
(***************************************************************************)
(* identity-service for one user: password logins, refresh-token rotation   *)
(* with detection of reuse, logout, password reset and TOTP enrolment.      *)
(*                                                                          *)
(* A request reads rows in one step and writes them by primary key in       *)
(* another; the session writes only columns whose value differs from what   *)
(* it read.  Every session row stands for its refresh token.                *)
(***************************************************************************)
EXTENDS Integers, FiniteSets

CONSTANTS
    AuthWorkers,     \* requests in progress at a time
    MaxSessions,     \* bound on session rows
    MaxResetTokens,  \* bound on reset tokens
    MaxAuthCalls     \* bound on requests

ASSUME IdentitySessionsAssumption == {MaxSessions, MaxResetTokens, MaxAuthCalls} \subseteq Nat

VARIABLES
    password,     \* how often the password was changed
    sessions,     \* session rows in order of creation
    resets,       \* reset tokens in order of creation
    factor,       \* the TOTP factor
    secrets,      \* TOTP secrets generated
    authReq,      \* requests between their read and their write
    late,         \* history: sessions inserted by a request that overlapped a reset
    splits,       \* history: rotations that lost the race for their session, per session
    doubles,      \* history: confirmations that lost the race for their token, per token
    crossed,      \* history: reset requests overlapped
    swapped,      \* history: an enrolment overlapped a verification
    authCalls

sessionTables == <<password, sessions, resets, factor, secrets>>
sessionHistory == <<late, splits, doubles, crossed, swapped>>
sessionVars == <<sessionTables, authReq, sessionHistory, authCalls>>

SessionIds == 1..MaxSessions
TokenIds == 1..MaxResetTokens

AuthFree == [op |-> "none"]
NoFactor == [state |-> "absent", secret |-> 0, proven |-> 0]

NoSession == [state |-> "absent", lapsed |-> FALSE, pwd |-> 0, parent |-> 0]
NewSession(pwd, parent) == [state |-> "active", lapsed |-> FALSE, pwd |-> pwd, parent |-> parent]
NoToken == [state |-> "absent", uses |-> 0]

Active == {s \in SessionIds : sessions[s].state = "active"}
Unused == {t \in TokenIds : resets[t].state \in {"live", "lapsed"}}
NextSession == Cardinality({s \in SessionIds : sessions[s].state # "absent"}) + 1
NextToken == Cardinality({t \in TokenIds : resets[t].state # "absent"}) + 1

BeginAuth(w, request) ==
    /\ authReq[w] = AuthFree
    /\ authCalls < MaxAuthCalls /\ authCalls' = authCalls + 1
    /\ authReq' = [authReq EXCEPT ![w] = request]
    /\ UNCHANGED <<sessionTables, sessionHistory>>

EndAuth(w, op) ==
    /\ authReq[w].op = op
    /\ authReq' = [authReq EXCEPT ![w] = AuthFree]
    /\ UNCHANGED authCalls

Revoke(S) == [s \in SessionIds |-> IF s \in S THEN [sessions[s] EXCEPT !.state = "revoked"] ELSE sessions[s]]

-----------------------------------------------------------------------------
(* Sessions.                                                               *)

(* A session is late if a password reset ran since its request began. *)
IsLate(w, parent) ==
    \/ password # authReq[w].began
    \/ parent \in late
    \/ \E v \in AuthWorkers : authReq[v].op = "confirm"

(* The insert of issue: one more session. *)
Issue(w, rows, pwd, parent) ==
    /\ NextSession \in SessionIds
    /\ sessions' = [rows EXCEPT ![NextSession] = NewSession(pwd, parent)]
    /\ late' = IF IsLate(w, parent) THEN late \cup {NextSession} ELSE late
    /\ UNCHANGED <<password, resets, factor, secrets, doubles, crossed, swapped>>

(* login has checked the password and, with an active factor, the code. *)
BeginLogin(w) ==
    BeginAuth(w, [op |-> "login", began |-> password])

CommitLogin(w) ==
    /\ EndAuth(w, "login")
    /\ Issue(w, sessions, authReq[w].began, 0)
    /\ UNCHANGED splits

(* Mutant: a retired session is as good as an active one. *)
AnyState(s) == sessions[s].state # "absent"

(* The checks of rotate: neither revoked nor expired. *)
Rotatable(s) == sessions[s].state = "active" /\ ~ sessions[s].lapsed

BeginRotate(w, s) ==
    /\ Rotatable(s)
    /\ BeginAuth(w, [op |-> "rotate", from |-> s, seen |-> sessions[s].state, began |-> password])

(* Mutant: the presented session stays active. *)
RetiresNone(s) == {}

(* "Single-use: retire the presented session". *)
RetiresPresented(s) == {s}

(* The presented session is retired and a new one issued in one commit. *)
CommitRotate(w) ==
    LET s == authReq[w].from
    IN  /\ EndAuth(w, "rotate")
        /\ Issue(w, Revoke(RetiresPresented(s)), sessions[s].pwd, s)
        /\ splits' = IF authReq[w].seen = "active" /\ sessions[s].state = "revoked"
                     THEN [splits EXCEPT ![s] = @ + 1] ELSE splits

(* A retired token is presented: _revoke_family lists the active sessions. *)
BeginRevokeFamily(w, s) ==
    /\ sessions[s].state = "revoked"
    /\ BeginAuth(w, [op |-> "family", found |-> Active])

CommitRevokeFamily(w) ==
    /\ EndAuth(w, "family")
    /\ sessions' = Revoke(authReq[w].found)
    /\ UNCHANGED <<password, resets, factor, secrets, sessionHistory>>

(* Only an active session is written. *)
RevokeActive(s) ==
    /\ sessions[s].state = "active"
    /\ sessions' = Revoke({s})
    /\ UNCHANGED <<password, resets, factor, secrets, authReq, sessionHistory, authCalls>>

(* A session is found by its refresh token, or by its id. *)
Logout(s) == RevokeActive(s)

RevokeSession(s) == RevokeActive(s)

SessionExpires(s) ==
    /\ sessions[s].state = "active" /\ ~ sessions[s].lapsed
    /\ sessions' = [sessions EXCEPT ![s].lapsed = TRUE]
    /\ UNCHANGED <<password, resets, factor, secrets, authReq, sessionHistory, authCalls>>

-----------------------------------------------------------------------------
(* Password reset.                                                         *)

(* request_password_reset finds the tokens that are still unused. *)
BeginRequestReset(w) ==
    /\ NextToken \in TokenIds
    /\ BeginAuth(w, [op |-> "request", found |-> Unused])

(* Mutant: older tokens stay as they are. *)
KeepTokens(found) == resets

(* invalidate_user_reset_tokens. *)
Invalidated(found) ==
    [t \in TokenIds |-> IF t \in found THEN [resets[t] EXCEPT !.state = "used"] ELSE resets[t]]

CommitRequestReset(w) ==
    /\ NextToken \in TokenIds
    /\ EndAuth(w, "request")
    /\ resets' = [Invalidated(authReq[w].found) EXCEPT ![NextToken] = [state |-> "live", uses |-> 0]]
    /\ crossed' = (crossed \/ ~ (Unused \subseteq authReq[w].found))
    /\ UNCHANGED <<password, sessions, factor, secrets, late, splits, doubles, swapped>>

(* confirm_password_reset reads the token, and the sessions it will revoke. *)
BeginConfirmReset(w, t) ==
    /\ resets[t].state = "live"
    /\ BeginAuth(w, [op |-> "confirm", token |-> t, found |-> Active])

(* Mutant: the token can be used again. *)
StillLive(t) == resets[t].state

TokenAfterUse(t) == "used"

(* Mutant: other sessions survive a change of password. *)
RevokesNothing(found) == {}

(* revoke_all: "password changed -> kill every session". *)
RevokesAll(found) == found

CommitConfirmReset(w) ==
    LET t == authReq[w].token
    IN  /\ EndAuth(w, "confirm")
        /\ password' = password + 1
        /\ resets' = [resets EXCEPT ![t] = [state |-> TokenAfterUse(t), uses |-> @.uses + 1]]
        /\ sessions' = Revoke(RevokesAll(authReq[w].found))
        /\ doubles' = IF resets[t].state = "used" THEN [doubles EXCEPT ![t] = @ + 1] ELSE doubles
        /\ UNCHANGED <<factor, secrets, late, splits, crossed, swapped>>

TokenExpires(t) ==
    /\ resets[t].state = "live"
    /\ resets' = [resets EXCEPT ![t].state = "lapsed"]
    /\ UNCHANGED <<password, sessions, factor, secrets, authReq, sessionHistory, authCalls>>

-----------------------------------------------------------------------------
(* TOTP.                                                                   *)

(* Mutant: an active factor can be enrolled over. *)
EnrollableAlways(f) == TRUE

Enrollable(f) == f.state # "active"

BeginEnroll(w) ==
    /\ Enrollable(factor)
    /\ BeginAuth(w, [op |-> "enroll", read |-> factor])

(* A fresh secret goes into the row.  activated_at was NULL when read and   *)
(* is set to NULL, which is no change: an activation since stays.           *)
CommitEnroll(w) ==
    /\ authReq[w].op = "enroll"
    /\ (authReq[w].read.state = "absent") = (factor.state = "absent")
    /\ EndAuth(w, "enroll")
    /\ secrets' = secrets + 1
    /\ factor' = [factor EXCEPT !.secret = secrets + 1,
                                !.state = IF @ = "absent" THEN "pending" ELSE @]
    /\ swapped' = (swapped \/ (authReq[w].read.state = "pending" /\ factor.state = "active"))
    /\ UNCHANGED <<password, sessions, resets, late, splits, doubles, crossed>>

(* Another request inserted the row first, or deleted it. *)
EnrollFails(w) ==
    /\ authReq[w].op = "enroll"
    /\ (authReq[w].read.state = "absent") # (factor.state = "absent")
    /\ EndAuth(w, "enroll")
    /\ UNCHANGED <<sessionTables, sessionHistory>>

(* verify reads the factor and checks the code against its secret. *)
BeginVerify(w) ==
    /\ factor.state = "pending"
    /\ BeginAuth(w, [op |-> "verify", read |-> factor])

CommitVerify(w) ==
    /\ EndAuth(w, "verify")
    /\ factor' = IF factor.state = "absent" THEN factor
                 ELSE [factor EXCEPT !.state = "active", !.proven = authReq[w].read.secret]
    /\ swapped' = (swapped \/ (factor.state # "absent" /\ factor.secret # authReq[w].read.secret))
    /\ UNCHANGED <<password, sessions, resets, secrets, late, splits, doubles, crossed>>

(* MfaService.disable deletes the row, active or not. *)
FactorDeleted(f) == IF f.state # "absent" THEN NoFactor ELSE f

DisableMfa ==
    /\ factor' = FactorDeleted(factor)
    /\ UNCHANGED <<password, sessions, resets, secrets, authReq, sessionHistory, authCalls>>

-----------------------------------------------------------------------------
SessionInit ==
    /\ password = 0
    /\ sessions = [s \in SessionIds |-> NoSession]
    /\ resets = [t \in TokenIds |-> NoToken]
    /\ factor = NoFactor /\ secrets = 0
    /\ authReq = [w \in AuthWorkers |-> AuthFree]
    /\ late = {} /\ splits = [s \in SessionIds |-> 0] /\ doubles = [t \in TokenIds |-> 0]
    /\ crossed = FALSE /\ swapped = FALSE
    /\ authCalls = 0

SessionNext ==
    \/ \E w \in AuthWorkers :
           \/ BeginLogin(w) \/ CommitLogin(w) \/ CommitRotate(w) \/ CommitRevokeFamily(w)
           \/ BeginRequestReset(w) \/ CommitRequestReset(w) \/ CommitConfirmReset(w)
           \/ BeginEnroll(w) \/ CommitEnroll(w) \/ EnrollFails(w) \/ BeginVerify(w) \/ CommitVerify(w)
           \/ \E s \in SessionIds : BeginRotate(w, s) \/ BeginRevokeFamily(w, s)
           \/ \E t \in TokenIds : BeginConfirmReset(w, t)
    \/ \E s \in SessionIds : Logout(s) \/ RevokeSession(s) \/ SessionExpires(s)
    \/ \E t \in TokenIds : TokenExpires(t)
    \/ DisableMfa

SessionSpec == SessionInit /\ [][SessionNext]_sessionVars

-----------------------------------------------------------------------------
(* Properties.                                                             *)

(* A session row that was rotated away is no longer active. *)
SessionTypeOK ==
    /\ \A s \in SessionIds : sessions[s].state \in {"absent", "active", "revoked"}
    /\ \A s \in SessionIds : sessions[s].parent # 0 => sessions[sessions[s].parent].state = "revoked"
    /\ factor.secret <= secrets /\ password \in Nat

(* "Refresh tokens rotate single-use" (SessionsService): a session has a    *)
(* second successor only if two rotations read it before either wrote.      *)
RotatedOnce ==
    \A s \in SessionIds :
        Cardinality({c \in SessionIds : sessions[c].state # "absent" /\ sessions[c].parent = s})
            <= 1 + splits[s]

(* "password changed -> kill every session": a session from before the last *)
(* change is no longer active, unless it was inserted while the change was  *)
(* under way or descends from one that was.                                 *)
ResetEndsOldSessions == \A s \in Active : sessions[s].pwd < password => s \in late

(* invalidate_user_reset_tokens, "so only the latest can be live": two live *)
(* tokens exist only after two requests overlapped.                         *)
OneLiveResetToken ==
    ~ crossed => Cardinality({t \in TokenIds : resets[t].state = "live"}) <= 1

(* A reset token is "single-use": it changes the password again only if two *)
(* confirmations read it before either wrote.                               *)
ResetTokenSingleUse == \A t \in TokenIds : resets[t].uses <= 1 + doubles[t]

(* An active factor's secret is one whose code the user has shown, unless   *)
(* an enrolment and a verification overlapped: the row's secret and its     *)
(* activation are separate columns.                                         *)
ActiveFactorProven == factor.state = "active" /\ ~ swapped => factor.secret = factor.proven

(* What was to be used once, or until a password change, is: refresh        *)
(* tokens, reset tokens, the sessions of an old password and the secrets of *)
(* an enrolment, each up to the overlap of two requests that the code does  *)
(* not lock against.                                                        *)
CredentialsExpire ==
    /\ SessionTypeOK /\ RotatedOnce /\ ResetEndsOldSessions
    /\ OneLiveResetToken /\ ResetTokenSingleUse /\ ActiveFactorProven
=============================================================================
