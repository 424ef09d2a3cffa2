----------------------------- MODULE MCIdentity -----------------------------
(***************************************************************************)
(* The services that decide who may do what, and the orchestrator that     *)
(* follows the chain, in one run: each behaviour is one of one service,    *)
(* and the others stay in their initial states.                            *)
(***************************************************************************)
EXTENDS IdentitySessions, IdentityAccounts, Organizations, AccessTokens, Kyc,
        MerchantOnboarding, AdminConsole, PaymentOrchestrator, TLC

CONSTANTS s1, s2, adminOrg

VARIABLE selected   \* the service of this behaviour

serviceVars ==
    <<sessionVars, accountVars, orgVars, tokenVars, kycVars, merchantVars, adminVars, orchestratorVars,
      selected>>

IdentityInit ==
    /\ selected \in {"sessions", "accounts", "orgs", "tokens", "kyc", "merchant", "admin", "orchestrator"}
    /\ SessionInit /\ AccountInit /\ OrgInit /\ TokenInit /\ KycInit /\ MerchantInit /\ AdminInit
    /\ OrchestratorInit

Unmoved(name, v) == selected # name => UNCHANGED v

IdentityNext ==
    /\ UNCHANGED selected
    /\ \/ selected = "sessions" /\ SessionNext
       \/ selected = "accounts" /\ AccountNext
       \/ selected = "orgs"     /\ OrgNext
       \/ selected = "tokens"   /\ TokenNext
       \/ selected = "kyc"      /\ KycNext
       \/ selected = "merchant" /\ MerchantNext
       \/ selected = "admin"    /\ AdminNext
       \/ selected = "orchestrator" /\ OrchestratorNext
    /\ Unmoved("sessions", sessionVars) /\ Unmoved("accounts", accountVars)
    /\ Unmoved("orgs", orgVars) /\ Unmoved("tokens", tokenVars)
    /\ Unmoved("kyc", kycVars) /\ Unmoved("merchant", merchantVars)
    /\ Unmoved("admin", adminVars) /\ Unmoved("orchestrator", orchestratorVars)

IdentitySpec == IdentityInit /\ [][IdentityNext]_serviceVars

-----------------------------------------------------------------------------
(* Values of the constants.                                                *)

Replicas == Permutations(Subscribers)

OneAdminOrg == adminOrg :> "admin"

TwoGrants == s1 :> {"superuser"} @@ s2 :> {"support.read"}
WithAndWithoutMfa == [admin : {TRUE}, mfa : BOOLEAN]
=============================================================================
