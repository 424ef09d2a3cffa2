---------------------------- MODULE MintContract ----------------------------
(***************************************************************************)
(* What a caller of paylink-service's POST /v1/paylinks can rely on, for    *)
(* each PayLink id, which a request's body and Idempotency-Key determine.   *)
(* The row is inserted once.  The request that inserted it either records   *)
(* the chain transaction, after which 201 may be answered any number of     *)
(* times, or dies; no other request ever completes a row whose own request  *)
(* died.                                                                    *)
(***************************************************************************)
CONSTANT PlIds

VARIABLES
    minted,     \* progress of each PayLink: absent, open, stub or live
    answered    \* PayLinks that some caller was given with a 201

mintVars == <<minted, answered>>

MintInit ==
    /\ minted = [p \in PlIds |-> "absent"]
    /\ answered = {}

InsertMint(p) ==
    /\ minted[p] = "absent"
    /\ minted' = [minted EXCEPT ![p] = "open"]
    /\ UNCHANGED answered

RecordMint(p) ==
    /\ minted[p] = "open"
    /\ minted' = [minted EXCEPT ![p] = "live"]
    /\ UNCHANGED answered

AbandonMints(P) ==
    /\ \A p \in P : minted[p] = "open"
    /\ minted' = [p \in PlIds |-> IF p \in P THEN "stub" ELSE minted[p]]
    /\ UNCHANGED answered

AnswerMint(p) ==
    /\ minted[p] = "live"
    /\ answered' = answered \cup {p}
    /\ UNCHANGED minted

MintNext ==
    \/ \E p \in PlIds : InsertMint(p) \/ RecordMint(p) \/ AnswerMint(p)
    \/ \E P \in SUBSET PlIds : AbandonMints(P)

MintSpec == MintInit /\ [][MintNext]_mintVars
=============================================================================
