--------------------------- MODULE PayLinkPromise ---------------------------
(***************************************************************************)
(* What the chain promises about PayLinks, without validators, votes,      *)
(* rules or clocks: a PayLink is created once, is settled at most once and *)
(* then for good by one proof, and a proof settles at most one PayLink.    *)
(* The admin may mark any existing PayLink FAILED, also one that was       *)
(* settled: the executor has no status check there.                        *)
(***************************************************************************)
CONSTANTS PayLinkId, Proof, NoProof

VARIABLES
    status,     \* the status every reader of the chain sees
    settledBy   \* the proof that settled the PayLink, NoProof before that

vars == <<status, settledBy>>

Create(p) ==
    /\ status[p] = "NONE"
    /\ status' = [status EXCEPT ![p] = "CREATED"]
    /\ UNCHANGED settledBy

Settle(p, h) ==
    /\ status[p] = "CREATED"
    /\ \A q \in PayLinkId : settledBy[q] # h
    /\ status' = [status EXCEPT ![p] = "VERIFIED"]
    /\ settledBy' = [settledBy EXCEPT ![p] = h]

Cancel(p) ==
    /\ status[p] = "CREATED"
    /\ status' = [status EXCEPT ![p] = "CANCELLED"]
    /\ UNCHANGED settledBy

Fail(p) ==
    /\ status[p] # "NONE"
    /\ status' = [status EXCEPT ![p] = "FAILED"]
    /\ UNCHANGED settledBy

Init ==
    /\ status = [p \in PayLinkId |-> "NONE"]
    /\ settledBy = [p \in PayLinkId |-> NoProof]

Next == \E p \in PayLinkId :
    Create(p) \/ Cancel(p) \/ Fail(p) \/ (\E h \in Proof : Settle(p, h))

Spec == Init /\ [][Next]_vars
=============================================================================
