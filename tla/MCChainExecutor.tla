-------------------------- MODULE MCChainExecutor --------------------------
(* Instances of ChainExecutor for TLC. *)
EXTENDS ChainExecutor, TLC

PayLinksAndProofs == Permutations(PayLinkId) \cup Permutations(Proof)

Balances == 1 :> 3 @@ 2 :> 3 @@ 3 :> 3 @@ 9 :> 0
NoRules == {{}}
=============================================================================
