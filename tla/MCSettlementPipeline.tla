----------------------- MODULE MCSettlementPipeline -----------------------
(* Instances of SettlementPipeline for TLC. *)
EXTENDS SettlementPipeline, TLC

CONSTANTS c1, c2, p1, p2

OneEach == c1 :> p1 @@ c2 :> p2
=============================================================================
