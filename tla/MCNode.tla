------------------------------- MODULE MCNode -------------------------------
(***************************************************************************)
(* The stake ledger, the block producer and the gossip of blocks, in one    *)
(* run: each behaviour is one of one of them, and the others stay in their  *)
(* initial states.  Validators unstake and are rewarded, or are slashed, or *)
(* both happens to them.                                                    *)
(***************************************************************************)
EXTENDS StakeLedger, BlockProducer, BlockGossip, TLC

VARIABLE scenario   \* "unstaking", "slashing", "both", "producer" or "gossip"

nodeVars == <<vars, producerVars, gossipVars, scenario>>

NodeInit ==
    /\ scenario \in {"unstaking", "slashing", "producer", "gossip"}
    /\ Init /\ ProducerInit /\ GossipInit

StakingNext ==
    \/ scenario \in {"unstaking", "slashing"} /\ (StakeStep \/ NextBlock)
    \/ scenario = "unstaking" /\ (InitiateUnstakeStep \/ CompleteUnstakeStep \/ RewardStep \/ FeeStep)
    \/ scenario = "slashing" /\ (TransferStep \/ SlashStep \/ EvidenceStep \/ VRFKeyStep)
    \/ scenario = "slashing" /\ totalSupply < 12 /\ FeeStep

NodeNext ==
    \/ StakingNext /\ UNCHANGED <<producerVars, gossipVars, scenario>>
    \/ scenario = "producer" /\ ProducerNext /\ UNCHANGED <<vars, gossipVars, scenario>>
    \/ scenario = "gossip" /\ GossipNext /\ UNCHANGED <<vars, producerVars, scenario>>

(* Each host reads its subscription until it stops, and finishes starting. *)
FairGossip ==
    \A f \in Followers :
        /\ WF_gossipVars(scenario = "gossip" /\ SyncToHead(f))
        /\ \A block \in 1..MaxGossipHeight : WF_gossipVars(scenario = "gossip" /\ HandleBlock(f, block))

NodeSpec == NodeInit /\ [][NodeNext]_nodeVars /\ FairGossip

(* Every token and validator transaction together, and the producer alone. *)
BothSpec ==
    /\ Init /\ ProducerInit /\ GossipInit /\ scenario = "both"
    /\ [][Next /\ UNCHANGED <<producerVars, gossipVars, scenario>>]_nodeVars

ProducerAloneSpec ==
    /\ Init /\ ProducerInit /\ GossipInit /\ scenario = "producer"
    /\ [][ProducerNext /\ UNCHANGED <<vars, gossipVars, scenario>>]_nodeVars

-----------------------------------------------------------------------------
(* Values of the constants.                                                *)

UnstakeBalances == 1 :> 5 @@ 2 :> 4 @@ 9 :> 0

OffencesOfTwo ==
    { [kind |-> "double_sign", validator |-> 2, ref |-> 1],
      [kind |-> "double_sign", validator |-> 2, ref |-> 2],
      [kind |-> "equivocation", validator |-> 2, ref |-> 1],
      [kind |-> "liveness", validator |-> 2, ref |-> 1] }

Tx(i, f, n, c) == [id |-> i, from |-> f, nonce |-> n, conflicts |-> c]

(* Sender 1 sends two transactions in a row; sender 2 races the second one, *)
(* and has two transactions with the same nonce.                            *)
RacingTxs ==
    { Tx(1, 1, 0, {}), Tx(2, 1, 1, {3}), Tx(3, 2, 0, {2}), Tx(4, 2, 0, {}) }
=============================================================================
