---------------------------- MODULE BlockGossip ----------------------------
(***************************************************************************)
(* How blocks reach the followers: the single proposer gossips each block  *)
(* it commits, gossip loses, duplicates and reorders, a follower applies a *)
(* block only on top of its own tip, and it asks its peers for what it     *)
(* lacks once, when it starts.                                             *)
(*                                                                         *)
(* A block is its height: only the genesis admin may propose and it never  *)
(* commits two blocks of one height, so a block that passes the signature, *)
(* hash and state-root checks is determined by its height.                 *)
(***************************************************************************)
EXTENDS Integers, FiniteSets, FiniteSetsExt

CONSTANTS
    Followers,    \* nodes other than the proposer
    Proposer,
    MaxGossipHeight, \* bound on the chain's length
    SyncBatchMax, \* syncBatchMax
    MaxSeen,      \* capacity of seenMsgs
    MaxStarts     \* bound on the starts of a follower

Nodes == Followers \cup {Proposer}

ASSUME GossipAssumption ==
    /\ Proposer \notin Followers
    /\ MaxGossipHeight \in Nat /\ SyncBatchMax \in Nat /\ MaxSeen \in Nat /\ MaxStarts \in Nat

VARIABLES
    height,   \* height of each node's persisted chain
    hostStage, \* of a follower: "down", "starting" (before SyncToHead), "running"
    inbox,    \* blocks that gossip holds for a follower
    handled,  \* blocks a follower took from gossip since it started
    seen,     \* seenMsgs
    rejected, \* history: blocks a follower rejected since it started
    lost,     \* history: blocks gossip failed to bring since the last sync
    starts

gossipVars == <<height, hostStage, inbox, handled, seen, rejected, lost, starts>>

-----------------------------------------------------------------------------

(* BlockProcessor.ProcessBlock: ignored at or below the tip, rejected when  *)
(* it leaves a gap, otherwise validated, executed and committed.            *)
ProcessBlock(h, block) == IF block = h + 1 THEN block ELSE h

(* Mutant: the cache only grows. *)
MarkSeenUnbounded(cache, block) == cache \cup {block}

(* One entry too many empties the cache. *)
MarkSeen(cache, block) ==
    IF Cardinality(cache \cup {block}) > MaxSeen THEN {} ELSE cache \cup {block}

(* The proposer commits and broadcasts.  Gossip takes the block to some of  *)
(* the followers that are up.                                               *)
BroadcastBlock ==
    LET block == height[Proposer] + 1
    IN  /\ block <= MaxGossipHeight
        /\ height' = [height EXCEPT ![Proposer] = block]
        /\ \E reached \in SUBSET {f \in Followers : hostStage[f] # "down"} :
               /\ inbox' = [f \in Followers |->
                               IF f \in reached THEN inbox[f] \cup {block} ELSE inbox[f]]
               /\ lost' = [f \in Followers |->
                               IF f \in reached THEN lost[f] ELSE lost[f] \cup {block}]
        /\ UNCHANGED <<hostStage, handled, seen, rejected, starts>>

Duplicate(f, block) ==
    /\ block \in handled[f] \ inbox[f]
    /\ inbox' = [inbox EXCEPT ![f] = @ \cup {block}]
    /\ handled' = [handled EXCEPT ![f] = @ \ {block}]
    /\ UNCHANGED <<height, hostStage, seen, rejected, lost, starts>>

(* Mutant: a block that was seen is processed again. *)
HandleWithoutDedup(f, block) ==
    /\ hostStage[f] # "down"
    /\ block \in inbox[f]
    /\ inbox' = [inbox EXCEPT ![f] = @ \ {block}]
    /\ handled' = [handled EXCEPT ![f] = @ \cup {block}]
    /\ seen' = [seen EXCEPT ![f] = MarkSeen(@, block)]
    /\ height' = [height EXCEPT ![f] = ProcessBlock(@, block)]
    /\ rejected' = [rejected EXCEPT ![f] = IF block > height[f] + 1 THEN @ \cup {block} ELSE @]
    /\ UNCHANGED <<hostStage, lost, starts>>

(* Mutant: the loop over the subscription ends at the first rejected block. *)
HandleUntilRejected(f, block) == rejected[f] = {} /\ HandleWithoutDedup(f, block)

(* handleBlocks: a block is marked as seen before it is processed, and      *)
(* stays so when processing rejects it.                                     *)
HandleBlock(f, block) ==
    /\ hostStage[f] # "down"
    /\ block \in inbox[f]
    /\ inbox' = [inbox EXCEPT ![f] = @ \ {block}]
    /\ handled' = [handled EXCEPT ![f] = @ \cup {block}]
    /\ IF block \in seen[f]
       THEN UNCHANGED <<seen, height, rejected>>
       ELSE /\ seen' = [seen EXCEPT ![f] = MarkSeen(@, block)]
            /\ height' = [height EXCEPT ![f] = ProcessBlock(@, block)]
            /\ rejected' = [rejected EXCEPT ![f] =
                               IF block > height[f] + 1 THEN @ \cup {block} ELSE @]
    /\ UNCHANGED <<hostStage, lost, starts>>

(* A process starts with an empty cache; its chain is on disk. *)
Start(f) ==
    /\ hostStage[f] = "down"
    /\ starts[f] < MaxStarts
    /\ starts' = [starts EXCEPT ![f] = @ + 1]
    /\ hostStage' = [hostStage EXCEPT ![f] = "starting"]
    /\ UNCHANGED <<height, inbox, handled, seen, rejected, lost>>

(* Mutant: the range asked for is taken for the range received. *)
SyncedAsAsked(h, peers) == IF peers = {} THEN h ELSE h + SyncBatchMax + 1

(* SyncToHead asks every peer that answers for the same range of blocks,    *)
(* counted from the height it had at the beginning.                         *)
SyncedHeight(h, peers) ==
    Max({h} \cup {Min({h + SyncBatchMax + 1, height[p]}) : p \in peers})

SyncToHead(f) ==
    /\ hostStage[f] = "starting"
    /\ \E peers \in SUBSET {p \in Nodes \ {f} : p = Proposer \/ hostStage[p] # "down"} :
           height' = [height EXCEPT ![f] = SyncedHeight(@, peers)]
    /\ lost' = [lost EXCEPT ![f] = {b \in @ : b > height'[f]}]
    /\ hostStage' = [hostStage EXCEPT ![f] = "running"]
    /\ UNCHANGED <<inbox, handled, seen, rejected, starts>>

Stop(f) ==
    /\ hostStage[f] # "down"
    /\ hostStage' = [hostStage EXCEPT ![f] = "down"]
    /\ lost' = [lost EXCEPT ![f] = @ \cup inbox[f] \cup rejected[f]]
    /\ inbox' = [inbox EXCEPT ![f] = {}]
    /\ handled' = [handled EXCEPT ![f] = {}]
    /\ seen' = [seen EXCEPT ![f] = {}]
    /\ rejected' = [rejected EXCEPT ![f] = {}]
    /\ UNCHANGED <<height, starts>>

-----------------------------------------------------------------------------

GossipInit ==
    /\ height = [n \in Nodes |-> 0]
    /\ hostStage = [f \in Followers |-> "down"]
    /\ inbox = [f \in Followers |-> {}]
    /\ handled = [f \in Followers |-> {}]
    /\ seen = [f \in Followers |-> {}]
    /\ rejected = [f \in Followers |-> {}]
    /\ lost = [f \in Followers |-> {}]
    /\ starts = [f \in Followers |-> 0]

GossipNext ==
    \/ BroadcastBlock
    \/ \E f \in Followers :
        \/ Start(f)
        \/ SyncToHead(f)
        \/ Stop(f)
        \/ \E block \in 1..MaxGossipHeight : HandleBlock(f, block) \/ Duplicate(f, block)

GossipSpec == GossipInit /\ [][GossipNext]_gossipVars

-----------------------------------------------------------------------------
(* Properties.                                                             *)

(* Types; the seen-cache stays within its capacity, whatever gossip brings. *)
GossipTypeOK ==
    /\ height \in [Nodes -> 0..MaxGossipHeight]
    /\ hostStage \in [Followers -> {"down", "starting", "running"}]
    /\ \A f \in Followers : inbox[f] \cup handled[f] \cup seen[f] \subseteq 1..MaxGossipHeight
    /\ \A f \in Followers : Cardinality(seen[f]) <= MaxSeen

(* A follower never runs ahead of the proposer and never skips a block it   *)
(* was not given: what lies between its own height and the proposer's is    *)
(* on its way, was rejected, or was lost.                                   *)
GapsAccountedFor ==
    \A f \in Followers :
        /\ height[f] <= height[Proposer]
        /\ hostStage[f] = "running" =>
               \A b \in (height[f] + 1)..height[Proposer] :
                   b \in inbox[f] \cup rejected[f] \cup lost[f]

(* A gap is permanent: a follower that rejected a block because an earlier  *)
(* one was missing stays below that block, even once the earlier one came,  *)
(* for the block is in its seen-cache and no copy of it is processed again; *)
(* only a restart or the emptying of a full cache gives it another chance.  *)
GapIsPermanent ==
    [][\A f \in Followers :
          hostStage[f] = "running" /\ hostStage'[f] = "running" =>
              \A b \in rejected[f] \cap seen[f] : height[f] < b => height'[f] < b]_gossipVars

(* A follower falls behind for good only by a loss or by a block that came  *)
(* out of order: otherwise it ends at the proposer's height.                *)
FollowersKeepUp ==
    \A f \in Followers :
        <>[](\/ hostStage[f] # "running"
             \/ height[f] = height[Proposer]
             \/ \E b \in 1..MaxGossipHeight : b > height[f] /\ b \in rejected[f] \cup lost[f])

(* Followers end at the proposer's height unless a block was lost or        *)
(* rejected: every missing block is accounted for, a rejected one stays     *)
(* missing until a restart or an emptied cache (HandleBlock deduplicates    *)
(* it), and nothing else holds a follower back.                             *)
GossipKeepsUp ==
    /\ [](GossipTypeOK /\ GapsAccountedFor)
    /\ GapIsPermanent
    /\ FollowersKeepUp
=============================================================================
