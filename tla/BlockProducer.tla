--------------------------- MODULE BlockProducer ---------------------------
(***************************************************************************)
(* One node of the chain between its RPC port and its disk: the mempool,   *)
(* the block producer with its snapshot, commit and revert, the store that *)
(* survives a crash, and the replay that rebuilds the in-memory state.     *)
(*                                                                         *)
(* The state of the executor is abstracted to the sequence of transactions *)
(* it has applied: execution is deterministic, so equal sequences are      *)
(* equal states and the state root of a header is that sequence.  A        *)
(* transaction applies when its nonce is the next one of its sender and no *)
(* transaction it conflicts with was applied (two cancellations of one     *)
(* PayLink, two uses of one proof).                                        *)
(***************************************************************************)
EXTENDS Integers, Sequences, FiniteSets, SequencesExt

CONSTANTS
    Txs,            \* signed transactions: [from, nonce, conflicts]
    MaxPool,        \* maxSize of the mempool
    MaxTxsPerBlock, \* maxTxsPerBlock
    MaxHeight,      \* bound on the chain's length
    MaxCrashes,     \* bound on crashes
    MaxAborts       \* bound on failed signings and commits

ASSUME ProducerAssumption ==
    /\ \A t \in Txs : t.from \in Nat /\ t.nonce \in Nat
    /\ MaxPool \in Nat /\ MaxTxsPerBlock \in Nat \ {0}
    /\ MaxHeight \in Nat /\ MaxCrashes \in Nat /\ MaxAborts \in Nat

VARIABLES
    up,        \* whether the process runs
    pool,      \* Mempool.pending
    applied,   \* StateDB, as the transactions applied to it
    snapshot,  \* what StateDB.Snapshot kept for this block
    stage,     \* where produceBlock stands: "idle", "executed", "committed"
    drained,   \* the transactions of the block being produced
    chain,     \* the persisted blocks after genesis: [txs, root]
    receipts,  \* the persisted receipt of each transaction
    published, \* transactions whose events went to the event bus
    crashes, aborts

memory == <<pool, applied, snapshot, stage, drained>>
disk == <<chain, receipts>>
producerVars == <<up, memory, disk, published, crashes, aborts>>

-----------------------------------------------------------------------------
(* The executor.                                                           *)

Nonce(state, from) == Len(SelectSeq(state, LAMBDA t : t.from = from))

(* Mutant: the nonce is not compared. *)
AppliesAnyNonce(tx, state) == \A t \in ToSet(state) : t.id \notin tx.conflicts

Applies(tx, state) ==
    /\ tx.nonce = Nonce(state, tx.from)
    /\ \A t \in ToSet(state) : t.id \notin tx.conflicts

(* The state after a block: a transaction that fails is reverted alone. *)
ExecuteBlock(state, txs) ==
    FoldLeft(LAMBDA s, tx : IF Applies(tx, s) THEN Append(s, tx) ELSE s, state, txs)

Successful(before, after) == SubSeq(after, Len(before) + 1, Len(after))

(* Receipts of a block, of which `stored` are written. *)
WithReceipts(txs, success, stored) ==
    [t \in Txs |-> IF t \in ToSet(success) THEN "success"
                   ELSE IF t \in ToSet(SubSeq(txs, 1, stored)) THEN "failed"
                   ELSE receipts[t]]

-----------------------------------------------------------------------------
(* The mempool.                                                            *)

(* Mutant: the size of the mempool is not checked. *)
AddUnbounded(p, tx) == p \cup {tx}

Add(p, tx) == IF tx \in p \/ Cardinality(p) >= MaxPool THEN p ELSE p \cup {tx}

ReinsertAll(p, txs) == FoldLeft(Add, p, txs)

(* Senders in address order, each with its transactions in nonce order.     *)
(* Equal nonces of one sender come in either order: the sort is unstable.   *)
Before(t, u) == t.from < u.from \/ (t.from = u.from /\ t.nonce < u.nonce)

DrainForBlock ==
    { txs \in SetToAllKPermutations(pool) :
        /\ Len(txs) = Min({MaxTxsPerBlock, Cardinality(pool)})
        /\ \A i, j \in DOMAIN txs : Before(txs[i], txs[j]) => i < j
        /\ \A t \in pool \ ToSet(txs) : \A i \in DOMAIN txs : ~ Before(t, txs[i]) }

(* RPC sendTransaction: signature checked, nonce not.  A transaction may be *)
(* sent again once it has left the mempool.                                 *)
SendTransaction(tx) ==
    /\ up
    /\ Add(pool, tx) # pool
    /\ pool' = Add(pool, tx)
    /\ UNCHANGED <<up, applied, snapshot, stage, drained, disk, published, crashes, aborts>>

-----------------------------------------------------------------------------
(* produceBlock, in the steps another goroutine or a crash can come between.*)

TipRoot == IF chain = <<>> THEN <<>> ELSE Last(chain).root

(* Drain and execute on a snapshot.  When every transaction fails there is  *)
(* no block, only receipts, written one by one until a write fails.         *)
Execute(txs) ==
    LET after == ExecuteBlock(applied, txs)
    IN  /\ up
        /\ stage = "idle"
        /\ Len(chain) < MaxHeight
        /\ txs \in DrainForBlock
        /\ txs # <<>>
        /\ pool' = pool \ ToSet(txs)
        /\ IF after = applied
           THEN /\ \E stored \in 0..Len(txs) : receipts' = WithReceipts(txs, <<>>, stored)
                /\ UNCHANGED <<applied, snapshot, stage, drained>>
           ELSE /\ applied' = after
                /\ snapshot' = applied
                /\ drained' = txs
                /\ stage' = "executed"
                /\ UNCHANGED receipts
        /\ UNCHANGED <<up, chain, published, crashes, aborts>>

(* Block and receipts, of the failed transactions too, in one batch. *)
Commit ==
    /\ up
    /\ stage = "executed"
    /\ chain' = Append(chain, [txs |-> Successful(snapshot, applied), root |-> applied])
    /\ receipts' = WithReceipts(drained, Successful(snapshot, applied), Len(drained))
    /\ stage' = "committed"
    /\ UNCHANGED <<up, pool, applied, snapshot, drained, published, crashes, aborts>>

(* Mutant: the state is not reverted when the commit fails. *)
AbortKeepsState ==
    /\ up
    /\ stage = "executed"
    /\ aborts < MaxAborts
    /\ aborts' = aborts + 1
    /\ pool' = ReinsertAll(pool, Successful(snapshot, applied))
    /\ stage' = "idle"
    /\ drained' = <<>>
    /\ snapshot' = <<>>
    /\ UNCHANGED <<up, applied, disk, published, crashes>>

(* Signing or the batch write fails: revert, and put the successful         *)
(* transactions back.  The failed ones are gone, without a receipt.         *)
Abort ==
    /\ up
    /\ stage = "executed"
    /\ aborts < MaxAborts
    /\ aborts' = aborts + 1
    /\ applied' = snapshot
    /\ pool' = ReinsertAll(pool, Successful(snapshot, applied))
    /\ stage' = "idle"
    /\ drained' = <<>>
    /\ snapshot' = <<>>
    /\ UNCHANGED <<up, disk, published, crashes>>

(* Mutant: events are published as soon as the block is executed. *)
FlushEventsEarly ==
    /\ up
    /\ stage \in {"executed", "committed"}
    /\ published' = published \cup ToSet(Successful(snapshot, applied))
    /\ stage' = IF stage = "committed" THEN "idle" ELSE stage
    /\ drained' = IF stage = "committed" THEN <<>> ELSE drained
    /\ snapshot' = IF stage = "committed" THEN <<>> ELSE snapshot
    /\ UNCHANGED <<up, pool, applied, disk, crashes, aborts>>

FlushEvents ==
    /\ up
    /\ stage = "committed"
    /\ published' = published \cup ToSet(Successful(snapshot, applied))
    /\ stage' = "idle"
    /\ drained' = <<>>
    /\ snapshot' = <<>>
    /\ UNCHANGED <<up, pool, applied, disk, crashes, aborts>>

-----------------------------------------------------------------------------
(* Crash and restart.                                                      *)

Crash ==
    /\ up
    /\ crashes < MaxCrashes
    /\ crashes' = crashes + 1
    /\ up' = FALSE
    /\ pool' = {}
    /\ applied' = <<>>
    /\ snapshot' = <<>>
    /\ stage' = "idle"
    /\ drained' = <<>>
    /\ UNCHANGED <<disk, published, aborts>>

(* The state that Replay rebuilds, and whether it accepts it: every         *)
(* transaction of every block succeeds again and the tip's root matches.    *)
Replayed == FoldLeft(LAMBDA s, block : ExecuteBlock(s, block.txs), <<>>, chain)

ReplaySucceeds ==
    /\ Len(Replayed) = FoldLeft(LAMBDA n, block : n + Len(block.txs), 0, chain)
    /\ Replayed = TipRoot

(* Replay runs without an event bus: nothing is published again. *)
Restart ==
    /\ ~ up
    /\ ReplaySucceeds
    /\ up' = TRUE
    /\ applied' = Replayed
    /\ UNCHANGED <<pool, snapshot, stage, drained, disk, published, crashes, aborts>>

-----------------------------------------------------------------------------

ProducerInit ==
    /\ up = TRUE
    /\ pool = {}
    /\ applied = <<>>
    /\ snapshot = <<>>
    /\ stage = "idle"
    /\ drained = <<>>
    /\ chain = <<>>
    /\ receipts = [t \in Txs |-> "none"]
    /\ published = {}
    /\ crashes = 0
    /\ aborts = 0

ProducerNext ==
    \/ \E tx \in Txs : SendTransaction(tx)
    \/ \E txs \in DrainForBlock : Execute(txs)
    \/ Commit
    \/ Abort
    \/ FlushEvents
    \/ Crash
    \/ Restart

ProducerSpec == ProducerInit /\ [][ProducerNext]_producerVars

-----------------------------------------------------------------------------
(* Properties.                                                             *)

Committed == UNION {ToSet(chain[h].txs) : h \in DOMAIN chain}

(* Types; the mempool stays within its capacity through admissions and      *)
(* reinsertions after an aborted block.                                     *)
ProducerTypeOK ==
    /\ up \in BOOLEAN
    /\ pool \subseteq Txs /\ Cardinality(pool) <= MaxPool
    /\ ToSet(applied) \subseteq Txs
    /\ stage \in {"idle", "executed", "committed"}
    /\ receipts \in [Txs -> {"none", "success", "failed"}]
    /\ published \subseteq Txs

(* A node can always come back: whatever blocks were produced, aborted and  *)
(* committed before a crash, replaying the store succeeds and gives exactly *)
(* the state that the running node has.                                     *)
ReplayRebuildsState ==
    /\ ReplaySucceeds
    /\ up /\ stage # "executed" => applied = Replayed

(* No transaction is applied twice, although it may be sent, reinserted and *)
(* drained any number of times.                                             *)
AppliedOnce == \A i, j \in DOMAIN applied : applied[i] = applied[j] => i = j

(* Subscribers never observe events for state that was rolled back          *)
(* (FlushEvents): an event is published for committed transactions only,    *)
(* through aborts and crashes; and a node that never crashed has published  *)
(* the events of every block.                                               *)
EventsMatchChain ==
    /\ published \subseteq Committed
    /\ crashes = 0 /\ stage = "idle" => published = Committed

(* What the RPC reports of a committed transaction: the receipt stored with *)
(* its block ("a block must never be persisted without its tx index and     *)
(* receipts", storeBlock).  A committed transaction that is sent again      *)
(* fails on its nonce, and the failure replaces its receipt.                *)
CommittedHasSuccessReceipt == \A t \in Committed : receipts[t] = "success"

(* A producer can be stopped at any point: the pool keeps its bound, the    *)
(* store replays to the state that was running, no transaction is applied   *)
(* twice on the way, however often it was drained and reinserted, and       *)
(* subscribers see the events of committed blocks only (FlushEvents).       *)
RestartSafe ==
    ProducerTypeOK /\ ReplayRebuildsState /\ AppliedOnce /\ EventsMatchChain
=============================================================================
