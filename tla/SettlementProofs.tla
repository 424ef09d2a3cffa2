-------------------------- MODULE SettlementProofs --------------------------
(***************************************************************************)
(* How a payment reaches the chain, for any number of charges, PayLinks,   *)
(* requests and faults: a proof is sent at most once, and the pending      *)
(* nonces leave no gap.                                                    *)
(***************************************************************************)
EXTENDS SettlementPipeline, FiniteSetTheorems, TLAPS

-----------------------------------------------------------------------------
(* The inductive invariants.                                                *)

(* A request on its way to the chain. *)
Broadcasting(s) == req[s].stage \in {"reserve", "send"}

(* The shape of the state that the argument needs. *)
Shape ==
    /\ DOMAIN req = Slots
    /\ \A s \in Slots :
        /\ "stage" \in DOMAIN req[s]
        /\ req[s].stage # "idle" => "charge" \in DOMAIN req[s] /\ req[s].charge \in Charges
    /\ DOMAIN record = Charges
    /\ sent \in [Charges -> Nat]

(* SentOnce is inductive together with: a request on its way to the chain   *)
(* is the only one for its proof, its row exists and nothing was sent       *)
(* before; whatever was sent has a row.                                     *)
IInv ==
    /\ Shape
    /\ \A s \in Slots : Broadcasting(s) =>
        /\ record[req[s].charge] # "none"
        /\ sent[req[s].charge] = 0
        /\ \A t \in Slots : Broadcasting(t) /\ req[t].charge = req[s].charge => t = s
    /\ \A c \in Charges : sent[c] <= 1 /\ (sent[c] > 0 => record[c] # "none")

(* A validator that has just started, with no request and no proof row. *)
LEMMA InitIInv == PipeInit => IInv
  BY DEF PipeInit, IInv, Shape, Broadcasting, Idle

(* Only InsertProof lets a request through to the chain, and only for a     *)
(* proof without a row; the row is never deleted.                           *)
LEMMA NextIInv == IInv /\ [PipeNext]_pipeVars => IInv'
<1> SUFFICES ASSUME IInv, [PipeNext]_pipeVars PROVE IInv'
  OBVIOUS
<1> USE DEF IInv, Shape, Broadcasting
<1>1. ASSUME UNCHANGED <<req, record, sent>> PROVE IInv'
  BY <1>1
<1>2. ASSUME NEW c \in Charges, NEW s \in Slots, NEW time \in Times, HandleCallback(c, s, time)
      PROVE  IInv'
  BY <1>2, <1>1 DEF HandleCallback, Idle
<1>3. ASSUME NEW s \in Slots, CheckUsed(s) PROVE IInv'
  BY <1>3 DEF CheckUsed, At, GoTo, FinishWith
<1>4. ASSUME NEW s \in Slots, CrossCheck(s) PROVE IInv'
  BY <1>4 DEF CrossCheck, At, GoTo, Idle
<1>5. ASSUME NEW s \in Slots, InsertProof(s) PROVE IInv'
  BY <1>5 DEF InsertProof, At, GoTo, FinishWith
<1>6. ASSUME NEW s \in Slots, Reserve(s) PROVE IInv'
  BY <1>6 DEF Reserve, At
<1>7. ASSUME NEW s \in Slots, Send(s) PROVE IInv'
  BY <1>7 DEF Send, At, GoTo
<1>8. ASSUME NEW s \in Slots, MarkBroadcast(s) PROVE IInv'
  BY <1>8 DEF MarkBroadcast, At, FinishWith
<1>9. ASSUME NEW s \in Slots, Respond(s) PROVE IInv'
  BY <1>9 DEF Respond, At, Idle
<1>10. ASSUME NEW s \in Slots, Fail(s) PROVE IInv'
  BY <1>10 DEF Fail, At, Idle
<1>11. ASSUME ValidatorCrash PROVE IInv'
  BY <1>11 DEF ValidatorCrash, Idle
<1>12. ASSUME NEW c \in Charges,
              InitiateCharge(c) \/ RailResult(c) \/ CorrelationExpires(c)
                \/ IgnoreCallback(c) \/ KeyExpires(c)
       PROVE  IInv'
  BY <1>12, <1>1 DEF InitiateCharge, RailResult, CorrelationExpires, IgnoreCallback, KeyExpires,
                    validator
<1>13. ASSUME ProduceBlock \/ ChainRestart \/ \E p \in PayLinks : CancelPayLink(p) PROVE IInv'
  BY <1>13, <1>1 DEF ProduceBlock, ChainRestart, CancelPayLink, validator
<1>14. ASSUME UNCHANGED pipeVars PROVE IInv'
  BY <1>14, <1>1 DEF pipeVars, validator
<1> QED
  BY <1>2, <1>3, <1>4, <1>5, <1>6, <1>7, <1>8, <1>9, <1>10, <1>11, <1>12, <1>13, <1>14, ZenonT(30)
     DEF PipeNext, RequestStep, Callback

(* Never re-broadcasts: redelivered callbacks, concurrent duplicates,       *)
(* failed requests and restarts of the validator included, SubmitProof      *)
(* sends at most one settlement transaction per proof.                      *)
THEOREM SentAtMostOnce == PipeSpec => []SentOnce
<1>1. IInv => SentOnce
  BY DEF IInv, SentOnce
<1> QED
  BY InitIInv, NextIInv, <1>1, PTL DEF PipeSpec

-----------------------------------------------------------------------------
(* Nonces.                                                                 *)

(* The lock of the NonceManager: one request at a time is between Reserve   *)
(* and the end of its broadcast.                                            *)
OneSender ==
    \A s, t \in Slots : req[s].stage = "send" /\ req[t].stage = "send" => s = t

NonceShape ==
    \A s \in Slots : req[s].stage # "idle" => "nonce" \in DOMAIN req[s]

(* The nonce that the chain expects once all that is pending is mined. *)
AfterPool == chainNonce + Cardinality(pool)

(* While nothing was disturbed, the local counter is behind the pool only   *)
(* if the pool is empty, and a request at its broadcast has the next nonce. *)
PoolInOrder ==
    /\ IsFiniteSet(pool) /\ chainNonce \in Nat /\ next \in Nat
    /\ {tx.nonce : tx \in pool} = chainNonce..(AfterPool - 1)
    /\ next <= AfterPool
    /\ pool # {} => next = AfterPool
    /\ \A s \in Slots : req[s].stage = "send" => req[s].nonce = AfterPool

NonceInv == Shape /\ NonceShape /\ OneSender /\ (~ disturbed => PoolInOrder)

(* What NonceManager.Reserve takes of the chain's nonce and its own. *)
LEMMA MaxOfTwo ==
    ASSUME NEW a \in Int, NEW b \in Int
    PROVE  Max({a, b}) = IF a >= b THEN a ELSE b
BY DEF Max

(* Requests that move without touching nonces, pool or counters. *)
LEMMA NonceKept ==
    ASSUME NonceInv, NEW s \in Slots, DOMAIN req' = Slots,
           \A t \in Slots \ {s} : req'[t] = req[t],
           "stage" \in DOMAIN req'[s],
           req'[s].stage # "idle" => /\ "charge" \in DOMAIN req'[s] /\ req'[s].charge \in Charges
                                    /\ "nonce" \in DOMAIN req'[s],
           req'[s].stage # "send",
           UNCHANGED <<pool, chainNonce, next>>, DOMAIN record' = Charges, sent' \in [Charges -> Nat],
           ~ disturbed' => ~ disturbed
    PROVE  NonceInv'
  <1>1. Shape' /\ NonceShape' /\ OneSender'
    BY DEF NonceInv, Shape, NonceShape, OneSender
  <1>2. ~ disturbed => PoolInOrder'
    BY DEF NonceInv, PoolInOrder, AfterPool
  <1> QED BY <1>1, <1>2 DEF NonceInv

(* A broadcast with the next nonce. *)
LEMMA PoolExtended ==
    ASSUME PoolInOrder, NEW tx, tx.nonce = AfterPool, pool' = pool \cup {tx},
           next' = AfterPool + 1, UNCHANGED chainNonce,
           \A s \in Slots : req'[s].stage # "send"
    PROVE  PoolInOrder'
  <1>1. Cardinality(pool) \in Nat /\ chainNonce \in Nat /\ IsFiniteSet(pool)
    BY FS_CardinalityType DEF PoolInOrder
  <1>2. tx \notin pool
    <2>1. AfterPool \notin chainNonce..(AfterPool - 1)
      BY <1>1 DEF AfterPool
    <2> QED BY <2>1 DEF PoolInOrder
  <1>3. IsFiniteSet(pool') /\ Cardinality(pool') = Cardinality(pool) + 1
    BY <1>1, <1>2, FS_AddElement
  <1>4. AfterPool' = AfterPool + 1 /\ AfterPool \in Nat
    BY <1>1, <1>3 DEF AfterPool
  <1>5. {t.nonce : t \in pool'} = {t.nonce : t \in pool} \cup {AfterPool}
    BY Zenon
  <1>6. chainNonce..(AfterPool - 1) \cup {AfterPool} = chainNonce..AfterPool
    BY <1>1, <1>4 DEF AfterPool
  <1>7. {t.nonce : t \in pool'} = chainNonce'..(AfterPool' - 1)
    BY <1>4, <1>5, <1>6 DEF PoolInOrder
  <1>8. next' = AfterPool' /\ next' \in Nat /\ next' <= AfterPool' /\ chainNonce' \in Nat
    BY <1>1, <1>4
  <1> QED BY <1>3, <1>7, <1>8 DEF PoolInOrder

(* A chain and a nonce manager that have just started agree on nonce 0. *)
LEMMA NonceInit == PipeInit => NonceInv
  <1> SUFFICES ASSUME PipeInit PROVE NonceInv
    OBVIOUS
  <1>1. Cardinality({}) = 0 /\ IsFiniteSet({})
    BY FS_EmptySet
  <1>2. {tx.nonce : tx \in {}} = 0..(0 - 1)
    OBVIOUS
  <1>3. PoolInOrder
    BY <1>1, <1>2 DEF PipeInit, PoolInOrder, AfterPool, Idle
  <1> QED BY <1>3 DEF PipeInit, NonceInv, Shape, NonceShape, OneSender, Idle

(* Each step of a request keeps the run of nonces; the chain takes all of   *)
(* it at once, or the history says that it did not.                         *)
LEMMA NonceNext == NonceInv /\ [PipeNext]_pipeVars => NonceInv'
  <1> SUFFICES ASSUME NonceInv, [PipeNext]_pipeVars PROVE NonceInv'
    BY Zenon
  <1>0. Shape /\ NonceShape /\ OneSender
    BY Zenon DEF NonceInv
  <1>1. ASSUME UNCHANGED <<req, record, sent, pool, chainNonce, next>>, ~ disturbed' => ~ disturbed
        PROVE  NonceInv'
    BY <1>1 DEF NonceInv, Shape, NonceShape, OneSender, PoolInOrder, AfterPool
  <1>2. ASSUME NEW c \in Charges, NEW s \in Slots, NEW time \in Times, HandleCallback(c, s, time)
        PROVE  NonceInv'
    <2>1. UNCHANGED <<record, sent, pool, chainNonce, next, disturbed>>
      BY <1>2 DEF HandleCallback, chain
    <2>2. CASE UNCHANGED req
      BY <1>1, <2>1, <2>2
    <2>3. CASE req' = [req EXCEPT ![s] = [stage |-> "check", charge |-> c, fp |-> time,
                                          nonce |-> 0, status |-> "none"]]
      <3>1. /\ DOMAIN req' = Slots /\ (\A t \in Slots \ {s} : req'[t] = req[t])
            /\ req'[s] = [stage |-> "check", charge |-> c, fp |-> time, nonce |-> 0, status |-> "none"]
        BY <1>0, <2>3 DEF Shape
      <3>2. /\ {"stage", "charge", "nonce"} \subseteq DOMAIN req'[s]
            /\ req'[s].stage = "check" /\ req'[s].charge = c
        BY <3>1
      <3> QED BY <1>0, <2>1, <3>1, <3>2, NonceKept DEF Shape
    <2> QED BY <1>2, <2>2, <2>3 DEF HandleCallback
  <1>3. ASSUME NEW s \in Slots, NEW stage \in {"crosscheck", "insert", "reserve", "mark", "respond"},
               req[s].stage # "idle",
               \/ req' = [req EXCEPT ![s].stage = stage]
               \/ \E st : req' = [req EXCEPT ![s].stage = stage, ![s].status = st],
               UNCHANGED <<pool, chainNonce, next, sent, disturbed>>, DOMAIN record' = Charges
        PROVE  NonceInv'
    <2>1. /\ DOMAIN req' = Slots /\ (\A t \in Slots \ {s} : req'[t] = req[t])
          /\ {"stage", "charge", "nonce"} \subseteq DOMAIN req'[s]
          /\ req'[s].stage = stage /\ req'[s].charge = req[s].charge
      BY <1>0, <1>3 DEF Shape, NonceShape
    <2>2. req'[s].stage # "send" /\ req'[s].charge \in Charges
      BY <1>0, <1>3, <2>1, Zenon DEF Shape
    <2> QED BY <1>0, <1>3, <2>1, <2>2, NonceKept DEF Shape
  <1>4. ASSUME NEW s \in Slots, req' = [req EXCEPT ![s] = Idle],
               UNCHANGED <<pool, chainNonce, next, sent>>, ~ disturbed' => ~ disturbed, DOMAIN record' = Charges
        PROVE  NonceInv'
    <2>1. /\ DOMAIN req' = Slots /\ (\A t \in Slots \ {s} : req'[t] = req[t])
          /\ "stage" \in DOMAIN req'[s] /\ req'[s].stage = "idle"
      BY <1>0, <1>4 DEF Shape, Idle
    <2> QED BY <1>0, <1>4, <2>1, NonceKept DEF Shape
  <1>5. ASSUME NEW s \in Slots, CheckUsed(s) PROVE NonceInv'
    BY <1>0, <1>3, <1>5, Zenon DEF CheckUsed, At, GoTo, FinishWith, chain, Shape
  <1>6. ASSUME NEW s \in Slots, CrossCheck(s) PROVE NonceInv'
    BY <1>0, <1>3, <1>4, <1>6, Zenon DEF CrossCheck, At, GoTo, chain, Shape
  <1>7. ASSUME NEW s \in Slots, InsertProof(s) PROVE NonceInv'
    BY <1>0, <1>3, <1>7, Zenon DEF InsertProof, At, GoTo, FinishWith, chain, Shape
  <1>8. ASSUME NEW s \in Slots, Reserve(s) PROVE NonceInv'
    <2> DEFINE n == Max({chainNonce, next})
    <2>1. /\ req[s].stage = "reserve" /\ (\A t \in Slots : req[t].stage # "send")
          /\ req' = [req EXCEPT ![s].stage = "send", ![s].nonce = n]
          /\ UNCHANGED <<record, sent, pool, chainNonce, next, disturbed>>
      BY <1>8 DEF Reserve, At, chain
    <2> HIDE DEF n
    <2>2. /\ DOMAIN req' = Slots /\ (\A t \in Slots \ {s} : req'[t] = req[t])
          /\ {"stage", "charge", "nonce"} \subseteq DOMAIN req'[s]
          /\ req'[s].stage = "send" /\ req'[s].charge = req[s].charge /\ req'[s].nonce = n
      BY <1>0, <2>1 DEF Shape, NonceShape
    <2>3. Shape' /\ NonceShape' /\ OneSender'
      BY <1>0, <2>1, <2>2 DEF Shape, NonceShape, OneSender
    <2>4. ASSUME PoolInOrder PROVE PoolInOrder'
      <3>1. n = AfterPool
        <4>1. n = IF chainNonce >= next THEN chainNonce ELSE next
          BY <2>4, MaxOfTwo DEF n, PoolInOrder
        <4>2. pool = {} => Cardinality(pool) = 0
          BY FS_EmptySet, Zenon
        <4>3. Cardinality(pool) \in Nat
          BY <2>4, FS_CardinalityType DEF PoolInOrder
        <4> QED BY <2>4, <4>1, <4>2, <4>3 DEF PoolInOrder, AfterPool
      <3>2. AfterPool' = AfterPool
        BY <2>1 DEF AfterPool
      <3> QED BY <2>1, <2>2, <2>4, <3>1, <3>2 DEF PoolInOrder
    <2> QED BY <2>1, <2>3, <2>4 DEF NonceInv
  <1>9. ASSUME NEW s \in Slots, Send(s) PROVE NonceInv'
    <2>1. /\ req[s].stage = "send" /\ req' = [req EXCEPT ![s].stage = "mark"]
          /\ pool' = pool \cup {Tx(s)} /\ next' = req[s].nonce + 1
          /\ sent' = [sent EXCEPT ![req[s].charge] = @ + 1]
          /\ UNCHANGED <<record, chainNonce, disturbed>>
      BY <1>9 DEF Send, At, GoTo
    <2>2. /\ DOMAIN req' = Slots /\ (\A t \in Slots \ {s} : req'[t] = req[t])
          /\ {"stage", "charge", "nonce"} \subseteq DOMAIN req'[s]
          /\ req'[s].stage = "mark" /\ req'[s].charge = req[s].charge
      BY <1>0, <2>1 DEF Shape, NonceShape
    <2>3. Shape' /\ NonceShape' /\ OneSender'
      BY <1>0, <2>1, <2>2 DEF Shape, NonceShape, OneSender
    <2>4. \A t \in Slots : req'[t].stage # "send"
      BY <1>0, <2>1, <2>2 DEF OneSender
    <2>5. ASSUME PoolInOrder PROVE PoolInOrder'
      <3>1. Tx(s).nonce = AfterPool /\ next' = AfterPool + 1
        BY <2>1, <2>5 DEF PoolInOrder, Tx
      <3> QED BY <2>1, <2>4, <2>5, <3>1, PoolExtended
    <2> QED BY <2>1, <2>3, <2>5 DEF NonceInv
  <1>10. ASSUME NEW s \in Slots, MarkBroadcast(s) PROVE NonceInv'
    BY <1>0, <1>3, <1>10, ZenonT(30) DEF MarkBroadcast, At, FinishWith, chain, Shape
  <1>11. ASSUME NEW s \in Slots, Respond(s) PROVE NonceInv'
    BY <1>0, <1>4, <1>11, ZenonT(30) DEF Respond, chain, Shape
  <1>12. ASSUME NEW s \in Slots, Fail(s) PROVE NonceInv'
    <2>1. /\ req' = [req EXCEPT ![s] = Idle] /\ UNCHANGED <<record, next, chainNonce>>
          /\ req[s].stage \in {"check", "crosscheck", "insert", "reserve", "send"}
      BY <1>12 DEF Fail
    <2>2. ~ disturbed' => ~ disturbed /\ req[s].stage # "send"
      BY <1>12, Zenon DEF Fail
    <2>3. CASE UNCHANGED <<pool, sent>>
      BY <1>0, <1>4, <2>1, <2>2, <2>3, Zenon DEF Shape
    <2>4. CASE req[s].stage = "send" /\ sent' = [sent EXCEPT ![req[s].charge] = @ + 1]
      <3>1. /\ DOMAIN req' = Slots /\ (\A t \in Slots \ {s} : req'[t] = req[t])
            /\ "stage" \in DOMAIN req'[s] /\ req'[s].stage = "idle"
        BY <1>0, <2>1 DEF Shape, Idle
      <3>2. Shape' /\ NonceShape' /\ OneSender'
        BY <1>0, <2>1, <2>4, <3>1 DEF Shape, NonceShape, OneSender
      <3> QED BY <2>2, <2>4, <3>2 DEF NonceInv
    <2> QED BY <1>12, <2>3, <2>4 DEF Fail, At
  <1>13. ASSUME ValidatorCrash PROVE NonceInv'
    BY <1>0, <1>13, Zenon DEF ValidatorCrash, NonceInv, Shape, NonceShape, OneSender, Idle
  <1>14. ASSUME NEW c \in Charges,
                InitiateCharge(c) \/ RailResult(c) \/ CorrelationExpires(c)
                  \/ IgnoreCallback(c) \/ KeyExpires(c)
         PROVE  NonceInv'
    BY <1>14, <1>1 DEF InitiateCharge, RailResult, CorrelationExpires, IgnoreCallback, KeyExpires,
                       validator, chain
  <1>15. ASSUME ProduceBlock PROVE NonceInv'
    <2>1. /\ pool' = {} /\ UNCHANGED <<req, record, next, sent>>
          /\ ~ disturbed' => ~ disturbed /\ chainNonce' = AfterPool
      BY <1>15, ZenonT(30) DEF ProduceBlock, validator, AfterPool
    <2>2. Shape' /\ NonceShape' /\ OneSender'
      BY <1>0, <2>1 DEF Shape, NonceShape, OneSender
    <2>3. ASSUME PoolInOrder, chainNonce' = AfterPool PROVE PoolInOrder'
      <3>1. Cardinality(pool) \in Nat /\ AfterPool \in Nat
        BY <2>3, FS_CardinalityType DEF PoolInOrder, AfterPool
      <3>2. IsFiniteSet(pool') /\ Cardinality(pool') = 0
        BY <2>1, FS_EmptySet, Zenon
      <3>3. AfterPool' = AfterPool
        BY <2>3, <3>1, <3>2 DEF AfterPool
      <3>4. {tx.nonce : tx \in pool'} = chainNonce'..(AfterPool' - 1)
        BY <2>1, <2>3, <3>1, <3>3
      <3> QED BY <2>1, <2>3, <3>1, <3>2, <3>3, <3>4 DEF PoolInOrder
    <2> QED BY <2>1, <2>2, <2>3, Zenon DEF NonceInv
  <1>16. ASSUME ChainRestart PROVE NonceInv'
    BY <1>0, <1>16 DEF ChainRestart, NonceInv, Shape, NonceShape, OneSender, validator
  <1>17. ASSUME (\E p \in PayLinks : CancelPayLink(p)) \/ UNCHANGED pipeVars PROVE NonceInv'
    BY <1>17, <1>1 DEF CancelPayLink, validator, pipeVars, chain
  <1> QED
    BY <1>2, <1>5, <1>6, <1>7, <1>8, <1>9, <1>10, <1>11, <1>12, <1>13, <1>14, <1>15, <1>16, <1>17
    DEF PipeNext, RequestStep, Callback

(* NoncesContiguous: for any number of concurrent requests, as long as no   *)
(* send failed, nothing crashed and no settlement failed in a block, the    *)
(* nonces that NonceManager.Reserve hands out follow the committed one      *)
(* without a gap or a duplicate.                                            *)
THEOREM NoncesContiguousAlways == PipeSpec => []NoncesContiguous
  <1>1. NonceInv => NoncesContiguous
    <2>1. ASSUME PoolInOrder
          PROVE  /\ {tx.nonce : tx \in pool} = chainNonce..chainNonce + Cardinality(pool) - 1
                 /\ next =< chainNonce + Cardinality(pool)
      <3>1. AfterPool - 1 = chainNonce + Cardinality(pool) - 1
        BY <2>1, FS_CardinalityType DEF PoolInOrder, AfterPool
      <3> QED BY <2>1, <3>1 DEF PoolInOrder, AfterPool
    <2>2. NonceInv => (~ disturbed => PoolInOrder)
      BY Zenon DEF NonceInv
    <2> QED BY <2>1, <2>2, Zenon DEF NoncesContiguous
  <1> QED BY NonceInit, NonceNext, <1>1, PTL DEF PipeSpec
=============================================================================
