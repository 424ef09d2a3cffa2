------------------------ MODULE PayLinkServiceProofs ------------------------
(***************************************************************************)
(* paylink-service keeps the contract that its callers build on, for any    *)
(* keys, bodies, workers and number of mishaps.                             *)
(***************************************************************************)
EXTENDS PayLinkService, TLAPS

CreateStages == {"insert", "reserve", "send", "write", "complete"}
CancelStages == {"read", "reserve", "send", "write"}

CreateReqs == [op : {"create"}, stage : CreateStages, slot : Keys, body : Bodies,
               pl : PlIds, nonce : Nat]
CancelReqs == [op : {"cancel"}, stage : CancelStages, slot : PlIds \cup {NoKey}, body : PlIds,
               pl : PlIds, nonce : Nat]
GetReqs == [op : {"get"}, stage : {"chain", "write"}, slot : {NoKey}, pl : PlIds,
            seen : OffChainStatus, new : OffChainStatus]

PlTypes ==
    /\ plRow \in [PlIds -> PayLinkRows \cup {NoRow}]
    /\ plEvents \subseteq PlIds \X PlEventKinds
    /\ plReq \in [Workers -> CreateReqs \cup CancelReqs \cup GetReqs \cup {Free}]
    /\ nonceLock \in Workers \cup {NoWorker}
    /\ nonceNext \in Nat /\ accountNonce \in Nat
    /\ pool \subseteq [kind : {"create", "cancel"}, pl : PlIds, nonce : Nat]
    /\ sentCreates \in [PlIds -> Nat]
    /\ mishaps \in Nat

-----------------------------------------------------------------------------
(* The id that create derives from a key and a body is a PayLink id. *)
LEMMA IdInIds ==
    ASSUME NEW k \in Keys, NEW b \in Bodies
    PROVE  PlIdOf(k, b) \in PlIds
BY DEF PlIds, PlIdOf

(* PayLink ids are neither Idempotency-Keys nor the absence of a            *)
(* settlement.                                                              *)
LEMMA IdsAreOther == Keys \cap PlIds = {} /\ NoSettlement \notin PlIds
BY PayLinkServiceAssumption DEF PlIds, PlIdOf

(* A request is of the kind its operation names. *)
LEMMA RequestKinds ==
    ASSUME PlTypes, NEW w \in Workers
    PROVE  /\ plReq[w].op = "create" => plReq[w] \in CreateReqs
           /\ plReq[w].op = "cancel" => plReq[w] \in CancelReqs
           /\ plReq[w].op = "get" => plReq[w] \in GetReqs
           /\ plReq[w].op \in {"none", "create", "cancel", "get"}
           /\ plReq[w].op = "none" => plReq[w] = Free
BY DEF PlTypes, CreateReqs, CancelReqs, GetReqs, Free

(* What a read writes back is a status. *)
LEMMA ReconciledIsStatus ==
    ASSUME NEW local \in OffChainStatus, NEW onChain, NEW expired
    PROVE  ReconcileStatus(local, onChain, expired) \in OffChainStatus
BY Zenon DEF ReconcileStatus, OffChainStatus, TERMINAL

Requests == CreateReqs \cup CancelReqs \cup GetReqs \cup {Free}

(* The request of worker w becomes r, and the others stay as they are. *)
Becomes(w, r) ==
    /\ plReq' \in [Workers -> Requests]
    /\ plReq'[w] = r
    /\ \A v \in Workers \ {w} : plReq'[v] = plReq[v]

(* How GoOn, Answer and a reservation change the requests. *)
LEMMA GoesOn ==
    ASSUME PlTypes, NEW w \in Workers, NEW s, GoOn(w, s),
           \/ plReq[w].op = "create" /\ s \in CreateStages
           \/ plReq[w].op = "cancel" /\ s \in CancelStages
    PROVE  /\ Becomes(w, plReq'[w])
           /\ plReq'[w].op = plReq[w].op /\ plReq'[w].stage = s
           /\ plReq'[w].pl = plReq[w].pl /\ plReq'[w].slot = plReq[w].slot
           /\ plReq'[w].body = plReq[w].body /\ plReq'[w].nonce = plReq[w].nonce
  <1>1. /\ plReq'[w] = [plReq[w] EXCEPT !.stage = s]
        /\ \A v \in Workers \ {w} : plReq'[v] = plReq[v]
        /\ plReq' = [v \in Workers |-> plReq'[v]]
    BY Zenon DEF GoOn, PlTypes
  <1>2. plReq'[w] \in Requests
        /\ plReq'[w].op = plReq[w].op /\ plReq'[w].stage = s
        /\ plReq'[w].pl = plReq[w].pl /\ plReq'[w].slot = plReq[w].slot
        /\ plReq'[w].body = plReq[w].body /\ plReq'[w].nonce = plReq[w].nonce
    <2>1. CASE plReq[w].op = "create" /\ s \in CreateStages
      <3>1. plReq[w] \in CreateReqs
        BY <2>1, RequestKinds, Zenon
      <3> QED BY <1>1, <2>1, <3>1 DEF CreateReqs, Requests
    <2>2. CASE plReq[w].op = "cancel" /\ s \in CancelStages
      <3>1. plReq[w] \in CancelReqs
        BY <2>2, RequestKinds, Zenon
      <3> QED BY <1>1, <2>2, <3>1 DEF CancelReqs, Requests
    <2> QED BY <2>1, <2>2, Zenon
  <1> QED BY <1>1, <1>2, Zenon DEF Becomes, PlTypes, Requests

(* reserve takes a nonce and moves the request on to its submission. *)
LEMMA Reserves ==
    ASSUME PlTypes, NEW w \in Workers, NEW n \in Nat,
           plReq' = [plReq EXCEPT ![w].stage = "send", ![w].nonce = n],
           plReq[w].op \in {"create", "cancel"}
    PROVE  /\ Becomes(w, plReq'[w])
           /\ plReq'[w].op = plReq[w].op /\ plReq'[w].stage = "send"
           /\ plReq'[w].pl = plReq[w].pl /\ plReq'[w].slot = plReq[w].slot
           /\ plReq'[w].body = plReq[w].body /\ plReq'[w].nonce = n
  <1>1. /\ plReq'[w] = [plReq[w] EXCEPT !.stage = "send", !.nonce = n]
        /\ \A v \in Workers \ {w} : plReq'[v] = plReq[v]
        /\ plReq' = [v \in Workers |-> plReq'[v]]
    BY Zenon DEF PlTypes
  <1>2. plReq'[w] \in Requests
        /\ plReq'[w].op = plReq[w].op /\ plReq'[w].stage = "send"
        /\ plReq'[w].pl = plReq[w].pl /\ plReq'[w].slot = plReq[w].slot
        /\ plReq'[w].body = plReq[w].body /\ plReq'[w].nonce = n
    <2>1. CASE plReq[w].op = "create"
      <3>1. plReq[w] \in CreateReqs
        BY <2>1, RequestKinds, Zenon
      <3> QED BY Zenon, <1>1, <2>1, <3>1 DEF CreateReqs, CreateStages, Requests
    <2>2. CASE plReq[w].op = "cancel"
      <3>1. plReq[w] \in CancelReqs
        BY <2>2, RequestKinds, Zenon
      <3> QED BY Zenon, <1>1, <2>2, <3>1 DEF CancelReqs, CancelStages, Requests
    <2> QED BY <2>1, <2>2, Zenon
  <1> QED BY <1>1, <1>2, Zenon DEF Becomes, PlTypes, Requests

(* A request that is answered frees its worker. *)
LEMMA Answers ==
    ASSUME PlTypes, NEW w \in Workers, Answer(w)
    PROVE  Becomes(w, Free)
BY Zenon DEF Answer, Becomes, PlTypes, Requests

(* A request takes a free worker. *)
LEMMA Arrives ==
    ASSUME PlTypes, NEW w \in Workers, NEW r \in Requests, plReq' = [plReq EXCEPT ![w] = r]
    PROVE  Becomes(w, r)
BY Zenon DEF Becomes, PlTypes, Requests

(* The requests that arrive. *)
LEMMA CreateBegins ==
    ASSUME PlTypes, NEW w \in Workers, NEW k \in Keys, NEW b \in Bodies, BeginCreate(w, k, b)
    PROVE  \/ UNCHANGED plReq
           \/ /\ Becomes(w, plReq'[w]) /\ plReq[w] = Free
              /\ plReq'[w].op = "create" /\ plReq'[w].stage = "insert"
              /\ plReq'[w].slot = k /\ plReq'[w].body = b /\ plReq'[w].pl = PlIdOf(k, b)
  <1> DEFINE r == [op |-> "create", stage |-> "insert", slot |-> k, body |-> b,
                   pl |-> PlIdOf(k, b), nonce |-> 0]
  <1>1. r \in Requests
    BY IdInIds, Zenon DEF CreateReqs, CreateStages, Requests
  <1>2. UNCHANGED plReq \/ plReq' = [plReq EXCEPT ![w] = r]
    BY Zenon DEF BeginCreate
  <1>3. plReq[w] = Free
    BY Zenon DEF BeginCreate
  <1>4. plReq' = [plReq EXCEPT ![w] = r] => Becomes(w, r)
    <2> HIDE DEF r
    <2> QED BY Zenon, <1>1, Arrives
  <1>5. Becomes(w, r) => plReq'[w] = r
    BY Zenon DEF Becomes
  <1> QED BY <1>2, <1>3, <1>4, <1>5

(* A cancel is refused, or starts with the read of its row. *)
LEMMA CancelBegins ==
    ASSUME PlTypes, NEW w \in Workers, NEW p \in PlIds, NEW slot \in {p, NoKey}, BeginCancel(w, p, slot)
    PROVE  \/ UNCHANGED plReq
           \/ /\ Becomes(w, plReq'[w]) /\ plReq[w] = Free
              /\ plReq'[w].op = "cancel" /\ plReq'[w].stage = "read"
              /\ plReq'[w].slot = slot /\ plReq'[w].pl = p
  <1> DEFINE r == [op |-> "cancel", stage |-> "read", slot |-> slot, body |-> p, pl |-> p, nonce |-> 0]
  <1>1. r \in Requests
    BY Zenon DEF CancelReqs, CancelStages, Requests
  <1>2. UNCHANGED plReq \/ plReq' = [plReq EXCEPT ![w] = r]
    BY Zenon DEF BeginCancel
  <1>3. plReq[w] = Free
    BY Zenon DEF BeginCancel
  <1>4. plReq' = [plReq EXCEPT ![w] = r] => Becomes(w, r)
    <2> HIDE DEF r
    <2> QED BY Zenon, <1>1, Arrives
  <1>5. Becomes(w, r) => plReq'[w] = r
    BY Zenon DEF Becomes
  <1> QED BY <1>2, <1>3, <1>4, <1>5

(* A get that reads a row not yet final goes on to ask the chain. *)
LEMMA GetBegins ==
    ASSUME PlTypes, NEW w \in Workers, NEW p \in PlIds, ReadForGet(w, p)
    PROVE  /\ Becomes(w, plReq'[w]) /\ plReq[w] = Free
           /\ plReq'[w].op = "get" /\ plReq'[w].stage = "chain" /\ plReq'[w].pl = p
           /\ plReq'[w].seen = plRow[p].status
  <1> DEFINE r == [op |-> "get", stage |-> "chain", slot |-> NoKey, pl |-> p,
                   seen |-> plRow[p].status, new |-> plRow[p].status]
  <1>1. plRow[p].status \in OffChainStatus
    BY DEF ReadForGet, PlTypes, PayLinkRows, NoRow
  <1>2. r \in Requests
    BY <1>1, Zenon DEF GetReqs, Requests
  <1>3. plReq[w] = Free /\ plReq' = [plReq EXCEPT ![w] = r]
    BY Zenon DEF ReadForGet
  <1>4. Becomes(w, r)
    <2> HIDE DEF r
    <2> QED BY Zenon, <1>2, <1>3, Arrives
  <1>5. plReq'[w] = r
    BY <1>4, Zenon DEF Becomes
  <1> QED BY <1>3, <1>4, <1>5

(* A get that heard from the chain goes on to write the status. *)
LEMMA Reconciles ==
    ASSUME PlTypes, NEW w \in Workers, NEW s \in OffChainStatus,
           plReq' = [plReq EXCEPT ![w].stage = "write", ![w].new = s],
           plReq[w].op = "get"
    PROVE  /\ Becomes(w, plReq'[w])
           /\ plReq'[w].op = "get" /\ plReq'[w].stage = "write" /\ plReq'[w].new = s
           /\ plReq'[w].pl = plReq[w].pl /\ plReq'[w].seen = plReq[w].seen
  <1>1. /\ plReq'[w] = [plReq[w] EXCEPT !.stage = "write", !.new = s]
        /\ \A v \in Workers \ {w} : plReq'[v] = plReq[v]
        /\ plReq' = [v \in Workers |-> plReq'[v]]
    BY Zenon DEF PlTypes
  <1>2. plReq'[w] \in Requests
        /\ plReq'[w].op = "get" /\ plReq'[w].stage = "write" /\ plReq'[w].new = s
        /\ plReq'[w].pl = plReq[w].pl /\ plReq'[w].seen = plReq[w].seen
    <2>1. plReq[w] \in GetReqs
      BY RequestKinds, Zenon
    <2> QED BY Zenon, <1>1, <2>1 DEF GetReqs, Requests
  <1> QED BY <1>1, <1>2, Zenon DEF Becomes, PlTypes, Requests

(* A status written back leaves the record of the transaction alone. *)
LEMMA StatusWritten ==
    ASSUME PlTypes, NEW p \in PlIds, NEW s \in OffChainStatus,
           plRow' = [plRow EXCEPT ![p].status = s]
    PROVE  /\ plRow' \in [PlIds -> PayLinkRows \cup {NoRow}]
           /\ plRow'[p] # NoRow /\ plRow'[p].status = s
           /\ plRow'[p].submitted = plRow[p].submitted
           /\ \A q \in PlIds \ {p} : plRow'[q] = plRow[q]
  <1>1. /\ plRow'[p] = [plRow[p] EXCEPT !.status = s]
        /\ \A q \in PlIds \ {p} : plRow'[q] = plRow[q]
        /\ plRow' = [q \in PlIds |-> plRow'[q]]
    BY Zenon DEF PlTypes
  <1>2. PICK a \in OffChainStatus \cup {"absent"}, b \in BOOLEAN :
            plRow[p] = [status |-> a, submitted |-> b]
    <2>1. CASE plRow[p] = NoRow
      BY Zenon, <2>1 DEF NoRow
    <2>2. CASE plRow[p] \in PayLinkRows
      BY <2>2, Zenon DEF PayLinkRows
    <2> QED BY <2>1, <2>2, Zenon DEF PlTypes
  <1>3. /\ plRow'[p] \in PayLinkRows /\ plRow'[p].status = s
        /\ plRow'[p].submitted = plRow[p].submitted
    <2>1. plRow'[p] = [status |-> s, submitted |-> b]
      BY <1>1, <1>2
    <2> QED BY <1>2, <2>1 DEF PayLinkRows
  <1>4. plRow'[p] # NoRow
    BY <1>3 DEF NoRow, OffChainStatus
  <1> QED BY <1>1, <1>3, <1>4, Zenon DEF PlTypes

(* A row that is written as a whole. *)
LEMMA RowReplaced ==
    ASSUME PlTypes, NEW p \in PlIds, NEW r \in PayLinkRows, plRow' = [plRow EXCEPT ![p] = r]
    PROVE  /\ plRow' \in [PlIds -> PayLinkRows \cup {NoRow}]
           /\ plRow'[p] = r /\ plRow'[p] # NoRow
           /\ \A q \in PlIds \ {p} : plRow'[q] = plRow[q]
BY DEF PlTypes, PayLinkRows, NoRow, OffChainStatus

(* The rows that create inserts and updates are rows. *)
LEMMA WrittenRows ==
    /\ [status |-> "CREATED", submitted |-> FALSE] \in PayLinkRows
    /\ [status |-> "PENDING", submitted |-> TRUE] \in PayLinkRows
BY Zenon DEF PayLinkRows, OffChainStatus

-----------------------------------------------------------------------------
(* Types.                                                                  *)

(* The service starts well typed. *)
LEMMA TypesInit ==
    ASSUME PayLinkInit
    PROVE  PlTypes
BY Zenon DEF PayLinkInit, PlTypes, Requests

(* The nonce that reserve hands out is a number. *)
LEMMA NonceIsNat == PlTypes => NextNonce \in Nat
BY Zenon DEF NextNonce, PlTypes

(* Every step of the service keeps its types. *)
LEMMA TypesNext ==
    ASSUME PlTypes, [PayLinkNext]_payLinkVars
    PROVE  PlTypes'
  <1> USE DEF Becomes, Requests
  <1>1. ASSUME NEW w \in Workers, NEW k \in Keys, NEW b \in Bodies, BeginCreate(w, k, b)
        PROVE  PlTypes'
    <2>2. plReq' = plReq \/ Becomes(w, plReq'[w])
      BY <1>1, CreateBegins, Zenon
    <2> QED BY <1>1, <2>2, Zenon DEF BeginCreate, PlTypes, plTables, plChain
  <1>2. ASSUME NEW w \in Workers, NEW p \in PlIds, NEW slot \in {p, NoKey}, BeginCancel(w, p, slot)
        PROVE  PlTypes'
    <2>2. plReq' = plReq \/ Becomes(w, plReq'[w])
      BY <1>2, CancelBegins
    <2> QED BY <1>2, <2>2, Zenon DEF BeginCancel, PlTypes, plTables, plChain, plHistory
  <1>3. ASSUME NEW w \in Workers, NEW p \in PlIds, ReadForGet(w, p)
        PROVE  PlTypes'
    <2>2. Becomes(w, plReq'[w])
      BY <1>3, GetBegins, Zenon
    <2> QED BY <1>3, <2>2, Zenon DEF ReadForGet, PlTypes, plTables, plChain, plHistory
  <1>4. ASSUME NEW w \in Workers, NEW decision, InsertRow(w, decision)
        PROVE  PlTypes'
    <2>1. plReq[w] \in CreateReqs
      BY <1>4, RequestKinds, Zenon DEF InsertRow, Serving
    <2>2. Becomes(w, plReq'[w])
      BY <1>4, GoesOn, Answers, Zenon DEF InsertRow, Serving, AnswerError, CreateStages
    <2>3. plReq[w].pl \in PlIds
      BY <2>1, Zenon DEF CreateReqs
    <2>4. /\ plRow' \in [PlIds -> PayLinkRows \cup {NoRow}]
          /\ plEvents' \subseteq PlIds \X PlEventKinds
      <3>1. CASE PassesGate(plReq[w].body, decision) /\ KeyIsFree(plReq[w].pl)
        <4>1. plRow' = [plRow EXCEPT ![plReq[w].pl] = [status |-> "CREATED", submitted |-> FALSE]]
              /\ plEvents' = plEvents \cup {<<plReq[w].pl, "requested">>}
          BY <1>4, <3>1, Zenon DEF InsertRow, Emit
        <4> QED BY <2>3, <4>1, RowReplaced, WrittenRows DEF PlTypes, PlEventKinds
      <3>2. CASE ~(PassesGate(plReq[w].body, decision) /\ KeyIsFree(plReq[w].pl))
        BY <1>4, <3>2, Zenon DEF InsertRow, PlTypes
      <3> QED BY <3>1, <3>2, Zenon
    <2> QED BY <1>4, <2>2, <2>4, Zenon DEF InsertRow, PlTypes, plChain, plHistory
  <1>5. ASSUME NEW w \in Workers, Reserve(w)
        PROVE  PlTypes'
    <2>1. NextNonce \in Nat
      BY NonceIsNat, Zenon
    <2>2. Becomes(w, plReq'[w])
      BY <1>5, <2>1, Reserves, Answers DEF Reserve, AnswerError
    <2> QED BY <1>5, <2>2 DEF Reserve, Mishap, PlTypes, plTables, plChain, plHistory
  <1>6. ASSUME NEW w \in Workers, SubmitTx(w)
        PROVE  PlTypes'
    <2>1. plReq[w] \in CreateReqs \cup CancelReqs
      BY <1>6, RequestKinds, Zenon DEF SubmitTx
    <2>2. Becomes(w, plReq'[w])
      BY <1>6, GoesOn, Answers, Zenon DEF SubmitTx, SubmitRaised, AnswerError, CreateStages, CancelStages
    <2>3. plReq[w].pl \in PlIds /\ plReq[w].nonce \in Nat
          /\ ChainTx(w) \in [kind : {"create", "cancel"}, pl : PlIds, nonce : Nat]
      BY <1>6, <2>1, Zenon DEF SubmitTx, ChainTx, CreateReqs, CancelReqs
    <2> QED BY <1>6, <2>2, <2>3 DEF SubmitTx, Mishap, PlTypes, plTables
  <1>7. ASSUME NEW w \in Workers, RecordPending(w)
        PROVE  PlTypes'
    <2>1. plReq[w] \in CreateReqs
      BY <1>7, RequestKinds, Zenon DEF RecordPending, Serving
    <2>2. Becomes(w, plReq'[w])
      BY <1>7, GoesOn, Zenon DEF RecordPending, Serving, CreateStages
    <2> QED BY <1>7, <2>1, <2>2 DEF RecordPending, PlTypes, plChain, Emit, CreateReqs,
                                PayLinkRows, OffChainStatus, PlEventKinds
  <1>8. ASSUME NEW w \in Workers, CompleteCreate(w)
        PROVE  PlTypes'
    BY <1>8, Answers, Zenon DEF CompleteCreate, PlTypes, plTables, plChain
  <1>9. ASSUME NEW w \in Workers, ReadForCancel(w)
        PROVE  PlTypes'
    <2>1. \/ GoOn(w, "reserve") \/ GoOn(w, "write") \/ Answer(w)
      BY <1>9, Zenon DEF ReadForCancel, AnswerError, CompleteCancel
    <2>2. Becomes(w, plReq'[w])
      BY <1>9, <2>1, GoesOn, Answers, Zenon DEF ReadForCancel, Serving, CancelStages
    <2> QED BY <1>9, <2>2, Zenon DEF ReadForCancel, PlTypes, plTables, plChain, plHistory
  <1>10. ASSUME NEW w \in Workers, WriteCancelled(w)
         PROVE  PlTypes'
    <2>1. plReq[w] \in CancelReqs
      BY <1>10, RequestKinds, Zenon DEF WriteCancelled, Serving
    <2>2. Becomes(w, Free)
      BY <1>10, Answers, Zenon DEF WriteCancelled, CompleteCancel
    <2>3. plReq[w].pl \in PlIds
      BY <2>1, Zenon DEF CancelReqs
    <2>4. plRow' \in [PlIds -> PayLinkRows \cup {NoRow}]
      BY Zenon, <1>10, <2>3, StatusWritten DEF WriteCancelled, OffChainStatus
    <2> QED BY <1>10, <2>2, <2>3, <2>4 DEF WriteCancelled, PlTypes, plChain, plHistory, Emit, PlEventKinds
  <1>11. ASSUME NEW w \in Workers, AskChain(w)
         PROVE  PlTypes'
    <2>1. plReq[w] \in GetReqs
      BY <1>11, RequestKinds, Zenon DEF AskChain, Serving
    <2>2. ReconcileStatus(plReq[w].seen, chainStatus[plReq[w].pl], plReq[w].pl \in pastExpiry)
              \in OffChainStatus
      BY <2>1, ReconciledIsStatus, Zenon DEF GetReqs
    <2>3. Becomes(w, plReq'[w])
      BY <1>11, <2>2, Reconciles, Answers DEF AskChain, Serving
    <2> QED BY <1>11, <2>3, Zenon DEF AskChain, PlTypes, plTables, plChain, plHistory
  <1>12. ASSUME NEW w \in Workers, WriteReconciled(w)
         PROVE  PlTypes'
    <2>1. plReq[w] \in GetReqs
      BY <1>12, RequestKinds, Zenon DEF WriteReconciled, Serving
    <2>2. Becomes(w, Free)
      BY <1>12, Answers, Zenon DEF WriteReconciled
    <2>3. plReq[w].pl \in PlIds /\ plReq[w].new \in OffChainStatus
      BY <2>1, Zenon DEF GetReqs
    <2>4. plRow' \in [PlIds -> PayLinkRows \cup {NoRow}]
      BY ZenonT(30), <1>12, <2>3, StatusWritten DEF WriteReconciled
    <2> QED BY <1>12, <2>2, <2>3, <2>4 DEF WriteReconciled, PlTypes, plChain, Emit, PlEventKinds
  <1>13. ASSUME NEW tx \in pool, ExecuteTx(tx)
         PROVE  PlTypes'
    BY <1>13 DEF ExecuteTx, PlTypes, plTables, plMemory
  <1>14. ASSUME NEW p \in PlIds, ChainDecides(p) \/ ExpiryPasses(p)
         PROVE  PlTypes'
    BY <1>14, Zenon DEF ChainDecides, ExpiryPasses, PlTypes, plTables, plMemory, plHistory
  <1>15. ASSUME NEW slot, PayLinkKeyExpires(slot)
         PROVE  PlTypes'
    BY <1>15 DEF PayLinkKeyExpires, Mishap, PlTypes, plTables, plChain, plHistory
  <1>16. ASSUME RestartPayLinkService
         PROVE  PlTypes'
    BY <1>16 DEF RestartPayLinkService, Mishap, PlTypes, plTables, plChain
  <1>17. ASSUME UNCHANGED payLinkVars
         PROVE  PlTypes'
    BY <1>17, Zenon DEF payLinkVars, PlTypes, plTables, plMemory, plChain, plHistory
  <1> QED
    BY <1>1, <1>2, <1>3, <1>4, <1>5, <1>6, <1>7, <1>8, <1>9, <1>10, <1>11, <1>12, <1>13, <1>14,
       <1>15, <1>16, <1>17, Zenon DEF PayLinkNext, HandlePayLinkRequest

-----------------------------------------------------------------------------
(* Rows and the requests that work on them.                                *)

(* The request of w has inserted the row of p and not yet recorded its      *)
(* transaction.                                                             *)
Minting(w, p) ==
    /\ plReq[w].op = "create" /\ plReq[w].pl = p
    /\ plReq[w].stage \in {"reserve", "send", "write"}

(* One request mints a PayLink, and until it records the transaction the    *)
(* row is there without one; the others have seen the row.                  *)
MintRows ==
    /\ \A w \in Workers, p \in PlIds : Minting(w, p) => plRow[p] # NoRow /\ ~ plRow[p].submitted
    /\ \A v, w \in Workers, p \in PlIds : Minting(v, p) /\ Minting(w, p) => v = w
    /\ \A w \in Workers :
        /\ plReq[w].op = "create" /\ plReq[w].stage = "complete" => plRow[plReq[w].pl].submitted
        /\ plReq[w].op = "cancel" /\ plReq[w].stage # "read" => plRow[plReq[w].pl] # NoRow
        /\ plReq[w].op = "get" => plRow[plReq[w].pl].submitted

(* A create transaction is sent while its row is minted, and once. *)
CreatesSent ==
    /\ \A w \in Workers, p \in PlIds :
           Minting(w, p) /\ plReq[w].stage # "write" => sentCreates[p] = 0
    /\ \A p \in PlIds : plRow[p] = NoRow => sentCreates[p] = 0
    /\ CreateSentOnce

(* What the steps of a request do to requests and rows. *)
LEMMA RequestPayLink ==
    ASSUME PlTypes, NEW w \in Workers, plReq[w].op # "none"
    PROVE  plReq[w].pl \in PlIds
BY RequestKinds, Zenon DEF CreateReqs, CancelReqs, GetReqs

(* A row with a transaction exists. *)
LEMMA NoRowNotSubmitted ==
    ASSUME PlTypes, NEW p \in PlIds, plRow[p].submitted
    PROVE  plRow[p] # NoRow
BY DEF NoRow

(* No row, no request and nothing sent at the start. *)
LEMMA RowsInit ==
    ASSUME PayLinkInit
    PROVE  MintRows /\ CreatesSent
BY DEF PayLinkInit, MintRows, CreatesSent, CreateSentOnce, Minting, Free

(* A request that ends disturbs nothing. *)
LEMMA RowsAnswered ==
    ASSUME MintRows, CreatesSent, NEW w \in Workers, Becomes(w, Free), UNCHANGED <<plRow, sentCreates>>
    PROVE  MintRows' /\ CreatesSent'
BY DEF MintRows, CreatesSent, CreateSentOnce, Minting, Free, Becomes

(* Rows in progress keep their one request: the insert is refused by the    *)
(* primary key, and only the request that inserted a row records its        *)
(* transaction.                                                             *)
LEMMA RowsNext ==
    ASSUME PlTypes, MintRows, CreatesSent, [PayLinkNext]_payLinkVars
    PROVE  MintRows' /\ CreatesSent'
  <1> USE DEF Becomes
  <1>1. ASSUME NEW w \in Workers, NEW k \in Keys, NEW b \in Bodies, BeginCreate(w, k, b)
        PROVE  MintRows' /\ CreatesSent'
    <2>2. \/ UNCHANGED plReq
          \/ Becomes(w, plReq'[w]) /\ plReq'[w].op = "create" /\ plReq'[w].stage = "insert"
      BY <1>1, CreateBegins, Zenon
    <2>3. UNCHANGED <<plRow, sentCreates>>
      BY <1>1, Zenon DEF BeginCreate, plTables
    <2> QED BY <2>2, <2>3 DEF MintRows, CreatesSent, CreateSentOnce, Minting
  <1>2. ASSUME NEW w \in Workers, NEW p \in PlIds, NEW slot \in {p, NoKey}, BeginCancel(w, p, slot)
        PROVE  MintRows' /\ CreatesSent'
    <2>2. \/ UNCHANGED plReq
          \/ Becomes(w, plReq'[w]) /\ plReq'[w].op = "cancel" /\ plReq'[w].stage = "read"
      BY <1>2, CancelBegins
    <2>3. UNCHANGED <<plRow, sentCreates>>
      BY <1>2, Zenon DEF BeginCancel, plTables, plHistory
    <2> QED BY <2>2, <2>3 DEF MintRows, CreatesSent, CreateSentOnce, Minting
  <1>3. ASSUME NEW w \in Workers, NEW p \in PlIds, ReadForGet(w, p)
        PROVE  MintRows' /\ CreatesSent'
    <2>2. Becomes(w, plReq'[w]) /\ plReq'[w].op = "get" /\ plReq'[w].pl = p
      BY <1>3, GetBegins, Zenon
    <2>3. UNCHANGED <<plRow, sentCreates>> /\ plRow[p].submitted
      BY <1>3, Zenon DEF ReadForGet, plTables, plHistory
    <2> QED BY <2>2, <2>3 DEF MintRows, CreatesSent, CreateSentOnce, Minting
  <1>4. ASSUME NEW w \in Workers, NEW decision, InsertRow(w, decision)
        PROVE  MintRows' /\ CreatesSent'
    <2>1. plReq[w].op = "create" /\ plReq[w].pl \in PlIds /\ UNCHANGED sentCreates
      BY <1>4, RequestPayLink, Zenon DEF InsertRow, Serving, plHistory
    <2>2. CASE PassesGate(plReq[w].body, decision) /\ KeyIsFree(plReq[w].pl)
      <3>1. /\ plRow[plReq[w].pl] = NoRow
            /\ plRow' = [plRow EXCEPT ![plReq[w].pl] = [status |-> "CREATED", submitted |-> FALSE]]
            /\ GoOn(w, "reserve")
        BY <1>4, <2>2, Zenon DEF InsertRow, KeyIsFree
      <3>2. /\ plRow'[plReq[w].pl] # NoRow /\ ~ plRow'[plReq[w].pl].submitted
            /\ \A q \in PlIds \ {plReq[w].pl} : plRow'[q] = plRow[q]
        BY Zenon, <2>1, <3>1, RowReplaced, WrittenRows
      <3>3. Becomes(w, plReq'[w]) /\ plReq'[w].op = "create" /\ plReq'[w].stage = "reserve"
            /\ plReq'[w].pl = plReq[w].pl
        BY <2>1, <3>1, GoesOn, Zenon DEF CreateStages
      <3>4. \A v \in Workers \ {w} : ~ Minting(v, plReq[w].pl)
        BY <2>1, <3>1, Zenon DEF MintRows
      <3>5. ~ plRow[plReq[w].pl].submitted
        BY <3>1 DEF NoRow
      <3>6. \A v \in Workers \ {w} : plReq[v].op # "none" => plReq[v].pl \in PlIds
        BY RequestPayLink, Zenon
      <3>7. MintRows'
        BY <2>1, <3>1, <3>2, <3>3, <3>4, <3>5, <3>6 DEF MintRows, Minting
      <3>8. CreatesSent'
        BY <2>1, <3>1, <3>2, <3>3, <3>4 DEF CreatesSent, CreateSentOnce, Minting
      <3> QED BY <3>7, <3>8, Zenon
    <2>3. CASE ~(PassesGate(plReq[w].body, decision) /\ KeyIsFree(plReq[w].pl))
      <3>1. Becomes(w, Free) /\ UNCHANGED plRow
        BY <1>4, <2>3, Answers, Zenon DEF InsertRow, AnswerError
      <3> QED BY <2>1, <3>1, RowsAnswered, Zenon
    <2> QED BY <2>2, <2>3, Zenon
  <1>5. ASSUME NEW w \in Workers, Reserve(w)
        PROVE  MintRows' /\ CreatesSent'
    <2>1. UNCHANGED <<plRow, sentCreates>> /\ plReq[w].stage = "reserve"
      BY <1>5, Zenon DEF Reserve, plTables, plHistory
    <2>2. CASE Answer(w)
      BY <2>1, <2>2, Answers, RowsAnswered, Zenon
    <2>3. CASE plReq' = [plReq EXCEPT ![w].stage = "send", ![w].nonce = NextNonce]
      <3>1. Becomes(w, plReq'[w]) /\ plReq'[w].op = plReq[w].op /\ plReq'[w].stage = "send"
            /\ plReq'[w].pl = plReq[w].pl
        BY <1>5, <2>3, Reserves, NonceIsNat, Zenon DEF Reserve
      <3> QED BY <2>1, <3>1 DEF MintRows, CreatesSent, CreateSentOnce, Minting
    <2> QED BY <1>5, <2>2, <2>3, Zenon DEF Reserve, AnswerError
  <1>6. ASSUME NEW w \in Workers, SubmitTx(w)
        PROVE  MintRows' /\ CreatesSent'
    <2>1. /\ UNCHANGED plRow /\ plReq[w].stage = "send"
          /\ plReq[w].op \in {"create", "cancel"} /\ plReq[w].pl \in PlIds
      BY <1>6, RequestPayLink, Zenon DEF SubmitTx, plTables
    <2>2. /\ Becomes(w, plReq'[w])
          /\ \/ plReq'[w] = Free
             \/ /\ plReq'[w].op = plReq[w].op /\ plReq'[w].stage = "write"
                /\ plReq'[w].pl = plReq[w].pl
      BY <1>6, GoesOn, Answers DEF SubmitTx, SubmitRaised, AnswerError, CreateStages, CancelStages
    <2>3. MintRows'
      BY <2>1, <2>2 DEF MintRows, Minting, Free
    <2>4. CASE plReq[w].op = "create"
      <3>1. Minting(w, plReq[w].pl) /\ sentCreates[plReq[w].pl] = 0
        BY <2>1, <2>4, Zenon DEF Minting, CreatesSent
      <3>2. \A v \in Workers \ {w} : ~ Minting(v, plReq[w].pl)
        BY <2>1, <3>1, Zenon DEF MintRows
      <3>3. UNCHANGED sentCreates
            \/ sentCreates' = [sentCreates EXCEPT ![plReq[w].pl] = @ + 1]
        BY <1>6, <2>4, Zenon DEF SubmitTx
      <3>4. /\ sentCreates'[plReq[w].pl] \in {0, 1}
            /\ \A q \in PlIds \ {plReq[w].pl} : sentCreates'[q] = sentCreates[q]
        BY <2>1, <3>1, <3>3 DEF PlTypes
      <3>5. plRow[plReq[w].pl] # NoRow
        BY <2>1, <3>1, Zenon DEF MintRows
      <3>6. \A v \in Workers, p \in PlIds :
                Minting(v, p)' /\ plReq'[v].stage # "write" => v # w /\ Minting(v, p)
        BY <2>2, <3>2 DEF Minting, Free
      <3> QED BY <2>1, <2>2, <2>3, <3>2, <3>4, <3>5, <3>6 DEF CreatesSent, CreateSentOnce
    <2>5. CASE plReq[w].op = "cancel"
      <3>1. UNCHANGED sentCreates
        BY <1>6, <2>5, ZenonT(30) DEF SubmitTx
      <3> QED BY <2>1, <2>2, <2>3, <2>5, <3>1 DEF CreatesSent, CreateSentOnce, Minting, Free
    <2> QED BY <2>1, <2>4, <2>5, Zenon
  <1>7. ASSUME NEW w \in Workers, RecordPending(w)
        PROVE  MintRows' /\ CreatesSent'
    <2>1. /\ plReq[w].op = "create" /\ plReq[w].stage = "write" /\ plReq[w].pl \in PlIds
          /\ UNCHANGED sentCreates
      BY <1>7, RequestPayLink, Zenon DEF RecordPending, Serving
    <2>2. Minting(w, plReq[w].pl)
      BY <2>1, Zenon DEF Minting
    <2>3. \A v \in Workers \ {w} : ~ Minting(v, plReq[w].pl)
      BY <2>1, <2>2, Zenon DEF MintRows
    <2>4. /\ plRow'[plReq[w].pl] # NoRow /\ plRow'[plReq[w].pl].submitted
          /\ \A q \in PlIds \ {plReq[w].pl} : plRow'[q] = plRow[q]
      BY ZenonT(30), <1>7, <2>1, RowReplaced, WrittenRows DEF RecordPending
    <2>5. Becomes(w, plReq'[w]) /\ plReq'[w].op = "create" /\ plReq'[w].stage = "complete"
          /\ plReq'[w].pl = plReq[w].pl
      BY <1>7, <2>1, GoesOn, Zenon DEF RecordPending, CreateStages
    <2>6. \A v \in Workers \ {w} : plReq[v].op # "none" => plReq[v].pl \in PlIds
      BY RequestPayLink, Zenon
    <2>7. MintRows'
      BY <2>1, <2>3, <2>4, <2>5, <2>6 DEF MintRows, Minting
    <2>8. CreatesSent'
      BY <2>1, <2>3, <2>4, <2>5 DEF CreatesSent, CreateSentOnce, Minting
    <2> QED BY <2>7, <2>8, Zenon
  <1>8. ASSUME NEW w \in Workers, CompleteCreate(w)
        PROVE  MintRows' /\ CreatesSent'
    BY <1>8, Answers, RowsAnswered, Zenon DEF CompleteCreate, plTables
  <1>9. ASSUME NEW w \in Workers, ReadForCancel(w)
        PROVE  MintRows' /\ CreatesSent'
    <2>1. UNCHANGED <<plRow, sentCreates>> /\ plReq[w].op = "cancel"
      BY <1>9, Zenon DEF ReadForCancel, Serving, plTables, plHistory
    <2>2. CASE Answer(w)
      BY <2>1, <2>2, Answers, RowsAnswered, Zenon
    <2>3. CASE plRow[plReq[w].pl] # NoRow /\ (GoOn(w, "reserve") \/ GoOn(w, "write"))
      <3>1. Becomes(w, plReq'[w]) /\ plReq'[w].op = "cancel" /\ plReq'[w].pl = plReq[w].pl
        BY <2>1, <2>3, GoesOn, Zenon DEF CancelStages
      <3> QED BY <2>1, <2>3, <3>1 DEF MintRows, CreatesSent, CreateSentOnce, Minting
    <2> QED BY <1>9, <2>2, <2>3, Zenon DEF ReadForCancel, AnswerError, CompleteCancel
  <1>10. ASSUME NEW w \in Workers, WriteCancelled(w)
         PROVE  MintRows' /\ CreatesSent'
    <2>1. /\ plReq[w].op = "cancel" /\ plReq[w].stage = "write" /\ plReq[w].pl \in PlIds
          /\ UNCHANGED sentCreates
      BY <1>10, RequestPayLink, Zenon DEF WriteCancelled, Serving, plHistory
    <2>2. Becomes(w, Free)
      BY <1>10, Answers, Zenon DEF WriteCancelled, CompleteCancel
    <2>3. /\ plRow'[plReq[w].pl] # NoRow /\ plRow[plReq[w].pl] # NoRow
          /\ plRow'[plReq[w].pl].submitted = plRow[plReq[w].pl].submitted
          /\ \A q \in PlIds \ {plReq[w].pl} : plRow'[q] = plRow[q]
      BY ZenonT(30), <1>10, <2>1, StatusWritten DEF WriteCancelled, OffChainStatus, MintRows
    <2>4. \A v \in Workers \ {w} : plReq[v].op # "none" => plReq[v].pl \in PlIds
      BY RequestPayLink, Zenon
    <2>5. MintRows'
      BY <2>1, <2>2, <2>3, <2>4 DEF MintRows, Minting, Free
    <2>6. CreatesSent'
      BY <2>1, <2>2, <2>3 DEF CreatesSent, CreateSentOnce, Minting, Free
    <2> QED BY <2>5, <2>6, Zenon
  <1>11. ASSUME NEW w \in Workers, AskChain(w)
         PROVE  MintRows' /\ CreatesSent'
    <2>1. UNCHANGED <<plRow, sentCreates>> /\ plReq[w].op = "get" /\ plReq[w] \in GetReqs
      BY <1>11, RequestKinds, Zenon DEF AskChain, Serving, plTables, plHistory
    <2>2. ReconcileStatus(plReq[w].seen, chainStatus[plReq[w].pl], plReq[w].pl \in pastExpiry)
              \in OffChainStatus
      BY <2>1, ReconciledIsStatus, Zenon DEF GetReqs
    <2>3. CASE Answer(w)
      BY <2>1, <2>3, Answers, RowsAnswered, Zenon
    <2>4. CASE plReq' = [plReq EXCEPT ![w].stage = "write", ![w].new =
                  ReconcileStatus(plReq[w].seen, chainStatus[plReq[w].pl], plReq[w].pl \in pastExpiry)]
      <3>1. Becomes(w, plReq'[w]) /\ plReq'[w].op = "get" /\ plReq'[w].pl = plReq[w].pl
        BY Zenon, <2>1, <2>2, <2>4, Reconciles
      <3> QED BY <2>1, <3>1 DEF MintRows, CreatesSent, CreateSentOnce, Minting
    <2> QED BY <1>11, <2>3, <2>4, Zenon DEF AskChain
  <1>12. ASSUME NEW w \in Workers, WriteReconciled(w)
         PROVE  MintRows' /\ CreatesSent'
    <2>1. /\ plReq[w].op = "get" /\ plReq[w].pl \in PlIds /\ plReq[w].new \in OffChainStatus
          /\ UNCHANGED sentCreates
      BY <1>12, RequestKinds, Zenon DEF WriteReconciled, Serving, GetReqs
    <2>2. Becomes(w, Free)
      BY <1>12, Answers, Zenon DEF WriteReconciled
    <2>3. plRow[plReq[w].pl].submitted
      BY <2>1, Zenon DEF MintRows
    <2>4. /\ plRow'[plReq[w].pl] # NoRow /\ plRow[plReq[w].pl] # NoRow
          /\ plRow'[plReq[w].pl].submitted = plRow[plReq[w].pl].submitted
          /\ \A q \in PlIds \ {plReq[w].pl} : plRow'[q] = plRow[q]
      BY ZenonT(30), <1>12, <2>1, <2>3, StatusWritten, NoRowNotSubmitted DEF WriteReconciled
    <2>5. \A v \in Workers \ {w} : plReq[v].op # "none" => plReq[v].pl \in PlIds
      BY RequestPayLink, Zenon
    <2>6. MintRows'
      BY <2>1, <2>2, <2>4, <2>5 DEF MintRows, Minting, Free
    <2>7. CreatesSent'
      BY <2>1, <2>2, <2>4 DEF CreatesSent, CreateSentOnce, Minting, Free
    <2> QED BY <2>6, <2>7, Zenon
  <1>13. ASSUME UNCHANGED <<plRow, plReq, sentCreates>>
         PROVE  MintRows' /\ CreatesSent'
    BY <1>13 DEF MintRows, CreatesSent, CreateSentOnce, Minting
  <1>14. ASSUME RestartPayLinkService
         PROVE  MintRows' /\ CreatesSent'
    BY <1>14, Zenon DEF RestartPayLinkService, plTables, MintRows, CreatesSent, CreateSentOnce, Minting, Free
  <1>15. ASSUME \/ \E tx \in pool : ExecuteTx(tx)
                \/ \E p \in PlIds : ChainDecides(p) \/ ExpiryPasses(p)
                \/ \E slot \in Keys \cup PlIds : PayLinkKeyExpires(slot)
                \/ UNCHANGED payLinkVars
         PROVE  UNCHANGED <<plRow, plReq, sentCreates>>
    BY ZenonT(30), <1>15 DEF ExecuteTx, ChainDecides, ExpiryPasses, PayLinkKeyExpires, payLinkVars,
                 plTables, plMemory, plHistory
  <1> QED
    BY <1>1, <1>2, <1>3, <1>4, <1>5, <1>6, <1>7, <1>8, <1>9, <1>10, <1>11, <1>12, <1>13, <1>14,
       <1>15, Zenon DEF PayLinkNext, HandlePayLinkRequest

(* A row and its transaction stay. *)
LEMMA SubmittedStays ==
    ASSUME PlTypes, MintRows, [PayLinkNext]_payLinkVars, NEW p \in PlIds
    PROVE  /\ plRow[p].submitted => plRow'[p].submitted
           /\ plRow[p] # NoRow => plRow'[p] # NoRow
  <1> DEFINE Stays == /\ plRow[p].submitted => plRow'[p].submitted
                      /\ plRow[p] # NoRow => plRow'[p] # NoRow
  <1>1. ASSUME UNCHANGED plRow PROVE Stays
    BY <1>1, Zenon
  <1>2. ASSUME NEW w \in Workers, NEW decision, InsertRow(w, decision) PROVE Stays
    <2>1. plReq[w].pl \in PlIds
      BY <1>2, RequestPayLink, Zenon DEF InsertRow, Serving
    <2>2. CASE PassesGate(plReq[w].body, decision) /\ KeyIsFree(plReq[w].pl)
      <3>1. /\ plRow[plReq[w].pl] = NoRow
            /\ plRow' = [plRow EXCEPT ![plReq[w].pl] = [status |-> "CREATED", submitted |-> FALSE]]
        BY <1>2, <2>2, Zenon DEF InsertRow, KeyIsFree
      <3> QED BY <2>1, <3>1, RowReplaced, WrittenRows DEF NoRow
    <2>3. CASE ~(PassesGate(plReq[w].body, decision) /\ KeyIsFree(plReq[w].pl))
      BY <1>2, <2>3, Zenon DEF InsertRow
    <2> QED BY <2>2, <2>3, Zenon
  <1>3. ASSUME NEW w \in Workers, RecordPending(w) PROVE Stays
    <2>1. plReq[w].pl \in PlIds
      BY <1>3, RequestPayLink, Zenon DEF RecordPending, Serving
    <2>2. /\ plRow'[plReq[w].pl] # NoRow /\ plRow'[plReq[w].pl].submitted
          /\ \A q \in PlIds \ {plReq[w].pl} : plRow'[q] = plRow[q]
      BY Zenon, <1>3, <2>1, RowReplaced, WrittenRows DEF RecordPending
    <2> QED BY <2>2, Zenon
  <1>4. ASSUME NEW w \in Workers, WriteCancelled(w) PROVE Stays
    BY ZenonT(30), <1>4, RequestPayLink, StatusWritten DEF WriteCancelled, Serving, OffChainStatus
  <1>5. ASSUME NEW w \in Workers, WriteReconciled(w) PROVE Stays
    <2>1. plReq[w].pl \in PlIds /\ plReq[w].new \in OffChainStatus
      BY <1>5, RequestKinds, Zenon DEF WriteReconciled, Serving, GetReqs
    <2> QED BY ZenonT(30), <1>5, <2>1, StatusWritten DEF WriteReconciled
  <1>6. ASSUME NEW w \in Workers,
               \/ \E k \in Keys, b \in Bodies : BeginCreate(w, k, b)
               \/ \E q \in PlIds : BeginCancel(w, q, q) \/ BeginCancel(w, q, NoKey) \/ ReadForGet(w, q)
               \/ Reserve(w) \/ SubmitTx(w) \/ CompleteCreate(w) \/ ReadForCancel(w) \/ AskChain(w)
        PROVE  UNCHANGED plRow
    BY <1>6, ZenonT(30) DEF BeginCreate, BeginCancel, ReadForGet, Reserve, SubmitTx, CompleteCreate,
                ReadForCancel, AskChain, plTables
  <1>7. ASSUME \/ \E tx \in pool : ExecuteTx(tx)
               \/ \E q \in PlIds : ChainDecides(q) \/ ExpiryPasses(q)
               \/ \E slot \in Keys \cup PlIds : PayLinkKeyExpires(slot)
               \/ RestartPayLinkService
               \/ UNCHANGED payLinkVars
        PROVE  UNCHANGED plRow
    BY <1>7, ZenonT(30) DEF ExecuteTx, ChainDecides, ExpiryPasses, PayLinkKeyExpires, RestartPayLinkService,
                payLinkVars, plTables
  <1> QED
    BY <1>1, <1>2, <1>3, <1>4, <1>5, <1>6, <1>7, Zenon DEF PayLinkNext, HandlePayLinkRequest

-----------------------------------------------------------------------------
(* Keys and answers.                                                       *)

(* A completed key names a PayLink with a transaction.  As long as nothing  *)
(* went wrong, the key of a request is pending, it has no other request,    *)
(* and what was answered is stored.                                         *)
KeyRecords ==
    /\ plIdem = [slot \in Keys \cup PlIds |-> plIdem[slot]]
    /\ plAnswered \subseteq Keys \X PlIds
    /\ \A k \in Keys : plIdem[k].state = "completed" =>
           plIdem[k].body \in PlIds /\ plRow[plIdem[k].body].submitted
    /\ mishaps = 0 =>
        /\ \A w \in Workers : plReq[w].op = "create" => plIdem[plReq[w].slot].state = "pending"
        /\ \A v, w \in Workers :
               plReq[v].op = "create" /\ plReq[w].op = "create" /\ plReq[v].slot = plReq[w].slot => v = w
        /\ \A k \in Keys, p \in PlIds : <<k, p>> \in plAnswered =>
               plIdem[k].state = "completed" /\ plIdem[k].body = p

(* All keys are free at the start. *)
LEMMA KeysInit ==
    ASSUME PayLinkInit
    PROVE  KeyRecords
BY IdsAreOther, ZenonT(30) DEF PayLinkInit, KeyRecords, FreeKey, Free

(* Creates keep their slots, and no new one comes. *)
NoNewCreate ==
    \A w \in Workers : plReq'[w].op = "create" => plReq[w].op = "create" /\ plReq'[w].slot = plReq[w].slot

RowsStay == \A p \in PlIds : plRow[p].submitted => plRow'[p].submitted

(* A step that leaves the records of the keys alone keeps what is known of  *)
(* them.                                                                    *)
LEMMA KeysUntouched ==
    ASSUME PlTypes, KeyRecords, RowsStay, NoNewCreate,
           plIdem' = [slot \in Keys \cup PlIds |-> plIdem'[slot]],
           \A k \in Keys : plIdem'[k] = plIdem[k],
           UNCHANGED plAnswered, mishaps' = 0 => mishaps = 0
    PROVE  KeyRecords'
  <1>1. \A w \in Workers : plReq[w].op = "create" => plReq[w].slot \in Keys
    BY RequestKinds, Zenon DEF CreateReqs
  <1>3. \A k \in Keys : plIdem'[k].state = "completed" =>
           plIdem'[k].body \in PlIds /\ plRow'[plIdem'[k].body].submitted
    BY Zenon DEF KeyRecords, RowsStay
  <1>4. ASSUME mishaps' = 0
        PROVE  /\ \A w \in Workers : plReq'[w].op = "create" => plIdem'[plReq'[w].slot].state = "pending"
               /\ \A v, w \in Workers :
                      plReq'[v].op = "create" /\ plReq'[w].op = "create" /\ plReq'[v].slot = plReq'[w].slot
                          => v = w
               /\ \A k \in Keys, p \in PlIds : <<k, p>> \in plAnswered =>
                      plIdem'[k].state = "completed" /\ plIdem'[k].body = p
    <2>1. \A w \in Workers : plReq'[w].op = "create" => plIdem'[plReq'[w].slot].state = "pending"
      <3> SUFFICES ASSUME NEW w \in Workers, plReq'[w].op = "create"
                   PROVE  plIdem'[plReq'[w].slot].state = "pending"
        BY Zenon
      <3>1. plReq[w].op = "create" /\ plReq'[w].slot = plReq[w].slot /\ plReq[w].slot \in Keys
        BY <1>1, Zenon DEF NoNewCreate
      <3>2. plIdem[plReq[w].slot].state = "pending"
        BY Zenon, <1>4, <3>1 DEF KeyRecords
      <3> QED BY <3>1, <3>2, Zenon
    <2>2. \A v, w \in Workers :
              plReq'[v].op = "create" /\ plReq'[w].op = "create" /\ plReq'[v].slot = plReq'[w].slot
                  => v = w
      BY <1>4 DEF KeyRecords, NoNewCreate
    <2>3. \A k \in Keys, p \in PlIds : <<k, p>> \in plAnswered =>
              plIdem'[k].state = "completed" /\ plIdem'[k].body = p
      BY <1>4 DEF KeyRecords
    <2> QED BY <2>1, <2>2, <2>3, Zenon
  <1> QED BY <1>3, <1>4 DEF KeyRecords

(* So does the release of a key whose request ends, or its expiry, which is *)
(* a mishap.                                                                *)
LEMMA KeyFreed ==
    ASSUME PlTypes, KeyRecords, RowsStay, NoNewCreate, NEW s \in Keys,
           plIdem' = [plIdem EXCEPT ![s] = FreeKey],
           UNCHANGED plAnswered,
           mishaps' = 0 => /\ mishaps = 0
                           /\ \E w \in Workers : /\ plReq[w].op = "create" /\ plReq[w].slot = s
                                                /\ plReq'[w].op # "create"
    PROVE  KeyRecords'
  <1>1. \A w \in Workers : plReq[w].op = "create" => plReq[w].slot \in Keys
    BY RequestKinds, Zenon DEF CreateReqs
  <1>3. /\ plIdem' = [slot \in Keys \cup PlIds |-> plIdem'[slot]]
        /\ plIdem'[s].state = "free"
        /\ \A k \in Keys \ {s} : plIdem'[k] = plIdem[k]
    BY ZenonT(30) DEF KeyRecords, FreeKey
  <1>4. \A k \in Keys : plIdem'[k].state = "completed" =>
           plIdem'[k].body \in PlIds /\ plRow'[plIdem'[k].body].submitted
    BY <1>3, Zenon DEF KeyRecords, RowsStay
  <1>5. ASSUME mishaps' = 0
        PROVE  /\ \A w \in Workers : plReq'[w].op = "create" => plIdem'[plReq'[w].slot].state = "pending"
               /\ \A v, w \in Workers :
                      plReq'[v].op = "create" /\ plReq'[w].op = "create" /\ plReq'[v].slot = plReq'[w].slot
                          => v = w
               /\ \A k \in Keys, p \in PlIds : <<k, p>> \in plAnswered =>
                      plIdem'[k].state = "completed" /\ plIdem'[k].body = p
    <2>1. PICK u \in Workers : plReq[u].op = "create" /\ plReq[u].slot = s /\ plReq'[u].op # "create"
      BY <1>5, Zenon
    <2>2. plIdem[s].state = "pending"
      BY Zenon, <1>5, <2>1 DEF KeyRecords
    <2>3. \A w \in Workers : plReq'[w].op = "create" => w # u /\ plReq'[w].slot # s
      BY <1>5, <2>1 DEF KeyRecords, NoNewCreate
    <2>4. \A w \in Workers : plReq'[w].op = "create" => plIdem'[plReq'[w].slot].state = "pending"
      <3> SUFFICES ASSUME NEW w \in Workers, plReq'[w].op = "create"
                   PROVE  plIdem'[plReq'[w].slot].state = "pending"
        BY Zenon
      <3>1. plReq[w].op = "create" /\ plReq'[w].slot = plReq[w].slot /\ plReq[w].slot \in Keys \ {s}
        BY <1>1, <2>3, Zenon DEF NoNewCreate
      <3>2. plIdem[plReq[w].slot].state = "pending"
        BY ZenonT(30), <1>5, <3>1 DEF KeyRecords
      <3> QED BY <1>3, <3>1, <3>2, Zenon
    <2>5. \A v, w \in Workers :
              plReq'[v].op = "create" /\ plReq'[w].op = "create" /\ plReq'[v].slot = plReq'[w].slot
                  => v = w
      BY <1>5 DEF KeyRecords, NoNewCreate
    <2>6. \A k \in Keys, p \in PlIds : <<k, p>> \in plAnswered =>
              plIdem'[k].state = "completed" /\ plIdem'[k].body = p
      BY <1>3, <1>5, <2>2 DEF KeyRecords
    <2> QED BY <2>4, <2>5, <2>6, Zenon
  <1> QED BY Zenon, <1>3, <1>4, <1>5 DEF KeyRecords

(* The slots of cancels are not keys of creates. *)
LEMMA OtherSlot ==
    ASSUME PlTypes, KeyRecords, RowsStay, NoNewCreate, NEW s \in PlIds, NEW r,
           plIdem' = [plIdem EXCEPT ![s] = r],
           UNCHANGED plAnswered, mishaps' = 0 => mishaps = 0
    PROVE  KeyRecords'
  <1>1. /\ plIdem' = [slot \in Keys \cup PlIds |-> plIdem'[slot]]
        /\ \A k \in Keys : plIdem'[k] = plIdem[k]
    BY ZenonT(30), IdsAreOther DEF KeyRecords
  <1> QED BY <1>1, KeysUntouched, Zenon

(* A step that leaves all records alone is a special case. *)
LEMMA KeysKept ==
    ASSUME PlTypes, KeyRecords, RowsStay, NoNewCreate,
           UNCHANGED <<plIdem, plAnswered>>, mishaps' = 0 => mishaps = 0
    PROVE  KeyRecords'
BY ZenonT(30), KeysUntouched DEF KeyRecords

(* An answer starts no create. *)
LEMMA AnswerLeavesOthers ==
    ASSUME PlTypes, NEW w \in Workers, Becomes(w, Free)
    PROVE  NoNewCreate /\ plReq'[w].op = "none"
BY DEF Becomes, NoNewCreate, Free

(* An error answer releases the key of its request, and only that. *)
LEMMA KeysAnswered ==
    ASSUME PlTypes, KeyRecords, RowsStay, NEW w \in Workers,
           plReq[w].op \in {"create", "cancel"}, AnswerError(w),
           UNCHANGED plAnswered, mishaps' = 0 => mishaps = 0
    PROVE  KeyRecords'
  <1>1. Becomes(w, Free)
    BY Answers, Zenon DEF AnswerError
  <1>2. NoNewCreate /\ plReq'[w].op = "none"
    BY <1>1, AnswerLeavesOthers, Zenon
  <1>3. CASE plReq[w].slot = NoKey
    BY <1>2, <1>3, KeysKept, Zenon DEF AnswerError
  <1>4. CASE plReq[w].slot # NoKey
    <2>1. plIdem' = [plIdem EXCEPT ![plReq[w].slot] = FreeKey]
      BY <1>4, Zenon DEF AnswerError, ReleasedKey
    <2>2. CASE plReq[w].op = "create"
      <3>1. plReq[w].slot \in Keys
        BY <2>2, RequestKinds, Zenon DEF CreateReqs
      <3> QED BY Zenon, <1>2, <2>1, <2>2, <3>1, KeyFreed
    <2>3. CASE plReq[w].op = "cancel"
      <3>1. plReq[w].slot \in PlIds
        BY <1>4, <2>3, RequestKinds, Zenon DEF CancelReqs
      <3> QED BY ZenonT(30), <1>2, <2>1, <3>1, OtherSlot
    <2> QED BY <2>2, <2>3, Zenon
  <1> QED BY <1>3, <1>4, Zenon

(* A cancel completes a record of its own, never that of a create. *)
LEMMA KeysCancelled ==
    ASSUME PlTypes, KeyRecords, RowsStay, NEW w \in Workers,
           plReq[w].op = "cancel", CompleteCancel(w), UNCHANGED <<plAnswered, mishaps>>
    PROVE  KeyRecords'
  <1>1. Becomes(w, Free)
    BY Answers, Zenon DEF CompleteCancel
  <1>2. NoNewCreate
    BY <1>1, AnswerLeavesOthers, Zenon
  <1>3. CASE plReq[w].slot = NoKey
    BY <1>2, <1>3, KeysKept, Zenon DEF CompleteCancel
  <1>4. CASE plReq[w].slot # NoKey
    <2>1. plReq[w].slot \in PlIds
      BY <1>4, RequestKinds, Zenon DEF CancelReqs
    <2> QED BY Zenon, <1>2, <1>4, <2>1, OtherSlot DEF CompleteCancel
  <1> QED BY <1>3, <1>4, Zenon

(* A create begins on a free key and leaves it pending, or is answered from *)
(* the record.                                                              *)
LEMMA KeysBegin ==
    ASSUME PlTypes, KeyRecords, RowsStay, NEW w \in Workers, NEW k \in Keys, NEW b \in Bodies,
           BeginCreate(w, k, b)
    PROVE  KeyRecords'
  <1>1. UNCHANGED <<plRow, mishaps>>
    BY Zenon DEF BeginCreate, plTables
  <1>2. CASE BeginKey(plIdem[k], b) = "owner"
    <2>1. /\ plIdem' = [plIdem EXCEPT ![k] = PendingKey(b)] /\ UNCHANGED plAnswered
          /\ plIdem[k].state = "free"
      BY <1>2, Zenon DEF BeginCreate, BeginKey
    <2>2. /\ plIdem' = [slot \in Keys \cup PlIds |-> plIdem'[slot]]
          /\ plIdem'[k].state = "pending" /\ \A j \in Keys \ {k} : plIdem'[j] = plIdem[j]
      BY ZenonT(30), <2>1 DEF KeyRecords, PendingKey
    <2>3. \A j \in Keys : plIdem'[j].state = "completed" =>
              plIdem'[j].body \in PlIds /\ plRow'[plIdem'[j].body].submitted
      BY <1>1, <2>2 DEF KeyRecords
    <2>4. ASSUME mishaps = 0
          PROVE  /\ \A v \in Workers : plReq'[v].op = "create" => plIdem'[plReq'[v].slot].state = "pending"
                 /\ \A u, v \in Workers :
                        plReq'[u].op = "create" /\ plReq'[v].op = "create" /\ plReq'[u].slot = plReq'[v].slot
                            => u = v
                 /\ \A j \in Keys, p \in PlIds : <<j, p>> \in plAnswered =>
                        plIdem'[j].state = "completed" /\ plIdem'[j].body = p
      <3>1. \A v \in Workers : plReq[v].op = "create" =>
                plReq[v].slot \in Keys /\ plIdem[plReq[v].slot].state = "pending"
        BY ZenonT(30), <2>4, RequestKinds DEF CreateReqs, KeyRecords
      <3>2. \A v \in Workers : plReq[v].op = "create" => plReq[v].slot \in Keys \ {k}
        BY <2>1, <3>1, Zenon
      <3>3. \A v \in Workers : plReq'[v].op = "create" =>
                \/ v = w /\ plReq'[v].slot = k
                \/ plReq[v].op = "create" /\ plReq'[v].slot = plReq[v].slot
        BY CreateBegins DEF Becomes
      <3>4. \A v \in Workers \ {w} : plReq'[v].op = "create" =>
                plReq[v].op = "create" /\ plReq'[v].slot = plReq[v].slot
        BY <3>3, Zenon
      <3>5. plReq[w].op # "create"
        BY DEF BeginCreate, Free
      <3>6. \A v \in Workers : plReq'[v].op = "create" => plIdem'[plReq'[v].slot].state = "pending"
        BY <2>2, <3>1, <3>2, <3>3
      <3>7. \A u, v \in Workers :
                plReq'[u].op = "create" /\ plReq'[v].op = "create" /\ plReq'[u].slot = plReq'[v].slot
                    => u = v
        BY <2>4, <3>2, <3>3, <3>5 DEF KeyRecords
      <3>8. \A j \in Keys, p \in PlIds : <<j, p>> \in plAnswered =>
                plIdem'[j].state = "completed" /\ plIdem'[j].body = p
        BY <2>1, <2>2, <2>4 DEF KeyRecords
      <3> QED BY <3>6, <3>7, <3>8, Zenon
    <2> QED BY Zenon, <1>1, <2>1, <2>2, <2>3, <2>4 DEF KeyRecords
  <1>3. CASE BeginKey(plIdem[k], b) = "replay"
    <2>1. /\ UNCHANGED <<plIdem, plReq>> /\ plAnswered' = plAnswered \cup {<<k, plIdem[k].body>>}
          /\ plIdem[k].state = "completed"
      BY <1>3, Zenon DEF BeginCreate, BeginKey
    <2>2. plIdem[k].body \in PlIds
      BY <2>1, Zenon DEF KeyRecords
    <2>3. plAnswered' \subseteq Keys \X PlIds
      BY <2>1, <2>2 DEF KeyRecords
    <2>4. \A j \in Keys, p \in PlIds : <<j, p>> \in plAnswered' =>
              <<j, p>> \in plAnswered \/ (j = k /\ p = plIdem[k].body)
      BY <2>1, Zenon
    <2>5. mishaps' = 0 => \A j \in Keys, p \in PlIds : <<j, p>> \in plAnswered' =>
              plIdem'[j].state = "completed" /\ plIdem'[j].body = p
      BY <1>1, <2>1, <2>4, Zenon DEF KeyRecords
    <2>6. /\ plIdem' = [slot \in Keys \cup PlIds |-> plIdem'[slot]]
          /\ \A j \in Keys : plIdem'[j].state = "completed" =>
                 plIdem'[j].body \in PlIds /\ plRow'[plIdem'[j].body].submitted
          /\ mishaps' = 0 =>
              /\ \A v \in Workers : plReq'[v].op = "create" => plIdem'[plReq'[v].slot].state = "pending"
              /\ \A u, v \in Workers :
                     plReq'[u].op = "create" /\ plReq'[v].op = "create" /\ plReq'[u].slot = plReq'[v].slot
                         => u = v
      BY ZenonT(30), <1>1, <2>1 DEF KeyRecords
    <2> QED BY <2>3, <2>5, <2>6, Zenon DEF KeyRecords
  <1>4. CASE BeginKey(plIdem[k], b) \notin {"owner", "replay"}
    <2>1. UNCHANGED <<plIdem, plReq, plAnswered>>
      BY <1>4, Zenon DEF BeginCreate
    <2> QED BY <1>1, <2>1, KeysKept, Zenon DEF NoNewCreate
  <1> QED BY <1>2, <1>3, <1>4, Zenon

(* Every step keeps what is known of the keys. *)
LEMMA KeysNext ==
    ASSUME PlTypes, MintRows, KeyRecords, [PayLinkNext]_payLinkVars
    PROVE  KeyRecords'
  <1>0. RowsStay
    BY SubmittedStays, Zenon DEF RowsStay
  <1>1. ASSUME NEW w \in Workers, NEW k \in Keys, NEW b \in Bodies, BeginCreate(w, k, b)
        PROVE  KeyRecords'
    BY <1>0, <1>1, KeysBegin, Zenon
  <1>2. ASSUME NEW w \in Workers, NEW p \in PlIds, NEW slot \in {p, NoKey}, BeginCancel(w, p, slot)
        PROVE  KeyRecords'
    <2>1. NoNewCreate
      BY <1>2, CancelBegins, Zenon DEF NoNewCreate, Becomes
    <2>2. UNCHANGED <<plAnswered, mishaps>>
      BY <1>2, Zenon DEF BeginCancel, plHistory
    <2>3. CASE UNCHANGED plIdem
      BY <1>0, <2>1, <2>2, <2>3, KeysKept, Zenon
    <2>4. CASE slot # NoKey /\ plIdem' = [plIdem EXCEPT ![slot] = PendingKey(p)]
      BY Zenon, <1>0, <2>1, <2>2, <2>4, OtherSlot
    <2> QED BY <1>2, <2>3, <2>4, Zenon DEF BeginCancel
  <1>3. ASSUME NEW w \in Workers, NEW p \in PlIds, ReadForGet(w, p)
        PROVE  KeyRecords'
    <2>1. NoNewCreate
      BY <1>3, GetBegins DEF NoNewCreate, Becomes
    <2> QED BY <1>0, <1>3, <2>1, KeysKept, Zenon DEF ReadForGet, plHistory
  <1>4. ASSUME NEW w \in Workers, NEW decision, InsertRow(w, decision)
        PROVE  KeyRecords'
    <2>1. plReq[w].op = "create" /\ UNCHANGED <<plAnswered, mishaps>>
      BY <1>4, Zenon DEF InsertRow, Serving, plHistory
    <2>2. CASE GoOn(w, "reserve") /\ UNCHANGED plIdem
      <3>1. NoNewCreate
        BY <2>1, <2>2, GoesOn DEF NoNewCreate, Becomes, CreateStages
      <3> QED BY <1>0, <2>1, <2>2, <3>1, KeysKept, Zenon
    <2>3. CASE AnswerError(w)
      BY <1>0, <2>1, <2>3, KeysAnswered, Zenon
    <2> QED BY <1>4, <2>2, <2>3, Zenon DEF InsertRow
  <1>5. ASSUME NEW w \in Workers, Reserve(w)
        PROVE  KeyRecords'
    <2>1. plReq[w].op \in {"create", "cancel"} /\ UNCHANGED plAnswered
      BY <1>5, Zenon DEF Reserve, plHistory
    <2>2. CASE /\ plReq' = [plReq EXCEPT ![w].stage = "send", ![w].nonce = NextNonce]
               /\ UNCHANGED <<plIdem, mishaps>>
      <3>1. NoNewCreate
        BY <2>1, <2>2, Reserves, NonceIsNat, Zenon DEF NoNewCreate, Becomes
      <3> QED BY <1>0, <2>1, <2>2, <3>1, KeysKept, Zenon
    <2>3. CASE Mishap /\ AnswerError(w)
      <3>1. mishaps' # 0
        BY <2>3 DEF Mishap, PlTypes
      <3> QED BY <1>0, <2>1, <2>3, <3>1, KeysAnswered, Zenon
    <2> QED BY <1>5, <2>2, <2>3, Zenon DEF Reserve
  <1>6. ASSUME NEW w \in Workers, SubmitTx(w)
        PROVE  KeyRecords'
    <2>1. plReq[w].op \in {"create", "cancel"} /\ UNCHANGED plAnswered
      BY <1>6, Zenon DEF SubmitTx
    <2>2. CASE GoOn(w, "write") /\ UNCHANGED <<plIdem, mishaps>>
      <3>1. NoNewCreate
        BY <2>1, <2>2, GoesOn DEF NoNewCreate, Becomes, CreateStages, CancelStages
      <3> QED BY <1>0, <2>1, <2>2, <3>1, KeysKept, Zenon
    <2>3. CASE Mishap /\ AnswerError(w)
      <3>1. mishaps' # 0
        BY <2>3 DEF Mishap, PlTypes
      <3> QED BY <1>0, <2>1, <2>3, <3>1, KeysAnswered, Zenon
    <2> QED BY <1>6, <2>2, <2>3, ZenonT(30) DEF SubmitTx, SubmitRaised
  <1>7. ASSUME NEW w \in Workers, RecordPending(w)
        PROVE  KeyRecords'
    <2>1. NoNewCreate
      BY <1>7, GoesOn DEF RecordPending, Serving, NoNewCreate, Becomes, CreateStages
    <2> QED BY <1>0, <1>7, <2>1, KeysKept, Zenon DEF RecordPending
  <1>8. ASSUME NEW w \in Workers, CompleteCreate(w)
        PROVE  KeyRecords'
    <2> DEFINE k == plReq[w].slot
               q == plReq[w].pl
    <2>1. /\ plReq[w].op = "create" /\ plReq[w].stage = "complete" /\ k \in Keys /\ q \in PlIds
          /\ UNCHANGED <<plRow, mishaps>>
          /\ plIdem' = [plIdem EXCEPT ![k] = CompletedKey(plReq[w].body, q)]
          /\ plAnswered' = plAnswered \cup {<<k, q>>}
      BY ZenonT(30), <1>8, RequestKinds DEF CompleteCreate, Serving, CreateReqs, plTables
    <2>2. plRow[q].submitted
      BY ZenonT(30), <2>1 DEF MintRows
    <2>3. NoNewCreate /\ plReq'[w].op = "none"
      BY <1>8, Answers, AnswerLeavesOthers, Zenon DEF CompleteCreate
    <2> HIDE DEF k, q
    <2>4. /\ plIdem' = [slot \in Keys \cup PlIds |-> plIdem'[slot]]
          /\ plIdem'[k].state = "completed" /\ plIdem'[k].body = q
          /\ \A j \in Keys \ {k} : plIdem'[j] = plIdem[j]
      BY ZenonT(30), <2>1 DEF KeyRecords, CompletedKey
    <2>5. plAnswered' \subseteq Keys \X PlIds
      BY <2>1 DEF KeyRecords
    <2>6. \A j \in Keys : plIdem'[j].state = "completed" =>
              plIdem'[j].body \in PlIds /\ plRow'[plIdem'[j].body].submitted
      BY <2>1, <2>2, <2>4 DEF KeyRecords
    <2>7. ASSUME mishaps = 0
          PROVE  /\ \A v \in Workers : plReq'[v].op = "create" => plIdem'[plReq'[v].slot].state = "pending"
                 /\ \A u, v \in Workers :
                        plReq'[u].op = "create" /\ plReq'[v].op = "create" /\ plReq'[u].slot = plReq'[v].slot
                            => u = v
                 /\ \A j \in Keys, p \in PlIds : <<j, p>> \in plAnswered' =>
                        plIdem'[j].state = "completed" /\ plIdem'[j].body = p
      <3>1. \A v \in Workers : plReq'[v].op = "create" =>
                /\ plReq[v].op = "create" /\ plReq'[v].slot = plReq[v].slot
                /\ plReq[v].slot \in Keys \ {k}
        BY <2>1, <2>3, <2>7, RequestKinds DEF NoNewCreate, KeyRecords, CreateReqs, k
      <3>2. \A v \in Workers : plReq'[v].op = "create" => plIdem'[plReq'[v].slot].state = "pending"
        <4> SUFFICES ASSUME NEW v \in Workers, plReq'[v].op = "create"
                     PROVE  plIdem'[plReq'[v].slot].state = "pending"
          BY Zenon
        <4>1. plIdem[plReq[v].slot].state = "pending"
          BY Zenon, <2>7, <3>1 DEF KeyRecords
        <4> QED BY <2>4, <3>1, <4>1, Zenon
      <3>3. \A u, v \in Workers :
                plReq'[u].op = "create" /\ plReq'[v].op = "create" /\ plReq'[u].slot = plReq'[v].slot
                    => u = v
        BY <2>7, <3>1 DEF KeyRecords
      <3>4. plIdem[k].state = "pending"
        BY ZenonT(30), <2>1, <2>7 DEF KeyRecords, k
      <3>5. \A j \in Keys, p \in PlIds : <<j, p>> \in plAnswered => j # k
        BY <2>7, <3>4, Zenon DEF KeyRecords
      <3>6. \A j \in Keys, p \in PlIds : <<j, p>> \in plAnswered' =>
                \/ <<j, p>> \in plAnswered /\ j \in Keys \ {k}
                \/ j = k /\ p = q
        BY <2>1, <3>5, Zenon
      <3>7. \A j \in Keys, p \in PlIds : <<j, p>> \in plAnswered' =>
                plIdem'[j].state = "completed" /\ plIdem'[j].body = p
        BY <2>4, <2>7, <3>6 DEF KeyRecords
      <3> QED BY <3>2, <3>3, <3>7, ZenonT(30)
    <2> QED BY ZenonT(30), <2>1, <2>4, <2>5, <2>6, <2>7 DEF KeyRecords
  <1>9. ASSUME NEW w \in Workers, ReadForCancel(w)
        PROVE  KeyRecords'
    <2>1. plReq[w].op = "cancel" /\ UNCHANGED <<plAnswered, mishaps>>
      BY <1>9, Zenon DEF ReadForCancel, Serving, plHistory
    <2>2. CASE (GoOn(w, "reserve") \/ GoOn(w, "write")) /\ UNCHANGED plIdem
      <3>1. NoNewCreate
        BY <2>1, <2>2, GoesOn DEF NoNewCreate, Becomes, CancelStages
      <3> QED BY <1>0, <2>1, <2>2, <3>1, KeysKept, Zenon
    <2>3. CASE AnswerError(w)
      BY <1>0, <2>1, <2>3, KeysAnswered, Zenon
    <2>4. CASE CompleteCancel(w)
      BY <1>0, <2>1, <2>4, KeysCancelled, Zenon
    <2> QED BY <1>9, <2>2, <2>3, <2>4, Zenon DEF ReadForCancel
  <1>10. ASSUME NEW w \in Workers, WriteCancelled(w)
         PROVE  KeyRecords'
    BY <1>0, <1>10, KeysCancelled, Zenon DEF WriteCancelled, Serving, plHistory
  <1>11. ASSUME NEW w \in Workers, AskChain(w)
         PROVE  KeyRecords'
    <2>1. plReq[w].op = "get" /\ plReq[w] \in GetReqs
      BY <1>11, RequestKinds, Zenon DEF AskChain, Serving
    <2>2. ReconcileStatus(plReq[w].seen, chainStatus[plReq[w].pl], plReq[w].pl \in pastExpiry)
              \in OffChainStatus
      BY <2>1, ReconciledIsStatus, Zenon DEF GetReqs
    <2>3. Becomes(w, Free) \/ (Becomes(w, plReq'[w]) /\ plReq'[w].op = "get")
      BY <1>11, <2>1, <2>2, Reconciles, Answers, Zenon DEF AskChain
    <2>4. NoNewCreate
      BY <2>3 DEF NoNewCreate, Becomes, Free
    <2> QED BY <1>0, <1>11, <2>4, KeysKept, Zenon DEF AskChain, plHistory
  <1>12. ASSUME NEW w \in Workers, WriteReconciled(w)
         PROVE  KeyRecords'
    BY <1>0, <1>12, Answers, AnswerLeavesOthers, KeysKept, Zenon DEF WriteReconciled
  <1>13. ASSUME \/ \E tx \in pool : ExecuteTx(tx)
                \/ \E p \in PlIds : ChainDecides(p) \/ ExpiryPasses(p)
                \/ UNCHANGED payLinkVars
         PROVE  KeyRecords'
    <2>1. UNCHANGED <<plReq, plIdem, plAnswered, mishaps>>
      BY <1>13, Zenon DEF ExecuteTx, ChainDecides, ExpiryPasses, payLinkVars, plMemory, plHistory
    <2> QED BY <1>0, <2>1, KeysKept, Zenon DEF NoNewCreate
  <1>14. ASSUME NEW slot \in Keys \cup PlIds, PayLinkKeyExpires(slot)
         PROVE  KeyRecords'
    <2>1. /\ UNCHANGED <<plReq, plAnswered>> /\ plIdem' = [plIdem EXCEPT ![slot] = FreeKey]
          /\ mishaps' # 0
      BY <1>14 DEF PayLinkKeyExpires, Mishap, PlTypes, plHistory
    <2>2. NoNewCreate
      BY <2>1, Zenon DEF NoNewCreate
    <2> QED BY ZenonT(30), <1>0, <2>1, <2>2, KeyFreed, OtherSlot
  <1>15. ASSUME RestartPayLinkService
         PROVE  KeyRecords'
    <2>1. /\ UNCHANGED <<plIdem, plAnswered>> /\ mishaps' # 0
          /\ plReq' = [w \in Workers |-> Free]
      BY <1>15 DEF RestartPayLinkService, Mishap, PlTypes
    <2> QED BY <1>0, <2>1, KeysKept, Zenon DEF NoNewCreate, Free
  <1> QED
    BY <1>1, <1>2, <1>3, <1>4, <1>5, <1>6, <1>7, <1>8, <1>9, <1>10, <1>11, <1>12, <1>13, <1>14,
       <1>15 DEF PayLinkNext, HandlePayLinkRequest

-----------------------------------------------------------------------------
(* The refinement of MintContract.                                         *)

(* The mapping, in terms of Minting. *)
LEMMA ProgressIs ==
    \A p \in PlIds :
        MintProgress(p) = IF plRow[p] = NoRow THEN "absent"
                          ELSE IF plRow[p].submitted THEN "live"
                          ELSE IF \E w \in Workers : Minting(w, p) THEN "open" ELSE "stub"
BY Zenon DEF MintProgress, Minting

(* The same in the next state. *)
LEMMA ProgressNextIs ==
    \A p \in PlIds :
        MintProgress(p)' = IF plRow'[p] = NoRow THEN "absent"
                           ELSE IF plRow'[p].submitted THEN "live"
                           ELSE IF \E w \in Workers : Minting(w, p)' THEN "open" ELSE "stub"
BY Zenon DEF MintProgress, Minting

(* A step that keeps rows, and who mints, is no step of the contract. *)
LEMMA NothingMinted ==
    ASSUME \A p \in PlIds : /\ (plRow'[p] = NoRow) <=> (plRow[p] = NoRow)
                            /\ plRow'[p].submitted <=> plRow[p].submitted
                            /\ plRow[p] # NoRow /\ ~ plRow[p].submitted =>
                                   ((\E w \in Workers : Minting(w, p)') <=> (\E w \in Workers : Minting(w, p)))
    PROVE  \A p \in PlIds : MintProgress(p)' = MintProgress(p)
BY ProgressIs, ProgressNextIs, Zenon

(* The steps of the contract, in terms of the progress. *)
LEMMA ContractStutters ==
    ASSUME \A p \in PlIds : MintProgress(p)' = MintProgress(p), UNCHANGED plAnswered
    PROVE  UNCHANGED Mint!mintVars
BY Zenon DEF Mint!mintVars

(* The insert of a row is the contract's insert. *)
LEMMA ContractInserts ==
    ASSUME NEW q \in PlIds, MintProgress(q) = "absent", MintProgress(q)' = "open",
           \A p \in PlIds \ {q} : MintProgress(p)' = MintProgress(p), UNCHANGED plAnswered
    PROVE  Mint!InsertMint(q)
BY Zenon DEF Mint!InsertMint

(* The record of its transaction is the contract's. *)
LEMMA ContractRecords ==
    ASSUME NEW q \in PlIds, MintProgress(q) = "open", MintProgress(q)' = "live",
           \A p \in PlIds \ {q} : MintProgress(p)' = MintProgress(p), UNCHANGED plAnswered
    PROVE  Mint!RecordMint(q)
BY Zenon DEF Mint!RecordMint

(* Requests that end early leave their mints abandoned. *)
LEMMA ContractAbandons ==
    ASSUME NEW P \in SUBSET PlIds, \A p \in P : MintProgress(p) = "open" /\ MintProgress(p)' = "stub",
           \A p \in PlIds \ P : MintProgress(p)' = MintProgress(p), UNCHANGED plAnswered
    PROVE  Mint!AbandonMints(P)
BY Zenon DEF Mint!AbandonMints

(* A 201 is an answer for a recorded mint. *)
LEMMA ContractAnswers ==
    ASSUME NEW q \in PlIds, NEW k \in Keys, MintProgress(q) = "live",
           \A p \in PlIds : MintProgress(p)' = MintProgress(p),
           plAnswered' = plAnswered \cup {<<k, q>>}
    PROVE  Mint!AnswerMint(q)
  <1>1. {a[2] : a \in plAnswered'} = {a[2] : a \in plAnswered} \cup {q}
    <2> DEFINE new == <<k, q>>
    <2>1. new[2] = q /\ plAnswered' = plAnswered \cup {new}
      BY Zenon
    <2> HIDE DEF new
    <2> QED BY <2>1, Zenon
  <1> QED BY <1>1, Zenon DEF Mint!AnswerMint

(* The service starts where the contract starts. *)
LEMMA ContractInit ==
    ASSUME PayLinkInit
    PROVE  Mint!MintInit
BY Zenon DEF PayLinkInit, Mint!MintInit, MintProgress

(* The progress of a mint is told by its row and by who works on it. *)
LEMMA MintersKept ==
    ASSUME PlTypes, UNCHANGED plRow,
           \A w \in Workers, p \in PlIds : Minting(w, p)' <=> Minting(w, p)
    PROVE  \A p \in PlIds : MintProgress(p)' = MintProgress(p)
BY NothingMinted, Zenon

(* The end of a request that was minting leaves a stub. *)
LEMMA MintAbandoned ==
    ASSUME PlTypes, MintRows, NEW w \in Workers, Becomes(w, Free), UNCHANGED <<plRow, plAnswered>>
    PROVE  [Mint!MintNext]_(Mint!mintVars)
  <1>1. \A v \in Workers, p \in PlIds : Minting(v, p)' <=> v # w /\ Minting(v, p)
    BY DEF Becomes, Minting, Free
  <1>2. CASE \E q \in PlIds : Minting(w, q)
    <2>1. PICK q \in PlIds : Minting(w, q)
      BY <1>2, Zenon
    <2>2. plRow[q] # NoRow /\ ~ plRow[q].submitted /\ \A v \in Workers : Minting(v, q) => v = w
      BY <2>1, Zenon DEF MintRows
    <2>3. \A p \in PlIds \ {q} : ~ Minting(w, p)
      BY <2>1, Zenon DEF Minting
    <2>4. MintProgress(q) = "open" /\ MintProgress(q)' = "stub"
      BY <1>1, <2>1, <2>2, ProgressIs, ProgressNextIs, Zenon
    <2>5. \A p \in PlIds \ {q} : MintProgress(p)' = MintProgress(p)
      BY <1>1, <2>3, ProgressIs, ProgressNextIs
    <2>6. Mint!AbandonMints({q})
      BY <2>4, <2>5, ContractAbandons, Zenon
    <2> QED BY <2>6, Zenon DEF Mint!MintNext
  <1>3. CASE \A q \in PlIds : ~ Minting(w, q)
    <2>1. \A p \in PlIds : MintProgress(p)' = MintProgress(p)
      BY <1>1, <1>3, MintersKept, Zenon
    <2> QED BY <2>1, ContractStutters, Zenon
  <1> QED BY <1>2, <1>3, Zenon

(* A step that changes neither is no step of the contract. *)
LEMMA ContractKept ==
    ASSUME PlTypes, UNCHANGED <<plRow, plAnswered>>,
           \A v \in Workers, p \in PlIds : Minting(v, p)' <=> Minting(v, p)
    PROVE  [Mint!MintNext]_(Mint!mintVars)
BY MintersKept, ContractStutters, Zenon

(* Every step of the service is a step of the contract, or none. *)
LEMMA ContractNext ==
    ASSUME PlTypes, MintRows, KeyRecords, [PayLinkNext]_payLinkVars
    PROVE  [Mint!MintNext]_(Mint!mintVars)
  <1> DEFINE Goal == [Mint!MintNext]_(Mint!mintVars)
             MintersStay == \A v \in Workers, p \in PlIds : Minting(v, p)' <=> Minting(v, p)
  <1>1. ASSUME NEW w \in Workers, NEW k \in Keys, NEW b \in Bodies, BeginCreate(w, k, b)
        PROVE  Goal
    <2>1. UNCHANGED plRow
      BY <1>1, Zenon DEF BeginCreate, plTables
    <2>2. MintersStay
      BY <1>1, CreateBegins DEF Becomes, Minting, Free
    <2>3. CASE UNCHANGED plAnswered
      BY <2>1, <2>2, <2>3, ContractKept, Zenon
    <2>4. CASE BeginKey(plIdem[k], b) = "replay" /\ plAnswered' = plAnswered \cup {<<k, plIdem[k].body>>}
      <3>1. PICK q \in PlIds : q = plIdem[k].body /\ plRow[q].submitted
        BY <2>4, Zenon DEF BeginKey, KeyRecords
      <3>2. MintProgress(q) = "live"
        BY <3>1, ProgressIs, NoRowNotSubmitted, Zenon
      <3>3. \A p \in PlIds : MintProgress(p)' = MintProgress(p)
        BY <2>1, <2>2, MintersKept, Zenon
      <3>5. plAnswered' = plAnswered \cup {<<k, q>>}
        BY <2>4, <3>1, Zenon
      <3>4. Mint!AnswerMint(q)
        BY <3>5, <3>2, <3>3, ContractAnswers, Zenon
      <3> QED BY <3>1, <3>4, Zenon DEF Mint!MintNext
    <2> QED BY <1>1, <2>3, <2>4, Zenon DEF BeginCreate
  <1>2. ASSUME NEW w \in Workers, NEW p \in PlIds, NEW slot \in {p, NoKey}, BeginCancel(w, p, slot)
        PROVE  Goal
    <2>1. UNCHANGED <<plRow, plAnswered>>
      BY <1>2, Zenon DEF BeginCancel, plTables, plHistory
    <2>2. MintersStay
      BY <1>2, CancelBegins DEF Becomes, Minting, Free
    <2> QED BY <2>1, <2>2, ContractKept, Zenon
  <1>3. ASSUME NEW w \in Workers, NEW p \in PlIds, ReadForGet(w, p)
        PROVE  Goal
    <2>1. UNCHANGED <<plRow, plAnswered>>
      BY <1>3, Zenon DEF ReadForGet, plTables, plHistory
    <2>2. MintersStay
      BY <1>3, GetBegins DEF Becomes, Minting, Free
    <2> QED BY <2>1, <2>2, ContractKept, Zenon
  <1>4. ASSUME NEW w \in Workers, NEW decision, InsertRow(w, decision)
        PROVE  Goal
    <2>0. PICK q \in PlIds : q = plReq[w].pl
      BY ZenonT(30), <1>4, RequestPayLink DEF InsertRow, Serving
    <2>1. plReq[w].op = "create" /\ plReq[w].stage = "insert" /\ UNCHANGED plAnswered
      BY ZenonT(30), <1>4, RequestPayLink DEF InsertRow, Serving, plHistory
    <2>2. CASE PassesGate(plReq[w].body, decision) /\ KeyIsFree(q)
      <3>1. /\ plRow[q] = NoRow
            /\ plRow' = [plRow EXCEPT ![q] = [status |-> "CREATED", submitted |-> FALSE]]
            /\ GoOn(w, "reserve")
        BY <1>4, <2>0, <2>2, Zenon DEF InsertRow, KeyIsFree
      <3>2. /\ plRow'[q] # NoRow /\ ~ plRow'[q].submitted
            /\ \A p \in PlIds \ {q} : plRow'[p] = plRow[p]
        BY ZenonT(30), <3>1, RowReplaced, WrittenRows
      <3>3. Becomes(w, plReq'[w]) /\ plReq'[w].op = "create" /\ plReq'[w].stage = "reserve"
            /\ plReq'[w].pl = q
        BY Zenon, <2>0, <2>1, <3>1, GoesOn DEF CreateStages
      <3>4. Minting(w, q)' /\ \A v \in Workers, p \in PlIds \ {q} : Minting(v, p)' <=> Minting(v, p)
        BY <2>0, <2>1, <3>3 DEF Minting, Becomes
      <3>5. MintProgress(q) = "absent" /\ MintProgress(q)' = "open"
        BY <3>1, <3>2, <3>4, ProgressIs, ProgressNextIs, Zenon
      <3>6. \A p \in PlIds \ {q} : MintProgress(p)' = MintProgress(p)
        BY <3>2, <3>4, ProgressIs, ProgressNextIs, Zenon
      <3>7. Mint!InsertMint(q)
        BY <2>1, <3>5, <3>6, ContractInserts, Zenon
      <3> QED BY ZenonT(30), <2>1, <3>7 DEF Mint!MintNext
    <2>3. CASE ~(PassesGate(plReq[w].body, decision) /\ KeyIsFree(q))
      <3>1. Becomes(w, Free) /\ UNCHANGED plRow
        BY <1>4, <2>0, <2>3, Answers, Zenon DEF InsertRow, AnswerError
      <3> QED BY <2>1, <3>1, MintAbandoned, ZenonT(30)
    <2> QED BY <2>2, <2>3, Zenon
  <1>5. ASSUME NEW w \in Workers, Reserve(w)
        PROVE  Goal
    <2>1. UNCHANGED <<plRow, plAnswered>> /\ plReq[w].stage = "reserve"
      BY <1>5, Zenon DEF Reserve, plTables, plHistory
    <2>2. CASE Answer(w)
      BY ZenonT(30), <2>1, <2>2, Answers, MintAbandoned
    <2>3. CASE plReq' = [plReq EXCEPT ![w].stage = "send", ![w].nonce = NextNonce]
      <3>1. Becomes(w, plReq'[w]) /\ plReq'[w].op = plReq[w].op /\ plReq'[w].stage = "send"
            /\ plReq'[w].pl = plReq[w].pl
        BY <1>5, <2>3, Reserves, NonceIsNat, Zenon DEF Reserve
      <3>2. MintersStay
        BY <2>1, <3>1 DEF Minting, Becomes
      <3> QED BY <2>1, <3>2, ContractKept, Zenon
    <2> QED BY <1>5, <2>2, <2>3, Zenon DEF Reserve, AnswerError
  <1>6. ASSUME NEW w \in Workers, SubmitTx(w)
        PROVE  Goal
    <2>1. /\ UNCHANGED <<plRow, plAnswered>> /\ plReq[w].stage = "send"
          /\ plReq[w].op \in {"create", "cancel"}
      BY <1>6, ZenonT(30) DEF SubmitTx, plTables
    <2>2. CASE Answer(w)
      BY <2>1, <2>2, Answers, MintAbandoned, ZenonT(30)
    <2>3. CASE GoOn(w, "write")
      <3>1. Becomes(w, plReq'[w]) /\ plReq'[w].op = plReq[w].op /\ plReq'[w].stage = "write"
            /\ plReq'[w].pl = plReq[w].pl
        BY <2>1, <2>3, GoesOn, Zenon DEF CreateStages, CancelStages
      <3>2. MintersStay
        BY <2>1, <3>1 DEF Minting, Becomes
      <3> QED BY <2>1, <3>2, ContractKept, Zenon
    <2> QED BY ZenonT(30), <1>6, <2>2, <2>3 DEF SubmitTx, SubmitRaised, AnswerError
  <1>7. ASSUME NEW w \in Workers, RecordPending(w)
        PROVE  Goal
    <2>0. PICK q \in PlIds : q = plReq[w].pl
      BY <1>7, RequestPayLink, Zenon DEF RecordPending, Serving
    <2>1. /\ plReq[w].op = "create" /\ plReq[w].stage = "write"
          /\ UNCHANGED plAnswered
      BY <1>7, RequestPayLink, Zenon DEF RecordPending, Serving
    <2>2. Minting(w, q)
      BY <2>0, <2>1, Zenon DEF Minting
    <2>3. plRow[q] # NoRow /\ ~ plRow[q].submitted
      BY <2>0, <2>1, <2>2, Zenon DEF MintRows
    <2>4. /\ plRow'[q] # NoRow /\ plRow'[q].submitted
          /\ \A p \in PlIds \ {q} : plRow'[p] = plRow[p]
      BY ZenonT(30), <1>7, <2>0, RowReplaced, WrittenRows DEF RecordPending
    <2>5. Becomes(w, plReq'[w]) /\ plReq'[w].pl = q
      BY Zenon, <1>7, <2>0, <2>1, GoesOn DEF RecordPending, CreateStages
    <2>6. \A v \in Workers, p \in PlIds \ {q} : Minting(v, p)' <=> Minting(v, p)
      BY <2>0, <2>1, <2>5, Zenon DEF Minting, Becomes
    <2>7. MintProgress(q) = "open" /\ MintProgress(q)' = "live"
      BY <2>2, <2>3, <2>4, ProgressIs, ProgressNextIs, Zenon
    <2>8. \A p \in PlIds \ {q} : MintProgress(p)' = MintProgress(p)
      BY <2>4, <2>6, ProgressIs, ProgressNextIs
    <2>9. Mint!RecordMint(q)
      BY <2>1, <2>7, <2>8, ContractRecords, Zenon
    <2> QED BY <2>1, <2>9, Zenon DEF Mint!MintNext
  <1>8. ASSUME NEW w \in Workers, CompleteCreate(w)
        PROVE  Goal
    <2>0. PICK q \in PlIds : q = plReq[w].pl
      BY <1>8, RequestPayLink, Zenon DEF CompleteCreate, Serving
    <2>1. /\ plReq[w].op = "create" /\ plReq[w].stage = "complete"
          /\ plReq[w].slot \in Keys /\ UNCHANGED plRow
          /\ plAnswered' = plAnswered \cup {<<plReq[w].slot, q>>}
      BY ZenonT(30), <1>8, <2>0, RequestKinds DEF CompleteCreate, Serving, CreateReqs, plTables
    <2>2. MintersStay
      BY <1>8, <2>1, Answers DEF CompleteCreate, Becomes, Minting, Free
    <2>3. plRow[q].submitted
      BY Zenon, <2>0, <2>1 DEF MintRows
    <2>4. MintProgress(q) = "live"
      BY <2>1, <2>3, ProgressIs, NoRowNotSubmitted, Zenon
    <2>5. \A p \in PlIds : MintProgress(p)' = MintProgress(p)
      BY ZenonT(30), <2>1, <2>2, MintersKept
    <2>6. Mint!AnswerMint(q)
      BY <2>1, <2>4, <2>5, ContractAnswers, Zenon
    <2> QED BY <2>1, <2>6, ZenonT(30) DEF Mint!MintNext
  <1>9. ASSUME NEW w \in Workers, ReadForCancel(w)
        PROVE  Goal
    <2>1. UNCHANGED <<plRow, plAnswered>> /\ plReq[w].op = "cancel"
      BY <1>9, Zenon DEF ReadForCancel, Serving, plTables, plHistory
    <2>2. CASE Answer(w)
      BY <2>1, <2>2, Answers, MintAbandoned, Zenon
    <2>3. CASE GoOn(w, "reserve") \/ GoOn(w, "write")
      <3>1. Becomes(w, plReq'[w]) /\ plReq'[w].op = "cancel"
        BY <2>1, <2>3, GoesOn, Zenon DEF CancelStages
      <3>2. MintersStay
        BY <2>1, <3>1, Zenon DEF Minting, Becomes
      <3> QED BY <2>1, <3>2, ContractKept, Zenon
    <2> QED BY <1>9, <2>2, <2>3, Zenon DEF ReadForCancel, AnswerError, CompleteCancel
  <1>10. ASSUME NEW w \in Workers, WriteCancelled(w)
         PROVE  Goal
    <2>0. PICK q \in PlIds : q = plReq[w].pl
      BY <1>10, RequestPayLink, Zenon DEF WriteCancelled, Serving
    <2>1. /\ plReq[w].op = "cancel" /\ plReq[w].stage = "write"
          /\ UNCHANGED plAnswered
      BY <1>10, RequestPayLink, Zenon DEF WriteCancelled, Serving, plHistory
    <2>2. MintersStay
      BY <1>10, <2>1, Answers DEF WriteCancelled, CompleteCancel, Becomes, Minting, Free
    <2>3. /\ plRow'[q] # NoRow /\ plRow[q] # NoRow /\ plRow'[q].submitted = plRow[q].submitted
          /\ \A p \in PlIds \ {q} : plRow'[p] = plRow[p]
      BY ZenonT(30), <1>10, <2>0, <2>1, StatusWritten DEF WriteCancelled, OffChainStatus, MintRows
    <2>4. \A p \in PlIds : MintProgress(p)' = MintProgress(p)
      BY ZenonT(30), <2>1, <2>2, <2>3, NothingMinted
    <2> QED BY <2>1, <2>4, ContractStutters, Zenon
  <1>11. ASSUME NEW w \in Workers, AskChain(w)
         PROVE  Goal
    <2>1. UNCHANGED <<plRow, plAnswered>> /\ plReq[w].op = "get" /\ plReq[w] \in GetReqs
      BY <1>11, RequestKinds, Zenon DEF AskChain, Serving, plTables, plHistory
    <2>2. ReconcileStatus(plReq[w].seen, chainStatus[plReq[w].pl], plReq[w].pl \in pastExpiry)
              \in OffChainStatus
      BY <2>1, ReconciledIsStatus, Zenon DEF GetReqs
    <2>3. Becomes(w, Free) \/ (Becomes(w, plReq'[w]) /\ plReq'[w].op = "get")
      BY <1>11, <2>1, <2>2, Reconciles, Answers, Zenon DEF AskChain
    <2>4. MintersStay
      BY <2>1, <2>3 DEF Becomes, Minting, Free
    <2> QED BY ZenonT(30), <2>1, <2>4, ContractKept
  <1>12. ASSUME NEW w \in Workers, WriteReconciled(w)
         PROVE  Goal
    <2>0. PICK q \in PlIds : q = plReq[w].pl
      BY <1>12, RequestPayLink, Zenon DEF WriteReconciled, Serving
    <2>1. /\ plReq[w].op = "get" /\ plReq[w].new \in OffChainStatus
          /\ UNCHANGED plAnswered
      BY <1>12, RequestKinds, Zenon DEF WriteReconciled, Serving, GetReqs
    <2>2. MintersStay
      BY <1>12, <2>1, Answers DEF WriteReconciled, Becomes, Minting, Free
    <2>3. plRow[q].submitted
      BY <2>0, <2>1, Zenon DEF MintRows
    <2>4. /\ plRow'[q] # NoRow /\ plRow[q] # NoRow /\ plRow'[q].submitted = plRow[q].submitted
          /\ \A p \in PlIds \ {q} : plRow'[p] = plRow[p]
      BY ZenonT(30), <1>12, <2>0, <2>1, <2>3, StatusWritten, NoRowNotSubmitted DEF WriteReconciled
    <2>5. \A p \in PlIds : MintProgress(p)' = MintProgress(p)
      BY Zenon, <2>1, <2>2, <2>4, NothingMinted
    <2> QED BY <2>1, <2>5, ContractStutters, Zenon
  <1>13. ASSUME \/ \E tx \in pool : ExecuteTx(tx)
                \/ \E p \in PlIds : ChainDecides(p) \/ ExpiryPasses(p)
                \/ \E slot \in Keys \cup PlIds : PayLinkKeyExpires(slot)
                \/ UNCHANGED payLinkVars
         PROVE  Goal
    <2>1. UNCHANGED <<plRow, plReq, plAnswered>>
      BY ZenonT(30), <1>13 DEF ExecuteTx, ChainDecides, ExpiryPasses, PayLinkKeyExpires, payLinkVars,
                   plTables, plMemory, plHistory
    <2>2. MintersStay
      BY <2>1, Zenon DEF Minting
    <2> QED BY <2>1, <2>2, ContractKept, Zenon
  <1>14. ASSUME RestartPayLinkService
         PROVE  Goal
    <2> DEFINE P == {p \in PlIds : MintProgress(p) = "open"}
    <2>1. UNCHANGED <<plRow, plAnswered>> /\ plReq' = [w \in Workers |-> Free]
      BY <1>14, Zenon DEF RestartPayLinkService, plTables
    <2>2. \A v \in Workers, p \in PlIds : ~ Minting(v, p)'
      BY <2>1, Zenon DEF Minting, Free
    <2>3. \A p \in P : MintProgress(p) = "open" /\ MintProgress(p)' = "stub"
      BY <2>1, <2>2, ProgressIs, ProgressNextIs, Zenon
    <2>4. \A p \in PlIds \ P : MintProgress(p)' = MintProgress(p)
      BY <2>1, <2>2, ProgressIs, ProgressNextIs, Zenon
    <2>5. Mint!AbandonMints(P)
      BY <2>1, <2>3, <2>4, ContractAbandons, Zenon
    <2> QED BY <2>5, Zenon DEF Mint!MintNext
  <1> QED
    BY <1>1, <1>2, <1>3, <1>4, <1>5, <1>6, <1>7, <1>8, <1>9, <1>10, <1>11, <1>12, <1>13, <1>14
    DEF PayLinkNext, HandlePayLinkRequest

-----------------------------------------------------------------------------
(* The inductive invariant of the contract: rows in progress belong to one  *)
(* request each, a create is sent by the one that inserted its row, and an  *)
(* Idempotency-Key stands for one PayLink.                                  *)
MintInv == PlTypes /\ MintRows /\ CreatesSent /\ KeyRecords

(* A service that has just started has no row, request or key. *)
LEMMA MintInvInit == PayLinkInit => MintInv
BY TypesInit, RowsInit, KeysInit, Zenon DEF MintInv

(* Every handler step keeps it. *)
LEMMA MintInvNext == MintInv /\ [PayLinkNext]_payLinkVars => MintInv'
BY TypesNext, RowsNext, KeysNext, Zenon DEF MintInv

(* KeepsMintContract: every step of paylink-service is a step of the        *)
(* contract its callers build on, or none: a row is inserted once, only the *)
(* request that inserted it completes it, and a 201 names a completed one.  *)
THEOREM ServiceKeepsContract == PayLinkSpec => KeepsMintContract
  <1>1. MintInv /\ [PayLinkNext]_payLinkVars => [Mint!MintNext]_(Mint!mintVars)
    BY ContractNext, Zenon DEF MintInv
  <1>2. PayLinkInit => Mint!MintInit
    BY ContractInit, Zenon
  <1> QED BY MintInvInit, MintInvNext, <1>1, <1>2, PTL DEF PayLinkSpec, KeepsMintContract, Mint!MintSpec

-----------------------------------------------------------------------------
(* Nonces.                                                                 *)

(* The lock is held exactly by the request between reserve and submission. *)
LockHeld ==
    \A w \in Workers :
        nonceLock = w <=> plReq[w].op \in {"create", "cancel"} /\ plReq[w].stage = "send"

(* The pending nonces run from the account's to the local counter, and the  *)
(* holder of the lock has the next one.                                     *)
PoolRuns ==
    /\ \A tx, other \in pool : tx.nonce = other.nonce => tx = other
    /\ \A n \in Nat : (\E tx \in pool : tx.nonce = n) <=> accountNonce <= n /\ n < nonceNext
    /\ \A w \in Workers : nonceLock = w => plReq[w].nonce = NextNonce

NoncesKnown == ~ blind => PoolRuns

(* A request that neither holds nor takes the lock moves. *)
LEMMA LockKept ==
    ASSUME PlTypes, LockHeld, NEW w \in Workers, Becomes(w, plReq'[w]), UNCHANGED nonceLock,
           nonceLock # w,
           plReq'[w].op \in {"create", "cancel"} => plReq'[w].stage # "send"
    PROVE  LockHeld'
BY Zenon DEF LockHeld, Becomes

(* A step that sends nothing and hands out no nonce keeps the run of        *)
(* nonces.                                                                  *)
LEMMA NoncesKept ==
    ASSUME PlTypes, NoncesKnown, NEW w \in Workers, Becomes(w, plReq'[w]),
           nonceLock' \in {nonceLock, NoWorker}, nonceLock' # w,
           UNCHANGED <<pool, accountNonce, nonceNext, blind>>
    PROVE  NoncesKnown'
BY PayLinkServiceAssumption DEF NoncesKnown, PoolRuns, NextNonce, Becomes

(* A transaction with the next nonce extends the run. *)
LEMMA RunExtended ==
    ASSUME PlTypes, PoolRuns, NEW t \in [kind : {"create", "cancel"}, pl : PlIds, nonce : Nat],
           t.nonce = NextNonce, pool' = pool \cup {t}, nonceNext' = t.nonce + 1,
           nonceLock' = NoWorker, UNCHANGED accountNonce
    PROVE  PoolRuns'
  <1>1. \A tx \in pool : tx.nonce \in Nat
    BY Zenon DEF PlTypes
  <1>2. NextNonce \in Nat /\ accountNonce \in Nat /\ nonceNext \in Nat /\ t.nonce \in Nat
    BY Zenon DEF PlTypes, NextNonce
  <1>3. \A tx \in pool : tx.nonce < nonceNext
    BY <1>1, Zenon DEF PoolRuns
  <1>4. \A tx \in pool : tx.nonce # t.nonce
    BY <1>1, <1>2, <1>3 DEF NextNonce
  <1>5. \A tx, other \in pool' : tx.nonce = other.nonce => tx = other
    BY <1>4, Zenon DEF PoolRuns
  <1>6. ASSUME NEW n \in Nat
        PROVE  (\E tx \in pool' : tx.nonce = n) <=> accountNonce <= n /\ n < t.nonce + 1
    <2>1. (\E tx \in pool' : tx.nonce = n) <=> (\E tx \in pool : tx.nonce = n) \/ n = t.nonce
      BY Zenon
    <2>2. (\E tx \in pool : tx.nonce = n) <=> accountNonce <= n /\ n < nonceNext
      BY Zenon DEF PoolRuns
    <2>3. t.nonce = NextNonce
      BY Zenon
    <2> QED BY <1>2, <2>1, <2>2, <2>3 DEF NextNonce
  <1> QED BY <1>5, <1>6, PayLinkServiceAssumption DEF PoolRuns

(* The execution of the first pending transaction shortens the run. *)
LEMMA RunShortened ==
    ASSUME PlTypes, PoolRuns, NEW t \in pool, t.nonce = accountNonce,
           pool' = pool \ {t}, accountNonce' = accountNonce + 1,
           UNCHANGED <<nonceNext, nonceLock, plReq>>
    PROVE  PoolRuns'
  <1>1. /\ \A tx \in pool : tx.nonce \in Nat
        /\ accountNonce \in Nat /\ nonceNext \in Nat
    BY Zenon DEF PlTypes
  <1>2. accountNonce < nonceNext
    BY <1>1, Zenon DEF PoolRuns
  <1>3. NextNonce' = NextNonce
    BY <1>1, <1>2 DEF NextNonce
  <1>4. \A tx \in pool : tx # t <=> tx.nonce # accountNonce
    BY Zenon DEF PoolRuns
  <1>5. ASSUME NEW n \in Nat
        PROVE  (\E tx \in pool' : tx.nonce = n) <=> accountNonce + 1 <= n /\ n < nonceNext
    <2>1. (\E tx \in pool' : tx.nonce = n) <=> (\E tx \in pool : tx.nonce = n) /\ n # accountNonce
      BY <1>4, Zenon
    <2>2. (\E tx \in pool : tx.nonce = n) <=> accountNonce <= n /\ n < nonceNext
      BY Zenon DEF PoolRuns
    <2> QED BY <1>1, <2>1, <2>2
  <1> QED BY <1>3, <1>5, Zenon DEF PoolRuns

(* The lock is free and nothing is pending at the start. *)
LEMMA NoncesInit ==
    ASSUME PayLinkInit
    PROVE  LockHeld /\ NoncesKnown
BY PayLinkServiceAssumption DEF PayLinkInit, LockHeld, NoncesKnown, PoolRuns, Free

(* Every step keeps the lock and, unless the service restarted blind, the   *)
(* run of nonces: reserve and submit run under one lock, and a restart      *)
(* loses the counter.                                                       *)
LEMMA NoncesNext ==
    ASSUME PlTypes, LockHeld, NoncesKnown, [PayLinkNext]_payLinkVars
    PROVE  LockHeld' /\ NoncesKnown'
  <1> DEFINE Goal == LockHeld' /\ NoncesKnown'
  <1>0. ASSUME NEW w \in Workers, Becomes(w, plReq'[w]), UNCHANGED <<nonceLock, pool, accountNonce, nonceNext, blind>>,
               ~(plReq[w].op \in {"create", "cancel"} /\ plReq[w].stage = "send"),
               plReq'[w].op \in {"create", "cancel"} => plReq'[w].stage # "send"
        PROVE  Goal
    BY <1>0, LockKept, NoncesKept, Zenon DEF LockHeld
  <1>00. ASSUME UNCHANGED <<plReq, nonceLock, pool, accountNonce, nonceNext, blind>>
         PROVE  Goal
    BY <1>00, Zenon DEF LockHeld, NoncesKnown, PoolRuns, NextNonce
  <1>1. ASSUME NEW w \in Workers, NEW k \in Keys, NEW b \in Bodies, BeginCreate(w, k, b)
        PROVE  Goal
    BY <1>1, <1>0, <1>00, CreateBegins DEF BeginCreate, plChain, Free
  <1>2. ASSUME NEW w \in Workers, NEW p \in PlIds, NEW slot \in {p, NoKey}, BeginCancel(w, p, slot)
        PROVE  Goal
    BY <1>2, <1>0, <1>00, CancelBegins DEF BeginCancel, plChain, plHistory, Free
  <1>3. ASSUME NEW w \in Workers, NEW p \in PlIds, ReadForGet(w, p)
        PROVE  Goal
    <2>1. UNCHANGED <<nonceLock, pool, accountNonce, nonceNext, blind>>
      BY <1>3, Zenon DEF ReadForGet, plChain, plHistory
    <2>2. Becomes(w, plReq'[w]) /\ plReq[w].op = "none" /\ plReq'[w].op = "get"
      BY <1>3, GetBegins DEF Free
    <2> QED BY Zenon, <1>0, <2>1, <2>2
  <1>4. ASSUME NEW w \in Workers, NEW decision, InsertRow(w, decision)
        PROVE  Goal
    <2>1. plReq[w].op = "create" /\ plReq[w].stage = "insert"
          /\ UNCHANGED <<nonceLock, pool, accountNonce, nonceNext, blind>>
      BY ZenonT(30), <1>4 DEF InsertRow, Serving, plChain, plHistory
    <2>2. GoOn(w, "reserve") \/ Answer(w)
      BY <1>4, Zenon DEF InsertRow, AnswerError
    <2>3. Becomes(w, plReq'[w]) /\ (plReq'[w].op = "none" \/ plReq'[w].stage = "reserve")
      BY <2>1, <2>2, GoesOn, Answers DEF CreateStages, Becomes, Free
    <2> QED BY <1>0, <2>1, <2>3, Zenon
  <1>5. ASSUME NEW w \in Workers, Reserve(w)
        PROVE  Goal
    <2>1. /\ plReq[w].op \in {"create", "cancel"} /\ plReq[w].stage = "reserve" /\ nonceLock = NoWorker
          /\ UNCHANGED <<pool, accountNonce, nonceNext, blind>>
      BY <1>5, Zenon DEF Reserve, plChain, plHistory
    <2>2. CASE Answer(w) /\ UNCHANGED nonceLock
      BY <1>0, <2>1, <2>2, Answers DEF Becomes, Free
    <2>3. CASE nonceLock' = w /\ plReq' = [plReq EXCEPT ![w].stage = "send", ![w].nonce = NextNonce]
      <3>0. NextNonce \in Nat
        BY Zenon DEF NextNonce, PlTypes
      <3>1. /\ Becomes(w, plReq'[w]) /\ plReq'[w].op = plReq[w].op /\ plReq'[w].stage = "send"
            /\ plReq'[w].nonce = NextNonce
        BY Zenon, <2>1, <2>3, <3>0, Reserves
      <3>2. LockHeld'
        BY <2>1, <2>3, <3>1, PayLinkServiceAssumption, Zenon DEF LockHeld, Becomes
      <3>3. NoncesKnown'
        BY ZenonT(30), <2>1, <2>3, <3>1 DEF NoncesKnown, PoolRuns, NextNonce
      <3> QED BY <3>2, <3>3, Zenon
    <2> QED BY <1>5, <2>2, <2>3, Zenon DEF Reserve, AnswerError
  <1>6. ASSUME NEW w \in Workers, SubmitTx(w)
        PROVE  Goal
    <2>1. /\ plReq[w].op \in {"create", "cancel"} /\ plReq[w].stage = "send"
          /\ nonceLock' = NoWorker /\ nonceLock = w /\ UNCHANGED accountNonce
      BY ZenonT(30), <1>6 DEF SubmitTx, LockHeld
    <2>2. GoOn(w, "write") \/ Answer(w)
      BY ZenonT(30), <1>6 DEF SubmitTx, SubmitRaised, AnswerError
    <2>3. Becomes(w, plReq'[w]) /\ (plReq'[w].op = "none" \/ plReq'[w].stage = "write")
      BY <2>1, <2>2, GoesOn, Answers DEF CreateStages, CancelStages, Becomes, Free
    <2>4. LockHeld'
      BY <2>1, <2>3, PayLinkServiceAssumption, Zenon DEF LockHeld, Becomes
    <2>5. CASE pool' = pool \cup {ChainTx(w)} /\ nonceNext' = plReq[w].nonce + 1 /\ UNCHANGED blind
      <3> DEFINE t == ChainTx(w)
      <3>1. t \in [kind : {"create", "cancel"}, pl : PlIds, nonce : Nat] /\ t.nonce = plReq[w].nonce
        BY ZenonT(30), <2>1, RequestKinds DEF ChainTx, CreateReqs, CancelReqs
      <3>2. ASSUME ~ blind PROVE PoolRuns'
        <4>1. PoolRuns /\ t.nonce = NextNonce
          BY ZenonT(30), <2>1, <3>1, <3>2 DEF NoncesKnown, PoolRuns
        <4>2. pool' = pool \cup {t} /\ nonceNext' = t.nonce + 1
          BY Zenon, <2>5, <3>1
        <4> HIDE DEF t
        <4> QED BY ZenonT(30), <2>1, <3>1, <4>1, <4>2, RunExtended
      <3> QED BY <2>4, <2>5, <3>2, Zenon DEF NoncesKnown
    <2>6. CASE blind' = TRUE
      BY <2>4, <2>6, Zenon DEF NoncesKnown
    <2>7. CASE UNCHANGED <<pool, nonceNext, blind>>
      BY <2>1, <2>3, <2>4, <2>7, NoncesKept, PayLinkServiceAssumption, Zenon
    <2> QED BY Zenon, <1>6, <2>5, <2>6, <2>7 DEF SubmitTx
  <1>7. ASSUME NEW w \in Workers, RecordPending(w)
        PROVE  Goal
    <2>1. plReq[w].op = "create" /\ plReq[w].stage = "write"
          /\ UNCHANGED <<nonceLock, pool, accountNonce, nonceNext, blind>>
      BY <1>7, Zenon DEF RecordPending, Serving, plChain
    <2>2. Becomes(w, plReq'[w]) /\ plReq'[w].stage = "complete"
      BY ZenonT(30), <1>7, <2>1, GoesOn DEF RecordPending, CreateStages
    <2> QED BY <1>0, <2>1, <2>2, Zenon
  <1>8. ASSUME NEW w \in Workers, CompleteCreate(w) \/ WriteCancelled(w) \/ WriteReconciled(w)
        PROVE  Goal
    <2>1. plReq[w].stage # "send" /\ Answer(w)
          /\ UNCHANGED <<nonceLock, pool, accountNonce, nonceNext, blind>>
      BY <1>8, Zenon DEF CompleteCreate, WriteCancelled, WriteReconciled, CompleteCancel, Serving, plChain, plHistory
    <2> QED BY <1>0, <2>1, Answers DEF Becomes, Free
  <1>9. ASSUME NEW w \in Workers, ReadForCancel(w)
        PROVE  Goal
    <2>1. plReq[w].op = "cancel" /\ plReq[w].stage = "read"
          /\ UNCHANGED <<nonceLock, pool, accountNonce, nonceNext, blind>>
      BY <1>9, Zenon DEF ReadForCancel, Serving, plChain, plHistory
    <2>2. GoOn(w, "reserve") \/ GoOn(w, "write") \/ Answer(w)
      BY <1>9, Zenon DEF ReadForCancel, AnswerError, CompleteCancel
    <2>3. Becomes(w, plReq'[w]) /\ (plReq'[w].op = "none" \/ plReq'[w].stage \in {"reserve", "write"})
      BY <2>1, <2>2, GoesOn, Answers DEF CancelStages, Becomes, Free
    <2> QED BY <1>0, <2>1, <2>3, Zenon
  <1>11. ASSUME NEW w \in Workers, AskChain(w)
         PROVE  Goal
    <2>1. /\ plReq[w].op = "get" /\ plReq[w] \in GetReqs
          /\ UNCHANGED <<nonceLock, pool, accountNonce, nonceNext, blind>>
      BY <1>11, RequestKinds, Zenon DEF AskChain, Serving, plChain, plHistory
    <2>2. ReconcileStatus(plReq[w].seen, chainStatus[plReq[w].pl], plReq[w].pl \in pastExpiry)
              \in OffChainStatus
      BY <2>1, ReconciledIsStatus, Zenon DEF GetReqs
    <2>3. Becomes(w, Free) \/ (Becomes(w, plReq'[w]) /\ plReq'[w].op = "get")
      BY <1>11, <2>1, <2>2, Reconciles, Answers, Zenon DEF AskChain
    <2> QED BY <1>0, <2>1, <2>3 DEF Becomes, Free
  <1>12. ASSUME NEW tx \in pool, ExecuteTx(tx)
         PROVE  Goal
    <2>1. UNCHANGED <<plReq, nonceLock, nonceNext>> /\ pool' = pool \ {tx}
      BY <1>12, Zenon DEF ExecuteTx, plMemory
    <2>2. LockHeld'
      BY <2>1, Zenon DEF LockHeld
    <2>3. CASE tx.nonce = accountNonce /\ accountNonce' = accountNonce + 1 /\ UNCHANGED blind
      BY <2>1, <2>2, <2>3, RunShortened, Zenon DEF NoncesKnown
    <2>4. CASE blind' = TRUE
      BY <2>2, <2>4, Zenon DEF NoncesKnown
    <2> QED BY ZenonT(30), <1>12, <2>3, <2>4 DEF ExecuteTx
  <1>13. ASSUME \/ \E p \in PlIds : ChainDecides(p) \/ ExpiryPasses(p)
                \/ \E slot \in Keys \cup PlIds : PayLinkKeyExpires(slot)
                \/ UNCHANGED payLinkVars
         PROVE  Goal
    BY Zenon, <1>13, <1>00 DEF ChainDecides, ExpiryPasses, PayLinkKeyExpires, payLinkVars, plMemory,
                        plChain, plHistory
  <1>14. ASSUME RestartPayLinkService
         PROVE  Goal
    <2>1. /\ plReq' = [w \in Workers |-> Free] /\ nonceLock' = NoWorker /\ nonceNext' = 0
          /\ blind' = (blind \/ pool # {}) /\ UNCHANGED <<pool, accountNonce>>
      BY <1>14, Zenon DEF RestartPayLinkService, plChain
    <2>2. LockHeld'
      BY <2>1, PayLinkServiceAssumption, Zenon DEF LockHeld, Free
    <2>3. ~ blind' => pool = {}
      BY <2>1, Zenon
    <2>4. ASSUME pool' = {} PROVE PoolRuns'
      <3>1. \A n \in Nat : ~ n < nonceNext'
        BY <2>1
      <3> QED BY <2>1, <2>4, <3>1, PayLinkServiceAssumption, Zenon DEF PoolRuns
    <2>5. NoncesKnown'
      BY <2>1, <2>3, <2>4, Zenon DEF NoncesKnown
    <2> QED BY <2>2, <2>5, Zenon
  <1> QED
    BY <1>1, <1>2, <1>3, <1>4, <1>5, <1>6, <1>7, <1>8, <1>9, <1>11, <1>12, <1>13, <1>14, Zenon
    DEF PayLinkNext, HandlePayLinkRequest

-----------------------------------------------------------------------------
(* Settlements.                                                            *)

(* What the chain reports as settled has a proof; a read works on a row     *)
(* that was not final, and carries a settlement only if there is a proof.   *)
ChainSettles ==
    /\ chainStatus = [p \in PlIds |-> chainStatus[p]]
    /\ chainProof \in [PlIds -> PlIds \cup {NoSettlement}]
    /\ \A p \in PlIds : chainStatus[p] = "VERIFIED" => chainProof[p] # NoSettlement

ReadsSettled ==
    \A w \in Workers : plReq[w].op = "get" =>
        /\ plReq[w].seen \notin TERMINAL
        /\ plReq[w].new = "VERIFIED" => chainProof[plReq[w].pl] # NoSettlement

(* The chain never takes a settlement back. *)
LEMMA ChainNext ==
    ASSUME ChainSettles, [PayLinkNext]_payLinkVars
    PROVE  ChainSettles' /\ \A p \in PlIds : chainProof[p] # NoSettlement => chainProof'[p] # NoSettlement
  <1> DEFINE Goal == /\ ChainSettles'
                     /\ \A p \in PlIds : chainProof[p] # NoSettlement => chainProof'[p] # NoSettlement
  <1>1. CASE UNCHANGED <<chainStatus, chainProof>>
    BY <1>1, Zenon DEF ChainSettles
  <1>2. ASSUME NEW p, Chain!Create(p) \/ Chain!Cancel(p) \/ Chain!Fail(p) PROVE Goal
    BY <1>2, Zenon DEF Chain!Create, Chain!Cancel, Chain!Fail, ChainSettles
  <1>3. ASSUME NEW p \in PlIds, Chain!Settle(p, p) PROVE Goal
    BY <1>3, IdsAreOther, Zenon DEF Chain!Settle, ChainSettles
  <1>4. ASSUME NEW tx \in pool, ExecuteTx(tx) PROVE Goal
    BY <1>4, <1>1, <1>2, Zenon DEF ExecuteTx
  <1>5. ASSUME NEW p \in PlIds, ChainDecides(p) PROVE Goal
    BY ZenonT(30), <1>5, <1>2, <1>3 DEF ChainDecides
  <1>6. ASSUME NEW w \in Workers, HandlePayLinkRequest(w) PROVE Goal
    BY Zenon, <1>6, <1>1 DEF HandlePayLinkRequest, InsertRow, Reserve, SubmitTx, RecordPending, CompleteCreate,
       ReadForCancel, WriteCancelled, AskChain, WriteReconciled, plChain
  <1>7. ASSUME NEW w \in Workers, NEW k \in Keys, NEW b \in Bodies, BeginCreate(w, k, b) PROVE Goal
    BY <1>7, <1>1, Zenon DEF BeginCreate, plChain
  <1>8. ASSUME NEW w \in Workers, NEW p \in PlIds, NEW slot, BeginCancel(w, p, slot) PROVE Goal
    BY <1>8, <1>1, Zenon DEF BeginCancel, plChain
  <1>9. ASSUME NEW w \in Workers, NEW p \in PlIds, ReadForGet(w, p) PROVE Goal
    BY <1>9, <1>1, Zenon DEF ReadForGet, plChain
  <1>10. ASSUME \/ \E p \in PlIds : ExpiryPasses(p)
                \/ \E slot \in Keys \cup PlIds : PayLinkKeyExpires(slot)
                \/ RestartPayLinkService
                \/ UNCHANGED payLinkVars
         PROVE  Goal
    BY ZenonT(30), <1>10, <1>1 DEF ExpiryPasses, PayLinkKeyExpires, RestartPayLinkService, payLinkVars, plChain
  <1> QED BY ZenonT(30), <1>4, <1>5, <1>6, <1>7, <1>8, <1>9, <1>10 DEF PayLinkNext

(* Nothing is settled at the start. *)
LEMMA SettledInit ==
    ASSUME PayLinkInit
    PROVE  ChainSettles /\ ReadsSettled /\ VerifiedOnlyByChain
BY Zenon DEF PayLinkInit, ChainSettles, ReadsSettled, VerifiedOnlyByChain, Chain!Init, Free, NoRow

(* A status that a read takes over as settled is the chain's. *)
LEMMA SettlementFromChain ==
    ASSUME NEW local, local \notin TERMINAL, NEW onChain, NEW expired,
           ReconcileStatus(local, onChain, expired) = "VERIFIED"
    PROVE  onChain = "VERIFIED"
BY Zenon DEF ReconcileStatus, TERMINAL

(* A step of another kind of request leaves what the gets have read. *)
LEMMA ReadsKept ==
    ASSUME PlTypes, ReadsSettled, NEW w \in Workers, Becomes(w, plReq'[w]), plReq'[w].op # "get",
           \A p \in PlIds : chainProof[p] # NoSettlement => chainProof'[p] # NoSettlement
    PROVE  ReadsSettled'
  <1>1. \A v \in Workers : plReq[v].op = "get" => plReq[v].pl \in PlIds
    BY RequestPayLink, Zenon
  <1> QED BY <1>1 DEF ReadsSettled, Becomes

(* Every step keeps it: the chain never takes a settlement back. *)
LEMMA ReadsNext ==
    ASSUME PlTypes, ChainSettles, ReadsSettled, [PayLinkNext]_payLinkVars
    PROVE  ReadsSettled'
  <1>0. \A p \in PlIds : chainProof[p] # NoSettlement => chainProof'[p] # NoSettlement
    BY ChainNext, Zenon
  <1>00. \A v \in Workers : plReq[v].op = "get" => plReq[v].pl \in PlIds
    BY RequestPayLink, Zenon
  <1>1. ASSUME NEW w \in Workers, NEW k \in Keys, NEW b \in Bodies, BeginCreate(w, k, b)
        PROVE  ReadsSettled'
    <2>1. UNCHANGED plReq \/ (Becomes(w, plReq'[w]) /\ plReq'[w].op = "create")
      BY <1>1, CreateBegins, Zenon
    <2> QED BY <1>0, <1>00, <2>1, ReadsKept, Zenon DEF ReadsSettled
  <1>2. ASSUME NEW w \in Workers, NEW p \in PlIds, NEW slot \in {p, NoKey}, BeginCancel(w, p, slot)
        PROVE  ReadsSettled'
    <2>1. UNCHANGED plReq \/ (Becomes(w, plReq'[w]) /\ plReq'[w].op = "cancel")
      BY <1>2, CancelBegins
    <2> QED BY <1>0, <1>00, <2>1, ReadsKept, Zenon DEF ReadsSettled
  <1>3. ASSUME NEW w \in Workers, NEW p \in PlIds, ReadForGet(w, p)
        PROVE  ReadsSettled'
    <2>1. /\ Becomes(w, plReq'[w]) /\ plRow[p].status \notin TERMINAL
          /\ plReq'[w].seen = plRow[p].status /\ plReq'[w].new = plRow[p].status
      <3> DEFINE r == [op |-> "get", stage |-> "chain", slot |-> NoKey, pl |-> p,
                       seen |-> plRow[p].status, new |-> plRow[p].status]
      <3>1. plReq'[w] = r
        BY <1>3, Zenon DEF ReadForGet, PlTypes
      <3>a. r.seen = plRow[p].status /\ r.new = plRow[p].status
        OBVIOUS
      <3> HIDE DEF r
      <3>2. plReq'[w].seen = plRow[p].status /\ plReq'[w].new = plRow[p].status
        BY <3>1, <3>a, Zenon
      <3>3. plRow[p].status \notin TERMINAL
        BY <1>3, Zenon DEF ReadForGet
      <3> QED BY <1>3, <3>2, <3>3, GetBegins, Zenon
    <2>2. plReq'[w].new # "VERIFIED"
      BY <2>1, Zenon DEF TERMINAL
    <2> QED BY <1>0, <1>00, <2>1, <2>2 DEF ReadsSettled, Becomes
  <1>4. ASSUME NEW w \in Workers, NEW decision, InsertRow(w, decision)
        PROVE  ReadsSettled'
    <2>1. plReq[w].op = "create" /\ (GoOn(w, "reserve") \/ Answer(w))
      BY ZenonT(30), <1>4 DEF InsertRow, AnswerError, Serving
    <2>2. Becomes(w, plReq'[w]) /\ plReq'[w].op # "get"
      BY <2>1, GoesOn, Answers DEF CreateStages, Becomes, Free
    <2> QED BY ZenonT(30), <1>0, <2>2, ReadsKept
  <1>5. ASSUME NEW w \in Workers, Reserve(w)
        PROVE  ReadsSettled'
    <2>1. /\ plReq[w].op \in {"create", "cancel"}
          /\ Answer(w) \/ plReq' = [plReq EXCEPT ![w].stage = "send", ![w].nonce = NextNonce]
      BY <1>5, Zenon DEF Reserve, AnswerError
    <2>2. NextNonce \in Nat
      BY Zenon DEF NextNonce, PlTypes
    <2>3. Becomes(w, plReq'[w]) /\ plReq'[w].op # "get"
      BY <2>1, <2>2, Reserves, Answers DEF Becomes, Free
    <2> QED BY <1>0, <2>3, ReadsKept, Zenon
  <1>6. ASSUME NEW w \in Workers, SubmitTx(w) \/ RecordPending(w)
        PROVE  ReadsSettled'
    <2>1. \/ plReq[w].op = "create" /\ GoOn(w, "complete")
          \/ plReq[w].op \in {"create", "cancel"} /\ GoOn(w, "write")
          \/ Answer(w)
      BY ZenonT(30), <1>6 DEF SubmitTx, RecordPending, SubmitRaised, AnswerError, Serving
    <2>2. Becomes(w, plReq'[w]) /\ plReq'[w].op # "get"
      BY <2>1, GoesOn, Answers DEF CreateStages, CancelStages, Becomes, Free
    <2> QED BY <1>0, <2>2, ReadsKept, Zenon
  <1>7. ASSUME NEW w \in Workers, CompleteCreate(w) \/ WriteCancelled(w) \/ WriteReconciled(w)
        PROVE  ReadsSettled'
    <2>1. Becomes(w, plReq'[w]) /\ plReq'[w].op # "get"
      BY <1>7, Answers DEF CompleteCreate, WriteCancelled, WriteReconciled, CompleteCancel, Becomes, Free
    <2> QED BY <1>0, <2>1, ReadsKept, Zenon
  <1>8. ASSUME NEW w \in Workers, ReadForCancel(w)
        PROVE  ReadsSettled'
    <2>1. plReq[w].op = "cancel" /\ (GoOn(w, "reserve") \/ GoOn(w, "write") \/ Answer(w))
      BY <1>8, Zenon DEF ReadForCancel, AnswerError, CompleteCancel, Serving
    <2>2. Becomes(w, plReq'[w]) /\ plReq'[w].op # "get"
      BY <2>1, GoesOn, Answers DEF CancelStages, Becomes, Free
    <2> QED BY <1>0, <2>2, ReadsKept, Zenon
  <1>9. ASSUME NEW w \in Workers, AskChain(w)
        PROVE  ReadsSettled'
    <2>1. plReq[w].op = "get" /\ plReq[w] \in GetReqs /\ plReq[w].pl \in PlIds /\ UNCHANGED chainProof
      BY <1>9, RequestKinds, Zenon DEF AskChain, Serving, GetReqs, plChain
    <2>2. PICK new \in OffChainStatus :
             new = ReconcileStatus(plReq[w].seen, chainStatus[plReq[w].pl], plReq[w].pl \in pastExpiry)
      BY Zenon, <2>1, ReconciledIsStatus DEF GetReqs
    <2>3. CASE Answer(w)
      <3>1. Becomes(w, plReq'[w]) /\ plReq'[w].op # "get"
        BY <2>3, Answers DEF Becomes, Free
      <3> QED BY <1>0, <3>1, ReadsKept, Zenon
    <2>4. CASE plReq' = [plReq EXCEPT ![w].stage = "write", ![w].new = new]
      <3>1. /\ Becomes(w, plReq'[w]) /\ plReq'[w].new = new
            /\ plReq'[w].pl = plReq[w].pl /\ plReq'[w].seen = plReq[w].seen
        BY ZenonT(30), <2>1, <2>2, <2>4, Reconciles
      <3>2. plReq[w].seen \notin TERMINAL
        BY <2>1, Zenon DEF ReadsSettled
      <3>3. new = "VERIFIED" => chainProof[plReq[w].pl] # NoSettlement
        BY <2>1, <2>2, <3>2, SettlementFromChain, Zenon DEF ChainSettles
      <3> QED BY <2>1, <3>1, <3>2, <3>3 DEF ReadsSettled, Becomes
    <2> QED BY <1>9, <2>2, <2>3, <2>4, Zenon DEF AskChain
  <1>10. ASSUME \/ \E tx \in pool : ExecuteTx(tx)
                \/ \E p \in PlIds : ChainDecides(p) \/ ExpiryPasses(p)
                \/ \E slot \in Keys \cup PlIds : PayLinkKeyExpires(slot)
                \/ UNCHANGED payLinkVars
         PROVE  ReadsSettled'
    <2>1. UNCHANGED plReq
      BY ZenonT(30), <1>10 DEF ExecuteTx, ChainDecides, ExpiryPasses, PayLinkKeyExpires, payLinkVars, plMemory
    <2> QED BY <1>0, <1>00, <2>1, Zenon DEF ReadsSettled
  <1>11. ASSUME RestartPayLinkService
         PROVE  ReadsSettled'
    BY ZenonT(30), <1>11 DEF RestartPayLinkService, ReadsSettled, Free
  <1> QED
    BY <1>1, <1>2, <1>3, <1>4, <1>5, <1>6, <1>7, <1>8, <1>9, <1>10, <1>11, Zenon
    DEF PayLinkNext, HandlePayLinkRequest

(* Rows change only where a request writes them. *)
LEMMA RowsWritten ==
    ASSUME PlTypes, MintRows, [PayLinkNext]_payLinkVars, NEW p \in PlIds, plRow'[p] # plRow[p]
    PROVE  \/ plRow[p] = NoRow /\ plRow'[p].status = "CREATED"
           \/ plRow'[p].status = "CANCELLED"
           \/ \E w \in Workers :
                 /\ plReq[w].stage = "write" /\ plReq[w].pl = p
                 /\ \/ plReq[w].op = "create" /\ plRow'[p].status = "PENDING"
                    \/ plReq[w].op = "get" /\ plRow'[p].status = plReq[w].new
  <1> DEFINE Goal == \/ plRow[p] = NoRow /\ plRow'[p].status = "CREATED"
                     \/ plRow'[p].status = "CANCELLED"
                     \/ \E w \in Workers :
                           /\ plReq[w].stage = "write" /\ plReq[w].pl = p
                           /\ \/ plReq[w].op = "create" /\ plRow'[p].status = "PENDING"
                              \/ plReq[w].op = "get" /\ plRow'[p].status = plReq[w].new
  <1>1. ASSUME UNCHANGED plRow PROVE Goal
    BY <1>1, Zenon
  <1>2. ASSUME NEW w \in Workers, NEW decision, InsertRow(w, decision) PROVE Goal
    <2>1. PICK q \in PlIds : q = plReq[w].pl
      BY ZenonT(30), <1>2, RequestPayLink DEF InsertRow, Serving
    <2>2. UNCHANGED plRow \/ (plRow[q] = NoRow /\ plRow' = [plRow EXCEPT ![q] = [status |-> "CREATED", submitted |-> FALSE]])
      BY <1>2, <2>1, Zenon DEF InsertRow, KeyIsFree
    <2>3. CASE plRow[q] = NoRow /\ plRow' = [plRow EXCEPT ![q] = [status |-> "CREATED", submitted |-> FALSE]]
      <3>1. plRow'[q] = [status |-> "CREATED", submitted |-> FALSE] /\ \A o \in PlIds \ {q} : plRow'[o] = plRow[o]
        BY <2>3, RowReplaced, WrittenRows, Zenon
      <3>2. plRow'[q].status = "CREATED"
        BY <3>1
      <3> QED BY ZenonT(30), <2>3, <3>1, <3>2
    <2> QED BY ZenonT(30), <1>1, <2>2, <2>3
  <1>3. ASSUME NEW w \in Workers, RecordPending(w) PROVE Goal
    <2>1. PICK q \in PlIds : q = plReq[w].pl
      BY ZenonT(30), <1>3, RequestPayLink DEF RecordPending, Serving
    <2>2. plRow' = [plRow EXCEPT ![q] = [status |-> "PENDING", submitted |-> TRUE]]
      BY <1>3, <2>1, Zenon DEF RecordPending
    <2>3. plRow'[q] = [status |-> "PENDING", submitted |-> TRUE] /\ \A o \in PlIds \ {q} : plRow'[o] = plRow[o]
      BY <2>2, RowReplaced, WrittenRows, Zenon
    <2>4. plRow'[q].status = "PENDING"
      BY <2>3
    <2>5. plReq[w].op = "create" /\ plReq[w].stage = "write"
      BY <1>3, Zenon DEF RecordPending, Serving
    <2> QED BY <2>1, <2>3, <2>4, <2>5, Zenon
  <1>4. ASSUME NEW w \in Workers, WriteCancelled(w) PROVE Goal
    <2>1. PICK q \in PlIds : q = plReq[w].pl
      BY <1>4, RequestPayLink, Zenon DEF WriteCancelled, Serving
    <2>2. plRow' = [plRow EXCEPT ![q].status = "CANCELLED"] /\ "CANCELLED" \in OffChainStatus
      BY <1>4, <2>1, Zenon DEF WriteCancelled, OffChainStatus
    <2>3. plRow'[q].status = "CANCELLED" /\ \A o \in PlIds \ {q} : plRow'[o] = plRow[o]
      BY <2>2, StatusWritten
    <2> QED BY <2>3, Zenon
  <1>5. ASSUME NEW w \in Workers, WriteReconciled(w) PROVE Goal
    <2>1. PICK q \in PlIds : q = plReq[w].pl
      BY <1>5, RequestPayLink, Zenon DEF WriteReconciled, Serving
    <2>2. /\ plReq[w].op = "get" /\ plReq[w].stage = "write" /\ plReq[w].new \in OffChainStatus
          /\ plRow' = [plRow EXCEPT ![q].status = plReq[w].new]
      BY <1>5, <2>1, RequestKinds, Zenon DEF WriteReconciled, Serving, GetReqs
    <2>3. plRow'[q].status = plReq[w].new /\ \A o \in PlIds \ {q} : plRow'[o] = plRow[o]
      BY <2>2, StatusWritten
    <2> QED BY <2>1, <2>2, <2>3, Zenon
  <1>6. ASSUME NEW w \in Workers,
               \/ Reserve(w) \/ SubmitTx(w) \/ CompleteCreate(w) \/ ReadForCancel(w) \/ AskChain(w)
               \/ \E k \in Keys, b \in Bodies : BeginCreate(w, k, b)
               \/ \E q \in PlIds : BeginCancel(w, q, q) \/ BeginCancel(w, q, NoKey) \/ ReadForGet(w, q)
        PROVE Goal
    BY ZenonT(30), <1>1, <1>6 DEF Reserve, SubmitTx, CompleteCreate, ReadForCancel, AskChain, BeginCreate, BeginCancel,
       ReadForGet, plTables
  <1>7. ASSUME \/ \E tx \in pool : ExecuteTx(tx)
               \/ \E q \in PlIds : ChainDecides(q) \/ ExpiryPasses(q)
               \/ \E slot \in Keys \cup PlIds : PayLinkKeyExpires(slot)
               \/ RestartPayLinkService \/ UNCHANGED payLinkVars
        PROVE  Goal
    BY ZenonT(30), <1>1, <1>7 DEF ExecuteTx, ChainDecides, ExpiryPasses, PayLinkKeyExpires, RestartPayLinkService,
       payLinkVars, plTables
  <1> QED BY ZenonT(30), <1>2, <1>3, <1>4, <1>5, <1>6, <1>7 DEF PayLinkNext, HandlePayLinkRequest

(* A row becomes VERIFIED only by a get that read a settlement. *)
LEMMA VerifiedNext ==
    ASSUME PlTypes, MintRows, ChainSettles, ReadsSettled, VerifiedOnlyByChain, [PayLinkNext]_payLinkVars
    PROVE  VerifiedOnlyByChain'
  <1> SUFFICES ASSUME NEW p \in PlIds, plRow'[p].status = "VERIFIED"
               PROVE  chainProof'[p] # NoSettlement
    BY Zenon DEF VerifiedOnlyByChain
  <1>1. chainProof[p] # NoSettlement => chainProof'[p] # NoSettlement
    BY ChainNext, Zenon
  <1>2. CASE plRow'[p] = plRow[p]
    BY <1>1, <1>2, Zenon DEF VerifiedOnlyByChain
  <1>3. CASE plRow'[p] # plRow[p]
    <2>1. PICK w \in Workers : plReq[w].op = "get" /\ plReq[w].pl = p /\ plReq[w].new = "VERIFIED"
      BY <1>3, RowsWritten
    <2> QED BY <1>1, <2>1, Zenon DEF ReadsSettled
  <1> QED BY <1>2, <1>3, Zenon

(* A cancelled row is written over only by a request that had not seen the  *)
(* cancellation.                                                            *)
LEMMA CancelledOverwritten ==
    ASSUME PlTypes, MintRows, ReadsSettled, [PayLinkNext]_payLinkVars, NEW p \in PlIds,
           plRow[p].status = "CANCELLED", plRow'[p].status # "CANCELLED"
    PROVE  \E w \in Workers :
               /\ plReq[w].op \in {"create", "get"} /\ plReq[w].stage = "write"
               /\ plReq[w].pl = p
               /\ plReq[w].op = "get" => plReq[w].seen # "CANCELLED"
  <1>1. plRow'[p] # plRow[p] /\ plRow[p] # NoRow
    BY DEF NoRow
  <1>2. PICK w \in Workers : plReq[w].stage = "write" /\ plReq[w].pl = p /\ plReq[w].op \in {"create", "get"}
    BY <1>1, RowsWritten
  <1>3. plReq[w].op = "get" => plReq[w].seen # "CANCELLED"
    BY Zenon DEF ReadsSettled, TERMINAL
  <1> QED BY <1>2, <1>3, Zenon

-----------------------------------------------------------------------------
(* The theorems.                                                           *)

(* The inductive invariant. *)
PlInv ==
    /\ MintInv
    /\ LockHeld /\ NoncesKnown
    /\ ChainSettles /\ ReadsSettled /\ VerifiedOnlyByChain

(* The start of the service satisfies the invariant. *)
LEMMA InvInit == PayLinkInit => PlInv
BY MintInvInit, TypesInit, NoncesInit, SettledInit, Zenon DEF PlInv

(* Every step keeps it. *)
LEMMA InvNext == PlInv /\ [PayLinkNext]_payLinkVars => PlInv'
BY MintInvNext, NoncesNext, ChainNext, ReadsNext, VerifiedNext, Zenon DEF PlInv, MintInv

(* The invariants of MintsOnce follow. *)
LEMMA InvMintsOnce ==
    PlInv => /\ PayLinkTypeOK /\ VerifiedOnlyByChain
             /\ CreateSentOnce /\ NoncesAligned /\ OneAnswerPerKey
  <1> SUFFICES ASSUME PlInv
               PROVE  /\ PayLinkTypeOK /\ VerifiedOnlyByChain
                      /\ CreateSentOnce /\ NoncesAligned /\ OneAnswerPerKey
    BY Zenon
  <1>1. PayLinkTypeOK
    <2>1. nonceLock # NoWorker => plReq[nonceLock].op # "none" /\ plReq[nonceLock].stage = "send"
      BY Zenon DEF PlInv, MintInv, LockHeld, PlTypes
    <2> QED BY <2>1, Zenon DEF PlInv, MintInv, PlTypes, PayLinkTypeOK
  <1>2. NoncesAligned
    <2>1. \A tx \in pool : tx.nonce \in Nat
      BY Zenon DEF PlInv, MintInv, PlTypes
    <2>2. accountNonce \in Nat /\ nonceNext \in Nat
      BY Zenon DEF PlInv, MintInv, PlTypes
    <2>3. ASSUME PoolRuns
          PROVE  {tx.nonce : tx \in pool} = {n \in 0..(nonceNext - 1) : n >= accountNonce}
      <3>1. \A n \in Nat : n \in {tx.nonce : tx \in pool} <=> n \in {m \in 0..(nonceNext - 1) : m >= accountNonce}
        <4> TAKE n \in Nat
        <4>1. n \in {tx.nonce : tx \in pool} <=> accountNonce <= n /\ n < nonceNext
          BY <2>3, Zenon DEF PoolRuns
        <4> QED BY <2>2, <4>1
      <3>2. {tx.nonce : tx \in pool} \subseteq Nat
        BY <2>1, Zenon
      <3>3. {m \in 0..(nonceNext - 1) : m >= accountNonce} \subseteq Nat
        OBVIOUS
      <3> QED BY <3>1, <3>2, <3>3, Zenon
    <2> QED BY <2>3, Zenon DEF PlInv, NoncesKnown, PoolRuns, NoncesAligned
  <1>3. OneAnswerPerKey
    BY DEF PlInv, MintInv, KeyRecords, OneAnswerPerKey
  <1> QED BY <1>1, <1>2, <1>3, Zenon DEF PlInv, MintInv, CreatesSent

(* MintsOnce: over retries, lost answers, expired keys and restarts, for    *)
(* any number of workers, keys and mishaps, a create is accepted by the     *)
(* chain once and answered with one PayLink, nonces run without collision   *)
(* or gap, and stale requests write no settlement of their own.             *)
THEOREM MintsOnceAlways == PayLinkSpec => MintsOnce
  <1>1. PlInv /\ [PayLinkNext]_payLinkVars =>
            [\A p \in PlIds :
                plRow[p].status = "CANCELLED" /\ plRow'[p].status # "CANCELLED" =>
                    \E w \in Workers :
                        /\ plReq[w].op \in {"create", "get"} /\ plReq[w].stage = "write"
                        /\ plReq[w].pl = p
                        /\ plReq[w].op = "get" => plReq[w].seen # "CANCELLED"]_payLinkVars
    BY CancelledOverwritten, Zenon DEF PlInv, MintInv
  <1> QED BY InvInit, InvNext, InvMintsOnce, <1>1, PTL DEF PayLinkSpec, MintsOnce, CancelledOnlyOverwritten
==============================================================================
