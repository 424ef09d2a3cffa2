--------------------------- MODULE AccountProofs ---------------------------
(***************************************************************************)
(* The users and organizations of identity-service, the KYC tiers, the     *)
(* merchants and the fees quoted to them, for any number of workers, users,*)
(* emails, keys, documents, callbacks, rates, tiers and events.            *)
(***************************************************************************)
EXTENDS IdentityAccounts, Organizations, Kyc, MerchantOnboarding, FeeQuotes,
        TLAPS

-----------------------------------------------------------------------------
(* IdentityAccounts: the inductive invariant.                               *)

AnyEmail == Emails \cup {NoEmail}
UserRow == [email : AnyEmail, password : BOOLEAN, present : BOOLEAN]

RegisterRequest ==
    [op : {"register"}, stage : {"check", "insert", "complete"}, key : RegisterKeys, email : Emails]

AccRequest ==
    {AccFree} \cup RegisterRequest
        \cup [op : {"oauth"}, subject : Subjects, email : AnyEmail]
        \cup [op : {"update"}, user : UserIds, email : Emails]

AccTypes ==
    /\ users \in [UserIds -> UserRow]
    /\ links \in [Subjects -> UserIds \cup {0}]
    /\ accReq \in [AccountWorkers -> AccRequest]
    /\ DOMAIN regKeys = RegisterKeys /\ DOMAIN madeBy = RegisterKeys

(* Users are numbered as they come, and a row that is not there is empty. *)
UsersInOrder ==
    /\ \E n \in 0..MaxUsers : {u \in UserIds : users[u].present} = 1..n
    /\ \A u \in UserIds : ~ users[u].present => users[u].email = NoEmail
    /\ \A w \in AccountWorkers : accReq[w].op = "update" => users[accReq[w].user].present

(* Links lead to users, and a user without a password has exactly one. *)
LinksLead ==
    /\ \A s \in Subjects : links[s] # 0 => users[links[s]].present
    /\ \A u \in UserIds : users[u].present /\ ~ users[u].password =>
           \E s \in Subjects : {t \in Subjects : links[t] = u} = {s}

Registers(w, k) == accReq[w].op = "register" /\ accReq[w].key = k

(* A key whose record and request were not lost has one request at a time,  *)
(* whose record is pending, and no user before that request inserts one.    *)
KeyRegisters(k) ==
    /\ regKeys[k].state = "free" => madeBy[k] = {} /\ \A w \in AccountWorkers : ~ Registers(w, k)
    /\ regKeys[k].state = "pending" => \E w \in AccountWorkers : Registers(w, k)
    /\ \A v, w \in AccountWorkers : Registers(v, k) /\ Registers(w, k) => v = w
    /\ \A w \in AccountWorkers : Registers(w, k) /\ accReq[w].stage # "complete" => madeBy[k] = {}

KeysRegister == \A k \in RegisterKeys \ disowned : KeyRegisters(k)

AccInv ==
    /\ AccTypes /\ UsersInOrder /\ EmailsUnique /\ LinksLead /\ KeysRegister
    /\ RetryNotRefused

(* A worker without a request serves no operation. *)
LEMMA AccFreeIs == AccFree.op = "none"
BY Zenon DEF AccFree

(* No user, no link and free keys at the start. *)
LEMMA AccInitInv == AccountInit => AccInv
  <1> SUFFICES ASSUME AccountInit PROVE AccInv
    BY Zenon
  <1> USE IdentityAccountsAssumption
  <1>0. /\ \A u \in UserIds : users[u] = NoUser
        /\ \A s \in Subjects : links[s] = 0
        /\ \A w \in AccountWorkers : accReq[w] = AccFree
    BY Zenon DEF AccountInit
  <1>00. NoUser \in UserRow /\ NoUser.email = NoEmail /\ ~ NoUser.present
    BY Zenon DEF NoUser, UserRow, AnyEmail
  <1>1. AccTypes
    BY <1>00, Zenon DEF AccountInit, AccTypes, AccRequest
  <1>2. UsersInOrder
    <2>1. {u \in UserIds : users[u].present} = 1..0 /\ 0 \in 0..MaxUsers
      BY <1>0, <1>00
    <2> QED BY <1>0, <1>00, <2>1, AccFreeIs, Zenon DEF UsersInOrder
  <1>3. EmailsUnique /\ LinksLead
    BY <1>0, <1>00, Zenon DEF EmailsUnique, LinksLead
  <1>4. KeysRegister
    BY <1>0, AccFreeIs, Zenon DEF AccountInit, KeysRegister, KeyRegisters, Registers, FreeKey
  <1>5. RetryNotRefused
    BY Zenon DEF AccountInit, RetryNotRefused
  <1> QED BY <1>1, <1>2, <1>3, <1>4, <1>5, Zenon DEF AccInv

(* A request takes its slot, moves on, or frees the slot. *)
LEMMA AccSlot ==
  ASSUME AccTypes, NEW w \in AccountWorkers, NEW r, accReq' = [accReq EXCEPT ![w] = r]
  PROVE  accReq'[w] = r /\ \A v \in AccountWorkers \ {w} : accReq'[v] = accReq[v]
BY Zenon DEF AccTypes

(* The next user id is not taken, and taking it keeps the order. *)
LEMMA NextUserFree ==
  ASSUME AccTypes, UsersInOrder, NextUser \in UserIds
  PROVE  /\ ~ users[NextUser].present
         /\ \E n \in 0..MaxUsers : {u \in UserIds : users[u].present} \cup {NextUser} = 1..n
  <1>1. PICK n \in 0..MaxUsers : {u \in UserIds : users[u].present} = 1..n
    BY Zenon DEF UsersInOrder
  <1>2. n + 1 \in 1..(MaxUsers + 1) /\ \A u \in UserIds : users[u].present <=> u < n + 1
    BY <1>1, IdentityAccountsAssumption DEF UserIds
  <1>20. NextUser \in 1..(MaxUsers + 1) /\ \A u \in UserIds : users[u].present <=> u < NextUser
    BY <1>2, Zenon DEF NextUser
  <1>3. NextUser = n + 1
    <2>1. NextUser <= n + 1
      BY <1>1, <1>2, <1>20, IdentityAccountsAssumption DEF UserIds
    <2>2. NextUser >= n + 1
      BY <1>1, <1>2, <1>20, IdentityAccountsAssumption DEF UserIds
    <2> QED BY <1>1, <1>20, <2>1, <2>2
  <1>4. n + 1 \in 0..MaxUsers /\ n + 1 \notin 1..n /\ 1..n \cup {n + 1} = 1..(n + 1)
    BY <1>3, IdentityAccountsAssumption DEF UserIds
  <1> QED BY <1>1, <1>3, <1>4, Zenon

(* A step that writes no user, link or key. *)
LEMMA AccSlotKeeps ==
  ASSUME AccInv, UNCHANGED <<users, links, regKeys, madeBy, disowned, selfRefused>>,
         NEW w \in AccountWorkers, NEW r \in AccRequest, accReq' = [accReq EXCEPT ![w] = r],
         accReq[w].op # "register", r.op # "register",
         r.op = "update" => users[r.user].present
  PROVE  AccInv'
  <1>0. AccTypes /\ UsersInOrder /\ EmailsUnique /\ LinksLead /\ KeysRegister /\ RetryNotRefused
    BY Zenon DEF AccInv
  <1>1. accReq'[w] = r /\ \A v \in AccountWorkers \ {w} : accReq'[v] = accReq[v]
    BY <1>0, AccSlot, Zenon
  <1>2. AccTypes'
    BY <1>0, Zenon DEF AccTypes, AccRequest
  <1>3. UsersInOrder' /\ EmailsUnique' /\ LinksLead'
    BY <1>0, <1>1 DEF UsersInOrder, EmailsUnique, LinksLead
  <1>4. KeysRegister'
    <2> SUFFICES ASSUME NEW k \in RegisterKeys \ disowned PROVE KeyRegisters(k)'
      BY Zenon DEF KeysRegister
    <2>1. \A v \in AccountWorkers : (Registers(v, k)' <=> Registers(v, k)) /\ (Registers(v, k) => accReq'[v] = accReq[v])
      BY <1>1, Zenon DEF Registers
    <2>2. KeyRegisters(k)
      BY <1>0, Zenon DEF KeysRegister
    <2> QED BY <2>1, <2>2 DEF KeyRegisters
  <1> QED BY <1>0, <1>2, <1>3, <1>4, Zenon DEF AccInv, RetryNotRefused

(* A user is added, with an email that the index allows. *)
LEMMA UserAdded ==
  ASSUME AccTypes, UsersInOrder, EmailsUnique, NextUser \in UserIds, NEW e \in AnyEmail, NEW pwd \in BOOLEAN,
         EmailIndexAllows(e), users' = [users EXCEPT ![NextUser] = NewUser(e, pwd)],
         \A w \in AccountWorkers : accReq'[w].op = "update" => accReq'[w] = accReq[w]
  PROVE  /\ users' \in [UserIds -> UserRow] /\ UsersInOrder' /\ EmailsUnique'
         /\ users'[NextUser].present /\ users'[NextUser].password = pwd
         /\ \A u \in UserIds \ {NextUser} : users'[u] = users[u]
  <1> DEFINE x == NextUser
             row == NewUser(e, pwd)
  <1>1. row \in UserRow /\ row.email = e /\ row.password = pwd /\ row.present
    BY Zenon DEF NewUser, UserRow
  <1>2. users' = [users EXCEPT ![x] = row] /\ x \in UserIds
    BY Zenon
  <1>3. /\ ~ users[x].present
        /\ \E n \in 0..MaxUsers : {u \in UserIds : users[u].present} \cup {x} = 1..n
    BY NextUserFree, Zenon
  <1> HIDE DEF x, row
  <1>4. users'[x] = row /\ \A u \in UserIds \ {x} : users'[u] = users[u]
    BY <1>2, Zenon DEF AccTypes
  <1>5. users' \in [UserIds -> UserRow]
    BY <1>1, <1>2, Zenon DEF AccTypes
  <1>6. {u \in UserIds : users'[u].present} = {u \in UserIds : users[u].present} \cup {x}
    BY <1>1, <1>2, <1>4, Zenon
  <1>7. UsersInOrder'
    BY <1>1, <1>3, <1>4, <1>6 DEF UsersInOrder
  <1>8. EmailsUnique'
    BY <1>1, <1>4, <1>3 DEF EmailsUnique, EmailIndexAllows, EmailTaken, UsersInOrder
  <1> QED BY <1>1, <1>4, <1>5, <1>7, <1>8, Zenon DEF x

(* Every step keeps the invariant. *)
LEMMA AccNextInv == AccInv /\ [AccountNext]_accountVars => AccInv'
  <1> SUFFICES ASSUME AccInv, [AccountNext]_accountVars PROVE AccInv'
    BY Zenon
  <1> USE IdentityAccountsAssumption
  <1>0. AccTypes /\ UsersInOrder /\ EmailsUnique /\ LinksLead /\ KeysRegister /\ RetryNotRefused
    BY Zenon DEF AccInv
  <1>1. ASSUME NEW w \in AccountWorkers, NEW k \in RegisterKeys, NEW e \in Emails, BeginRegister(w, k, e)
        PROVE  AccInv'
    <2> DEFINE r == [op |-> "register", stage |-> "check", key |-> k, email |-> e]
    <2>1. r \in AccRequest /\ r.op = "register" /\ r.key = k
      BY Zenon DEF AccRequest, RegisterRequest
    <2>2. /\ BeginKey(regKeys[k], e) = "owner" /\ accReq[w] = AccFree /\ accReq' = [accReq EXCEPT ![w] = r]
          /\ regKeys' = [regKeys EXCEPT ![k] = PendingKey(e)]
          /\ UNCHANGED <<users, links, madeBy, disowned, selfRefused>>
      BY <1>1, Zenon DEF BeginRegister, BeginAccount, accountHistory
    <2> HIDE DEF r
    <2>3. accReq'[w] = r /\ \A v \in AccountWorkers \ {w} : accReq'[v] = accReq[v]
      BY <1>0, <2>2, AccSlot, Zenon
    <2>4. AccTypes'
      BY <1>0, <2>1, <2>2, Zenon DEF AccTypes
    <2>5. UsersInOrder' /\ EmailsUnique' /\ LinksLead'
      BY <1>0, <2>1, <2>2, <2>3 DEF UsersInOrder, EmailsUnique, LinksLead
    <2>6. KeysRegister'
      <3> SUFFICES ASSUME NEW j \in RegisterKeys \ disowned PROVE KeyRegisters(j)'
        BY <2>2, Zenon DEF KeysRegister
      <3>0. KeyRegisters(j)
        BY <1>0, Zenon DEF KeysRegister
      <3>1. CASE j = k
        <4>1. regKeys[k].state = "free" /\ regKeys'[k].state = "pending"
          BY <1>0, <2>2, Zenon DEF BeginKey, PendingKey, AccTypes
        <4>2. madeBy[k] = {} /\ \A v \in AccountWorkers : ~ Registers(v, k)
          BY <3>0, <3>1, <4>1, Zenon DEF KeyRegisters
        <4>3. \A v \in AccountWorkers : Registers(v, k)' <=> v = w
          BY <2>1, <2>3, <4>2, Zenon DEF Registers
        <4> QED BY <2>2, <3>1, <4>1, <4>2, <4>3, Zenon DEF KeyRegisters
      <3>2. CASE j # k
        <4>1. \A v \in AccountWorkers : (Registers(v, j)' <=> Registers(v, j)) /\ (Registers(v, j) => accReq'[v] = accReq[v])
          BY <2>1, <2>2, <2>3, <3>2, AccFreeIs, Zenon DEF Registers
        <4>2. regKeys'[j] = regKeys[j]
          BY <1>0, <2>2, <3>2, Zenon DEF AccTypes
        <4> QED BY <2>2, <3>0, <4>1, <4>2 DEF KeyRegisters
      <3> QED BY <3>1, <3>2, Zenon
    <2> QED BY <1>0, <2>2, <2>4, <2>5, <2>6, Zenon DEF AccInv, RetryNotRefused
  <1>2. ASSUME NEW w \in AccountWorkers, accReq[w].op = "register", accReq' = [accReq EXCEPT ![w] = AccFree],
               UNCHANGED <<users, links, madeBy>>, DOMAIN regKeys' = RegisterKeys,
               \A k \in RegisterKeys \ {accReq[w].key} : regKeys'[k] = regKeys[k],
               \/ accReq[w].key \in disowned'
               \/ regKeys'[accReq[w].key].state = "completed"
               \/ regKeys'[accReq[w].key].state = "free" /\ accReq[w].stage # "complete",
               disowned \subseteq disowned', RetryNotRefused'
        PROVE  AccInv'
    <2>1. accReq'[w] = AccFree /\ \A v \in AccountWorkers \ {w} : accReq'[v] = accReq[v]
      BY <1>0, <1>2, AccSlot, Zenon
    <2>2. AccTypes'
      BY <1>0, <1>2, Zenon DEF AccTypes, AccRequest
    <2>3. UsersInOrder' /\ EmailsUnique' /\ LinksLead'
      BY <1>0, <1>2, <2>1, AccFreeIs DEF UsersInOrder, EmailsUnique, LinksLead
    <2>4. KeysRegister'
      <3> SUFFICES ASSUME NEW k \in RegisterKeys \ disowned' PROVE KeyRegisters(k)'
        BY Zenon DEF KeysRegister
      <3>0. KeyRegisters(k)
        BY <1>0, <1>2, Zenon DEF KeysRegister
      <3>1. \A v \in AccountWorkers :
               Registers(v, k)' <=> v # w /\ Registers(v, k)
        BY <2>1, AccFreeIs, Zenon DEF Registers
      <3>2. CASE k = accReq[w].key
        <4>1. Registers(w, k)
          BY <1>2, <3>2, Zenon DEF Registers
        <4>2. \A v \in AccountWorkers : ~ Registers(v, k)'
          BY <3>0, <3>1, <4>1, Zenon DEF KeyRegisters
        <4>3. regKeys'[k].state = "completed" \/ (regKeys'[k].state = "free" /\ madeBy[k] = {})
          BY <1>2, <3>0, <3>2, <4>1, Zenon DEF KeyRegisters
        <4> QED BY <1>2, <4>2, <4>3, Zenon DEF KeyRegisters
      <3>3. CASE k # accReq[w].key
        <4>1. ~ Registers(w, k) /\ regKeys'[k] = regKeys[k]
          BY <1>2, <3>3, Zenon DEF Registers
        <4> QED BY <1>2, <2>1, <3>0, <3>1, <4>1 DEF KeyRegisters
      <3> QED BY <3>2, <3>3, Zenon
    <2> QED BY <1>2, <2>2, <2>3, <2>4, Zenon DEF AccInv
  <1>3. ASSUME NEW w \in AccountWorkers, accReq[w].op = "register"
        PROVE  accReq[w] \in RegisterRequest /\ accReq[w].key \in RegisterKeys /\ accReq[w].email \in Emails
    BY <1>0, <1>3 DEF AccTypes, AccRequest, RegisterRequest, AccFree
  <1>4. ASSUME NEW w \in AccountWorkers, RegisterRefused(w) PROVE AccInv'
    <2>1. /\ accReq[w].op = "register" /\ accReq[w].stage \in {"check", "insert"}
          /\ regKeys' = [regKeys EXCEPT ![accReq[w].key] = FreeKey]
          /\ selfRefused' = IF \E u \in madeBy[accReq[w].key] : users[u].email = accReq[w].email
                            THEN selfRefused \cup {accReq[w].key} ELSE selfRefused
          /\ accReq' = [accReq EXCEPT ![w] = AccFree] /\ UNCHANGED <<users, links, madeBy, disowned>>
      BY <1>4, Zenon DEF RegisterRefused, EndAccount, ReleasedKey
    <2>2. accReq[w].key \in RegisterKeys
      BY <1>3, <2>1, Zenon
    <2>3. DOMAIN regKeys' = RegisterKeys /\ regKeys'[accReq[w].key].state = "free"
          /\ \A k \in RegisterKeys \ {accReq[w].key} : regKeys'[k] = regKeys[k]
      BY <1>0, <2>1, <2>2, Zenon DEF AccTypes, FreeKey
    <2>4. RetryNotRefused'
      <3>1. CASE accReq[w].key \in disowned
        BY <1>0, <2>1, <3>1, Zenon DEF RetryNotRefused
      <3>2. CASE accReq[w].key \notin disowned
        <4>1. madeBy[accReq[w].key] = {}
          BY <1>0, <2>1, <2>2, <3>2, Zenon DEF KeysRegister, KeyRegisters, Registers
        <4> QED BY <1>0, <2>1, <4>1, Zenon DEF RetryNotRefused
      <3> QED BY <3>1, <3>2, Zenon
    <2> QED BY <1>2, <2>1, <2>3, <2>4, Zenon
  <1>5. ASSUME NEW w \in AccountWorkers, RegisterCompletes(w) PROVE AccInv'
    <2>1. /\ accReq[w].op = "register"
          /\ regKeys' = [regKeys EXCEPT ![accReq[w].key] = CompletedKey(accReq[w].email, "created")]
          /\ accReq' = [accReq EXCEPT ![w] = AccFree]
          /\ UNCHANGED <<users, links, madeBy, disowned, selfRefused>>
      BY <1>5, Zenon DEF RegisterCompletes, EndAccount, accountHistory
    <2>2. accReq[w].key \in RegisterKeys
      BY <1>3, <2>1, Zenon
    <2>3. DOMAIN regKeys' = RegisterKeys /\ regKeys'[accReq[w].key].state = "completed"
          /\ \A k \in RegisterKeys \ {accReq[w].key} : regKeys'[k] = regKeys[k]
      BY <1>0, <2>1, <2>2, Zenon DEF AccTypes, CompletedKey
    <2> QED BY <1>0, <1>2, <2>1, <2>3, Zenon DEF RetryNotRefused
  <1>6. ASSUME NEW w \in AccountWorkers, RegisterDies(w) PROVE AccInv'
    <2>1. /\ accReq[w].op = "register" /\ disowned' = disowned \cup {accReq[w].key}
          /\ accReq' = [accReq EXCEPT ![w] = AccFree]
          /\ UNCHANGED <<users, links, regKeys, madeBy, selfRefused>>
      BY <1>6, Zenon DEF RegisterDies, EndAccount, accountTables
    <2> QED BY <1>0, <1>2, <2>1, Zenon DEF RetryNotRefused, AccTypes
  <1>7. ASSUME NEW k \in RegisterKeys, RegisterKeyExpires(k) PROVE AccInv'
    <2>1. /\ regKeys' = [regKeys EXCEPT ![k] = FreeKey] /\ disowned' = disowned \cup {k}
          /\ UNCHANGED <<users, links, accReq, madeBy, selfRefused>>
      BY <1>7, Zenon DEF RegisterKeyExpires
    <2>2. AccTypes' /\ UsersInOrder' /\ EmailsUnique' /\ LinksLead' /\ RetryNotRefused'
      BY <1>0, <2>1 DEF AccTypes, UsersInOrder, EmailsUnique, LinksLead, RetryNotRefused
    <2>3. KeysRegister'
      BY <1>0, <2>1 DEF KeysRegister, KeyRegisters, Registers, AccTypes
    <2> QED BY <2>2, <2>3, Zenon DEF AccInv
  <1>8. ASSUME NEW w \in AccountWorkers, RegisterChecked(w) \/ RegisterInserts(w) PROVE AccInv'
    <2> DEFINE k == accReq[w].key
    <2>1. /\ accReq[w].op = "register" /\ UNCHANGED <<links, regKeys, disowned, selfRefused>>
          /\ \/ /\ accReq[w].stage = "check" /\ accReq' = [accReq EXCEPT ![w].stage = "insert"]
                /\ UNCHANGED <<users, madeBy>>
             \/ /\ accReq[w].stage = "insert" /\ accReq' = [accReq EXCEPT ![w].stage = "complete"]
                /\ EmailIndexAllows(accReq[w].email) /\ NextUser \in UserIds
                /\ users' = [users EXCEPT ![NextUser] = NewUser(accReq[w].email, TRUE)]
                /\ madeBy' = [madeBy EXCEPT ![k] = @ \cup {NextUser}]
      BY <1>8, Zenon DEF RegisterChecked, RegisterInserts, accountTables, accountHistory
    <2>2. accReq[w] \in RegisterRequest /\ k \in RegisterKeys /\ accReq[w].email \in Emails
      BY <1>3, <2>1, Zenon
    <2>20. PICK st \in {"insert", "complete"} :
              /\ accReq' = [accReq EXCEPT ![w].stage = st]
              /\ st = IF accReq[w].stage = "check" THEN "insert" ELSE "complete"
      BY <2>1, Zenon
    <2> DEFINE r == [accReq[w] EXCEPT !.stage = st]
    <2>21. accReq' = [accReq EXCEPT ![w] = r]
      BY <1>0, <2>20, Zenon DEF AccTypes
    <2>22. r \in RegisterRequest /\ r.op = "register" /\ r.key = k /\ r.stage = st
      BY <2>1, <2>2, Zenon DEF RegisterRequest
    <2> HIDE DEF r
    <2>23. r \in AccRequest
      BY <2>22, Zenon DEF AccRequest
    <2>3. /\ accReq'[w].op = "register" /\ accReq'[w].key = k
          /\ accReq'[w].stage = IF accReq[w].stage = "check" THEN "insert" ELSE "complete"
          /\ \A v \in AccountWorkers \ {w} : accReq'[v] = accReq[v]
          /\ accReq' \in [AccountWorkers -> AccRequest]
      <3>1. accReq'[w] = r /\ \A v \in AccountWorkers \ {w} : accReq'[v] = accReq[v]
        BY <1>0, <2>21, AccSlot, Zenon
      <3>2. accReq' \in [AccountWorkers -> AccRequest]
        BY <1>0, <2>21, <2>23, Zenon DEF AccTypes
      <3> QED BY <2>20, <2>22, <3>1, <3>2, Zenon
    <2> HIDE DEF k
    <2>4. DOMAIN madeBy' = RegisterKeys /\ \A j \in RegisterKeys \ {k} : madeBy'[j] = madeBy[j]
      BY <1>0, <2>1, <2>2, Zenon DEF AccTypes
    <2>5. accReq[w].stage = "check" => madeBy' = madeBy
      BY <2>1, Zenon
    <2>6. KeysRegister'
      <3> SUFFICES ASSUME NEW j \in RegisterKeys \ disowned PROVE KeyRegisters(j)'
        BY <2>1, Zenon DEF KeysRegister
      <3>0. KeyRegisters(j)
        BY <1>0, Zenon DEF KeysRegister
      <3>1. \A v \in AccountWorkers : (Registers(v, j)' <=> Registers(v, j)) /\ (v # w => accReq'[v] = accReq[v])
        BY <2>1, <2>3 DEF Registers, k
      <3>2. CASE j = k
        <4>1. Registers(w, j)
          BY <2>1, <3>2, Zenon DEF Registers, k
        <4>2. regKeys'[j].state # "free"
          BY <2>1, <3>0, <4>1, Zenon DEF KeyRegisters
        <4>3. \A v \in AccountWorkers : Registers(v, j) => v = w
          BY <3>0, <4>1, Zenon DEF KeyRegisters
        <4>4. accReq'[w].stage # "complete" => madeBy'[j] = {}
          BY <2>1, <2>3, <2>5, <3>0, <4>1, Zenon DEF KeyRegisters
        <4> QED BY <2>1, <3>0, <3>1, <4>2, <4>3, <4>4, Zenon DEF KeyRegisters
      <3>3. CASE j # k
        <4>1. ~ Registers(w, j) /\ madeBy'[j] = madeBy[j]
          BY <2>4, <3>3, Zenon DEF Registers, k
        <4> QED BY <2>1, <3>0, <3>1, <4>1 DEF KeyRegisters
      <3> QED BY <3>2, <3>3, Zenon
    <2>7. users' \in [UserIds -> UserRow] /\ UsersInOrder' /\ EmailsUnique' /\ LinksLead'
      <3>1. CASE UNCHANGED users
        BY <1>0, <2>1, <2>3, <3>1 DEF UsersInOrder, EmailsUnique, LinksLead, AccTypes
      <3>2. CASE /\ EmailIndexAllows(accReq[w].email) /\ NextUser \in UserIds
                 /\ users' = [users EXCEPT ![NextUser] = NewUser(accReq[w].email, TRUE)]
        <4>1. \A v \in AccountWorkers : accReq'[v].op = "update" => accReq'[v] = accReq[v]
          BY <2>3, Zenon
        <4>2. accReq[w].email \in AnyEmail
          BY <2>2, Zenon DEF AnyEmail
        <4>3. /\ users' \in [UserIds -> UserRow] /\ UsersInOrder' /\ EmailsUnique'
              /\ users'[NextUser].present /\ users'[NextUser].password = TRUE
              /\ \A u \in UserIds \ {NextUser} : users'[u] = users[u]
          BY <1>0, <3>2, <4>1, <4>2, UserAdded, Zenon
        <4>4. LinksLead'
          BY <1>0, <2>1, <4>3 DEF LinksLead, AccTypes
        <4> QED BY <4>3, <4>4, Zenon
      <3> QED BY <2>1, <3>1, <3>2, Zenon
    <2> QED BY <1>0, <2>1, <2>3, <2>4, <2>6, <2>7, Zenon DEF AccInv, AccTypes, RetryNotRefused
  <1>9. ASSUME NEW w \in AccountWorkers, NEW s \in Subjects, NEW e \in Emails, BeginOAuth(w, s, e) PROVE AccInv'
    <2> DEFINE r == [op |-> "oauth", subject |-> s, email |-> OAuthEmail(e)]
    <2>1. r \in AccRequest /\ r.op = "oauth"
      BY Zenon DEF AccRequest, AnyEmail, OAuthEmail
    <2>2. /\ accReq[w] = AccFree /\ accReq' = [accReq EXCEPT ![w] = r]
          /\ UNCHANGED <<users, links, regKeys, madeBy, disowned, selfRefused>>
      BY <1>9, Zenon DEF BeginOAuth, BeginAccount, accountTables, accountHistory
    <2> HIDE DEF r
    <2> QED BY <2>1, <2>2, AccFreeIs, AccSlotKeeps, Zenon
  <1>10. ASSUME NEW w \in AccountWorkers, NEW u \in UserIds, NEW e \in Emails, BeginUpdate(w, u, e) PROVE AccInv'
    <2> DEFINE r == [op |-> "update", user |-> u, email |-> e]
    <2>1. r \in AccRequest /\ r.op = "update" /\ r.user = u
      BY Zenon DEF AccRequest
    <2>2. /\ accReq[w] = AccFree /\ accReq' = [accReq EXCEPT ![w] = r] /\ users[u].present
          /\ UNCHANGED <<users, links, regKeys, madeBy, disowned, selfRefused>>
      BY <1>10, Zenon DEF BeginUpdate, BeginAccount, accountTables, accountHistory
    <2> HIDE DEF r
    <2> QED BY <2>1, <2>2, AccFreeIs, AccSlotKeeps, Zenon
  <1>11. AccFree \in AccRequest
    BY Zenon DEF AccRequest
  <1>12. ASSUME NEW w \in AccountWorkers, OAuthRefused(w) PROVE AccInv'
    BY <1>11, <1>12, AccFreeIs, AccSlotKeeps, Zenon DEF OAuthRefused, EndAccount, accountTables, accountHistory
  <1>13. ASSUME NEW w \in AccountWorkers, OAuthRegisters(w) PROVE AccInv'
    <2> DEFINE s == accReq[w].subject
               e == accReq[w].email
               x == NextUser
    <2>1. /\ accReq[w].op = "oauth" /\ x \in UserIds /\ EmailIndexAllows(e) /\ links[s] = 0
          /\ users' = [users EXCEPT ![x] = NewUser(e, FALSE)]
          /\ links' = [links EXCEPT ![s] = x]
          /\ accReq' = [accReq EXCEPT ![w] = AccFree]
          /\ UNCHANGED <<regKeys, madeBy, disowned, selfRefused>>
      BY <1>13, Zenon DEF OAuthRegisters, LinkAllowed, EndAccount, accountHistory
    <2>2. s \in Subjects /\ e \in AnyEmail
      BY <1>0, <2>1 DEF AccTypes, AccRequest, RegisterRequest, AccFree
    <2>3. accReq'[w] = AccFree /\ \A v \in AccountWorkers \ {w} : accReq'[v] = accReq[v]
      BY <1>0, <2>1, AccSlot, Zenon
    <2>4. \A v \in AccountWorkers : accReq'[v].op = "update" => accReq'[v] = accReq[v]
      BY <2>3, AccFreeIs, Zenon
    <2>5. /\ users' \in [UserIds -> UserRow] /\ UsersInOrder' /\ EmailsUnique'
          /\ users'[x].present /\ users'[x].password = FALSE
          /\ \A u \in UserIds \ {x} : users'[u] = users[u]
      BY <1>0, <2>1, <2>2, <2>4, UserAdded, Zenon
    <2>6. ~ users[x].present
      BY <1>0, <2>1, NextUserFree, Zenon
    <2> HIDE DEF s, e, x
    <2>7. links' \in [Subjects -> UserIds \cup {0}] /\ links'[s] = x /\ \A t \in Subjects \ {s} : links'[t] = links[t]
      BY <1>0, <2>1, <2>2, Zenon DEF AccTypes
    <2>8. LinksLead'
      <3>1. \A t \in Subjects : links'[t] # 0 => users'[links'[t]].present
        BY <1>0, <2>5, <2>7 DEF LinksLead, AccTypes
      <3>2. ASSUME NEW u \in UserIds, users'[u].present, ~ users'[u].password
            PROVE  \E t \in Subjects : {y \in Subjects : links'[y] = u} = {t}
        <4>1. CASE u = x
          <5>1. \A t \in Subjects : links[t] # x
            BY <1>0, <2>1, <2>6 DEF LinksLead, UserIds
          <5>2. {y \in Subjects : links'[y] = u} = {s}
            BY <2>2, <2>7, <4>1, <5>1, Zenon
          <5> QED BY <2>2, <5>2, Zenon
        <4>2. CASE u # x
          <5>1. PICK t \in Subjects : {y \in Subjects : links[y] = u} = {t}
            BY <1>0, <2>5, <3>2, <4>2, Zenon DEF LinksLead
          <5>2. {y \in Subjects : links'[y] = u} = {y \in Subjects : links[y] = u}
            BY <2>1, <2>2, <2>7, <4>2 DEF UserIds
          <5> QED BY <5>1, <5>2, Zenon
        <4> QED BY <4>1, <4>2, Zenon
      <3> QED BY <3>1, <3>2, Zenon DEF LinksLead
    <2>9. KeysRegister'
      <3> SUFFICES ASSUME NEW k \in RegisterKeys \ disowned PROVE KeyRegisters(k)'
        BY <2>1, Zenon DEF KeysRegister
      <3>1. \A v \in AccountWorkers : (Registers(v, k)' <=> Registers(v, k)) /\ (Registers(v, k) => accReq'[v] = accReq[v])
        BY <2>1, <2>3, AccFreeIs, Zenon DEF Registers
      <3>2. KeyRegisters(k)
        BY <1>0, Zenon DEF KeysRegister
      <3> QED BY <2>1, <3>1, <3>2 DEF KeyRegisters
    <2>10. AccTypes'
      BY <1>0, <1>11, <2>1, <2>5, <2>7, Zenon DEF AccTypes
    <2> QED BY <1>0, <2>1, <2>5, <2>8, <2>9, <2>10, Zenon DEF AccInv, RetryNotRefused
  <1>14. ASSUME NEW w \in AccountWorkers, UpdateWrites(w) PROVE AccInv'
    <2> DEFINE u == accReq[w].user
               e == accReq[w].email
    <2>1. /\ accReq[w].op = "update" /\ accReq' = [accReq EXCEPT ![w] = AccFree]
          /\ users' = IF EmailIndexAllows(e) THEN [users EXCEPT ![u].email = e] ELSE users
          /\ UNCHANGED <<links, regKeys, madeBy, disowned, selfRefused>>
      BY <1>14, Zenon DEF UpdateWrites, EndAccount, accountHistory
    <2>2. u \in UserIds /\ e \in Emails /\ users[u].present
      BY <1>0, <2>1 DEF AccTypes, AccRequest, RegisterRequest, AccFree, UsersInOrder
    <2>3. accReq'[w] = AccFree /\ \A v \in AccountWorkers \ {w} : accReq'[v] = accReq[v]
      BY <1>0, <2>1, AccSlot, Zenon
    <2> HIDE DEF u, e
    <2>4. CASE ~ EmailIndexAllows(e)
      BY <1>11, <2>1, <2>4, AccFreeIs, AccSlotKeeps, Zenon
    <2>5. CASE EmailIndexAllows(e)
      <3> DEFINE row == [users[u] EXCEPT !.email = e]
      <3>1. users' = [users EXCEPT ![u] = row] /\ users[u] \in UserRow
        BY <1>0, <2>1, <2>2, <2>5, Zenon DEF AccTypes
      <3>2. row \in UserRow /\ row.email = e /\ row.present /\ row.password = users[u].password
        BY <2>2, <3>1, Zenon DEF UserRow, AnyEmail
      <3> HIDE DEF row
      <3>3. users'[u] = row /\ (\A v \in UserIds \ {u} : users'[v] = users[v]) /\ users' \in [UserIds -> UserRow]
        BY <1>0, <2>2, <3>1, <3>2, Zenon DEF AccTypes
      <3>4. \A v \in UserIds : (users'[v].present <=> users[v].present) /\ users'[v].password = users[v].password
        BY <2>2, <3>2, <3>3, Zenon
      <3>5. UsersInOrder'
        <4>1. {v \in UserIds : users'[v].present} = {v \in UserIds : users[v].present}
          BY <3>4, Zenon
        <4>2. \A v \in AccountWorkers : accReq'[v].op = "update" => users'[accReq'[v].user].present
          BY <1>0, <2>3, <3>2, <3>3, AccFreeIs DEF UsersInOrder, AccTypes, AccRequest, RegisterRequest, AccFree
        <4> QED BY <1>0, <2>2, <3>2, <3>3, <3>4, <4>1, <4>2 DEF UsersInOrder
      <3>6. EmailsUnique'
        BY <1>0, <2>2, <2>5, <3>2, <3>3 DEF EmailsUnique, EmailIndexAllows, EmailTaken, UsersInOrder
      <3>7. LinksLead'
        BY <1>0, <2>1, <3>4 DEF LinksLead, AccTypes
      <3>8. KeysRegister'
        <4> SUFFICES ASSUME NEW k \in RegisterKeys \ disowned PROVE KeyRegisters(k)'
          BY <2>1, Zenon DEF KeysRegister
        <4>1. \A v \in AccountWorkers : (Registers(v, k)' <=> Registers(v, k)) /\ (Registers(v, k) => accReq'[v] = accReq[v])
          BY <2>1, <2>3, AccFreeIs, Zenon DEF Registers
        <4>2. KeyRegisters(k)
          BY <1>0, Zenon DEF KeysRegister
        <4> QED BY <2>1, <4>1, <4>2, Zenon DEF KeyRegisters
      <3>9. AccTypes'
        BY <1>0, <1>11, <2>1, <3>3, Zenon DEF AccTypes
      <3> QED BY <1>0, <2>1, <3>5, <3>6, <3>7, <3>8, <3>9, Zenon DEF AccInv, RetryNotRefused
    <2> QED BY <2>4, <2>5, Zenon
  <1>15. CASE UNCHANGED accountVars
    <2>1. UNCHANGED <<users, links, regKeys, accReq, madeBy, disowned, selfRefused>>
      BY <1>15, Zenon DEF accountVars, accountTables, accountHistory
    <2>2. AccTypes' /\ UsersInOrder' /\ EmailsUnique' /\ LinksLead' /\ RetryNotRefused'
      BY <1>0, <2>1 DEF AccTypes, UsersInOrder, EmailsUnique, LinksLead, RetryNotRefused
    <2>3. KeysRegister'
      <3>1. \A k : KeyRegisters(k)' <=> KeyRegisters(k)
        BY <2>1 DEF KeyRegisters, Registers
      <3> QED BY <1>0, <2>1, <3>1, Zenon DEF KeysRegister
    <2> QED BY <2>2, <2>3, Zenon DEF AccInv
  <1> QED
    BY <1>1, <1>4, <1>5, <1>6, <1>7, <1>8, <1>9, <1>10, <1>12, <1>13, <1>14, <1>15, Zenon DEF AccountNext

(* For any number of workers, emails, subjects and keys: an email has one   *)
(* user, a user without a password has its link, a retry of a registration  *)
(* is not refused for its own user, and no key is pending without a         *)
(* request.                                                                 *)
THEOREM AccountsReachableAlways == AccountSpec => []AccountsReachable
  <1>1. AccInv => AccountsReachable
    <2> SUFFICES ASSUME AccInv PROVE AccountsReachable
      BY Zenon
    <2>1. AccountTypeOK
      <3>1. \A u \in UserIds : users[u].email \in Emails \cup {NoEmail}
        BY Zenon DEF AccInv, AccTypes, UserRow, AnyEmail
      <3> QED BY <3>1, Zenon DEF AccInv, LinksLead, AccountTypeOK
    <2>2. PasswordlessLinked
      <3> SUFFICES ASSUME NEW u \in UserIds, users[u].present, ~ users[u].password
                   PROVE  \E s \in Subjects : {t \in Subjects : links[t] = u} = {s}
        BY Zenon DEF PasswordlessLinked
      <3> QED BY Zenon DEF AccInv, LinksLead
    <2>3. PendingHasRequest
      <3> SUFFICES ASSUME NEW k \in RegisterKeys \ disowned, NEW e \in Emails, regKeys[k] = PendingKey(e)
                   PROVE  \E w \in AccountWorkers : accReq[w].op = "register" /\ accReq[w].key = k
        BY Zenon DEF PendingHasRequest
      <3>1. regKeys[k].state = "pending"
        BY DEF PendingKey
      <3> QED BY <3>1, Zenon DEF AccInv, KeysRegister, KeyRegisters, Registers
    <2> QED BY <2>1, <2>2, <2>3, Zenon DEF AccInv, AccountsReachable
  <1> QED BY AccInitInv, AccNextInv, <1>1, PTL DEF AccountSpec

-----------------------------------------------------------------------------
(* Organizations: the inductive invariant.                                  *)

MemberRole == Role \cup {NotMember}

OrgRequest ==
    {OrgFree}
        \cup [op : {"add"}, user : OrgUsers, role : Role]
        \cup [op : {"remove"}, user : OrgUsers]
        \cup [op : {"issue"}, stage : {"insert", "complete"}, key : IssueKeys, scopes : SUBSET Scope,
              role : MemberRole]
        \cup [op : {"revoke"}, id : 1..MaxApiKeys]

ApiKey == [status : {"absent", "ACTIVE", "REVOKED"}, scopes : SUBSET Scope, grantor : MemberRole]

OrgTypes ==
    /\ members \in [OrgUsers -> MemberRole]
    /\ apiKeys \in [1..MaxApiKeys -> ApiKey]
    /\ orgReq \in [OrgWorkers -> OrgRequest]
    /\ DOMAIN issueIdem = IssueKeys /\ DOMAIN issuedFor = IssueKeys

Removes(w, u) == orgReq[w].op = "remove" /\ orgReq[w].user = u
Issues(w, k) == orgReq[w].op = "issue" /\ orgReq[w].key = k

(* Scopes that a key has or is about to have are those of its grantor. *)
ScopesGranted ==
    /\ \A i \in DOMAIN apiKeys : apiKeys[i].scopes \subseteq allowed_scopes_for_role(apiKeys[i].grantor)
    /\ \A w \in OrgWorkers : orgReq[w].op = "issue" =>
           orgReq[w].scopes \subseteq allowed_scopes_for_role(orgReq[w].role)

(* Unless removals crossed, some owner is the object of no removal. *)
OwnerStays ==
    /\ founded /\ ~ crossing => \E u \in Owners : \A w \in OrgWorkers : ~ Removes(w, u)
    /\ ~ founded => \A w \in OrgWorkers : orgReq[w] = OrgFree

(* A key whose record is kept has one request at a time, which finds it     *)
(* pending and no API key issued before it inserts its own.                 *)
KeyIssues(k) ==
    /\ issueIdem[k].state = "free" => issuedFor[k] = {} /\ \A w \in OrgWorkers : ~ Issues(w, k)
    /\ \A v, w \in OrgWorkers : Issues(v, k) /\ Issues(w, k) => v = w
    /\ \A w \in OrgWorkers : Issues(w, k) /\ orgReq[w].stage = "insert" => issuedFor[k] = {}
    /\ issuedFor[k] = {} \/ \E i : issuedFor[k] = {i}

KeysIssue == \A k \in IssueKeys \ lapsed : KeyIssues(k)

OrgInv == OrgTypes /\ ScopesGranted /\ OwnerStays /\ KeysIssue

(* No organization and no API key at the start. *)
LEMMA OrgInitInv == OrgInit => OrgInv
  <1> SUFFICES ASSUME OrgInit PROVE OrgInv
    BY Zenon
  <1>1. OrgTypes
    BY Zenon DEF OrgInit, OrgTypes, MemberRole, OrgRequest, ApiKey
  <1>2. ScopesGranted
    BY Zenon DEF OrgInit, ScopesGranted, OrgFree
  <1>3. OwnerStays
    BY Zenon DEF OrgInit, OwnerStays
  <1>4. KeysIssue
    BY Zenon DEF OrgInit, KeysIssue, KeyIssues, Issues, OrgFree, FreeKey
  <1> QED BY <1>1, <1>2, <1>3, <1>4, Zenon DEF OrgInv

(* A request takes its slot, or frees it. *)
LEMMA OrgSlot ==
  ASSUME OrgTypes, NEW w \in OrgWorkers, NEW r, orgReq' = [orgReq EXCEPT ![w] = r]
  PROVE  orgReq'[w] = r /\ \A v \in OrgWorkers \ {w} : orgReq'[v] = orgReq[v]
BY Zenon DEF OrgTypes

(* A worker without a request serves no operation. *)
LEMMA OrgFreeIs == OrgFree.op = "none"
BY Zenon DEF OrgFree

(* A step that writes no table and puts no removal and no issue in its slot. *)
LEMMA OrgSlotKeeps ==
  ASSUME OrgInv, UNCHANGED <<members, founded, apiKeys, issueIdem, crossing, issuedFor, lapsed>>,
         NEW w \in OrgWorkers, NEW r \in OrgRequest, orgReq' = [orgReq EXCEPT ![w] = r],
         r.op \notin {"remove", "issue"}, r = OrgFree \/ founded
  PROVE  OrgInv'
  <1>0. OrgTypes /\ ScopesGranted /\ OwnerStays /\ KeysIssue
    BY Zenon DEF OrgInv
  <1>1. orgReq'[w] = r /\ \A v \in OrgWorkers \ {w} : orgReq'[v] = orgReq[v]
    BY <1>0, OrgSlot, Zenon
  <1>2. OrgTypes'
    BY <1>0, Zenon DEF OrgTypes, OrgRequest
  <1>3. ScopesGranted'
    BY <1>0, <1>1, Zenon DEF ScopesGranted
  <1>4. OwnerStays'
    BY <1>0, <1>1 DEF OwnerStays, Owners, Removes
  <1>5. KeysIssue'
    <2> SUFFICES ASSUME NEW k \in IssueKeys \ lapsed PROVE KeyIssues(k)'
      BY Zenon DEF KeysIssue
    <2>1. \A v \in OrgWorkers : Issues(v, k)' => Issues(v, k) /\ orgReq'[v] = orgReq[v]
      BY <1>1, Zenon DEF Issues
    <2>2. KeyIssues(k)
      BY <1>0, Zenon DEF KeysIssue
    <2> QED BY <2>1, <2>2, Zenon DEF KeyIssues
  <1> QED BY <1>2, <1>3, <1>4, <1>5, Zenon DEF OrgInv

(* Every step keeps the invariant. *)
LEMMA OrgNextInv == OrgInv /\ [OrgNext]_orgVars => OrgInv'
  <1> SUFFICES ASSUME OrgInv, [OrgNext]_orgVars PROVE OrgInv'
    BY Zenon
  <1> USE OrganizationsAssumption
  <1>0. OrgTypes /\ ScopesGranted /\ OwnerStays /\ KeysIssue
    BY Zenon DEF OrgInv
  <1>1. ASSUME NEW u \in OrgUsers, CreateOrg(u) PROVE OrgInv'
    <2>1. /\ ~ founded /\ founded' /\ members' = [members EXCEPT ![u] = "owner"]
          /\ UNCHANGED <<apiKeys, issueIdem, orgReq, crossing, issuedFor, lapsed>>
      BY <1>1, Zenon DEF CreateOrg, WithFounder, orgHistory
    <2>2. OrgTypes'
      BY <1>0, <2>1, Zenon DEF OrgTypes, OrgRequest, MemberRole, Role
    <2>3. ScopesGranted' /\ KeysIssue'
      BY <1>0, <2>1 DEF ScopesGranted, KeysIssue, KeyIssues, Issues
    <2>4. u \in Owners'
      BY <1>0, <2>1, Zenon DEF Owners, OrgTypes
    <2>5. \A w \in OrgWorkers : ~ Removes(w, u)'
      BY <1>0, <2>1, OrgFreeIs, Zenon DEF OwnerStays, Removes
    <2>6. OwnerStays'
      BY <2>1, <2>4, <2>5, Zenon DEF OwnerStays
    <2> QED BY <2>2, <2>3, <2>6, Zenon DEF OrgInv
  <1>2. ASSUME NEW w \in OrgWorkers, NEW actor \in OrgUsers, NEW u \in OrgUsers, NEW role \in InvitedRoles,
               BeginAddMember(w, actor, u, role)
        PROVE  OrgInv'
    <2> DEFINE r == [op |-> "add", user |-> u, role |-> role]
    <2>1. r \in OrgRequest /\ r.op \notin {"remove", "issue"}
      BY Zenon DEF OrgRequest
    <2>2. /\ founded /\ orgReq' = [orgReq EXCEPT ![w] = r]
          /\ UNCHANGED <<members, founded, apiKeys, issueIdem, crossing, issuedFor, lapsed>>
      BY <1>2, Zenon DEF BeginAddMember, BeginOrg, orgHistory
    <2> HIDE DEF r
    <2> QED BY <2>1, <2>2, OrgSlotKeeps, Zenon
  <1>3. ASSUME NEW w \in OrgWorkers, NEW actor \in OrgUsers, NEW i \in DOMAIN apiKeys,
               BeginRevokeKey(w, actor, i)
        PROVE  OrgInv'
    <2> DEFINE r == [op |-> "revoke", id |-> i]
    <2>1. r \in OrgRequest /\ r.op \notin {"remove", "issue"}
      BY <1>0, Zenon DEF OrgRequest, OrgTypes
    <2>2. /\ founded /\ orgReq' = [orgReq EXCEPT ![w] = r]
          /\ UNCHANGED <<members, founded, apiKeys, issueIdem, crossing, issuedFor, lapsed>>
      BY <1>3, Zenon DEF BeginRevokeKey, BeginOrg, orgHistory
    <2> HIDE DEF r
    <2> QED BY <2>1, <2>2, OrgSlotKeeps, Zenon
  <1>4. ASSUME NEW w \in OrgWorkers, AddMember(w) PROVE OrgInv'
    <2>1. /\ orgReq[w].op = "add" /\ orgReq' = [orgReq EXCEPT ![w] = OrgFree]
          /\ members' = IF members[orgReq[w].user] = NotMember
                        THEN [members EXCEPT ![orgReq[w].user] = orgReq[w].role] ELSE members
          /\ UNCHANGED <<founded, apiKeys, issueIdem, crossing, issuedFor, lapsed>>
      BY <1>4, Zenon DEF AddMember, EndOrg, orgHistory
    <2>2. orgReq[w].user \in OrgUsers /\ orgReq[w].role \in Role
      BY <1>0, <2>1 DEF OrgTypes, OrgRequest, OrgFree
    <2>3. orgReq'[w] = OrgFree /\ \A v \in OrgWorkers \ {w} : orgReq'[v] = orgReq[v]
      BY <1>0, <2>1, OrgSlot, Zenon
    <2>4. OrgTypes'
      BY <1>0, <2>1, <2>2, Zenon DEF OrgTypes, OrgRequest, MemberRole
    <2>5. ScopesGranted'
      BY <1>0, <2>1, <2>3, OrgFreeIs, Zenon DEF ScopesGranted
    <2>6. Owners \subseteq Owners'
      BY <1>0, <2>1, Zenon DEF Owners, OrgTypes, Role
    <2>7. \A v \in OrgWorkers, x \in OrgUsers : Removes(v, x)' => Removes(v, x)
      BY <2>3, OrgFreeIs, Zenon DEF Removes
    <2>8. founded
      BY <1>0, <2>1, OrgFreeIs, Zenon DEF OwnerStays
    <2>9. OwnerStays'
      BY <1>0, <2>1, <2>6, <2>7, <2>8, Zenon DEF OwnerStays, Owners
    <2>10. KeysIssue'
      <3> SUFFICES ASSUME NEW k \in IssueKeys \ lapsed PROVE KeyIssues(k)'
        BY <2>1, Zenon DEF KeysIssue
      <3>1. \A v \in OrgWorkers : Issues(v, k)' => Issues(v, k) /\ orgReq'[v] = orgReq[v]
        BY <2>3, OrgFreeIs, Zenon DEF Issues
      <3> QED BY <1>0, <2>1, <3>1, Zenon DEF KeyIssues, KeysIssue
    <2> QED BY <2>4, <2>5, <2>9, <2>10, Zenon DEF OrgInv
  <1>5. ASSUME NEW w \in OrgWorkers, NEW actor \in OrgUsers, NEW u \in OrgUsers,
               BeginRemoveMember(w, actor, u)
        PROVE  OrgInv'
    <2> DEFINE r == [op |-> "remove", user |-> u]
    <2>1. r \in OrgRequest /\ r.op = "remove" /\ r.user = u
      BY Zenon DEF OrgRequest
    <2>2. /\ Removable(u) /\ founded /\ orgReq[w] = OrgFree /\ orgReq' = [orgReq EXCEPT ![w] = r]
          /\ UNCHANGED <<members, founded, apiKeys, issueIdem, issuedFor, lapsed>>
      BY <1>5, Zenon DEF BeginRemoveMember, BeginOrg
    <2>20. ~ crossing' => ~ crossing /\ ~ Crosses(u)
      BY <1>5, Zenon DEF BeginRemoveMember
    <2> HIDE DEF r
    <2>3. orgReq'[w] = r /\ \A v \in OrgWorkers \ {w} : orgReq'[v] = orgReq[v]
      BY <1>0, <2>2, OrgSlot, Zenon
    <2>4. OrgTypes'
      BY <1>0, <2>1, <2>2, Zenon DEF OrgTypes, OrgRequest
    <2>5. ScopesGranted'
      BY <1>0, <2>1, <2>2, <2>3, Zenon DEF ScopesGranted
    <2>6. ASSUME ~ crossing' PROVE \E x \in Owners : \A v \in OrgWorkers : ~ Removes(v, x)'
      <3>1. CASE members[u] = "owner"
        <4>1. PICK y \in Owners : y # u
          BY <2>2, <3>1, Zenon DEF Removable
        <4>2. \A v \in OrgWorkers : ~ Removes(v, y)
          <5> SUFFICES ASSUME NEW v \in OrgWorkers, Removes(v, y) PROVE FALSE
            BY Zenon
          <5>1. orgReq[v].op = "remove" /\ orgReq[v].user = y /\ members[y] = "owner"
            BY <4>1, Zenon DEF Removes, Owners
          <5>2. Crosses(u)
            BY <3>1, <4>1, <5>1, Zenon DEF Crosses
          <5> QED BY <2>6, <2>20, <5>2, Zenon
        <4> QED BY <2>1, <2>3, <4>1, <4>2, Zenon DEF Removes
      <3>2. CASE members[u] # "owner"
        <4>1. PICK y \in Owners : \A v \in OrgWorkers : ~ Removes(v, y)
          BY <1>0, <2>2, <2>6, <2>20, Zenon DEF OwnerStays
        <4> QED BY <2>1, <2>3, <3>2, <4>1 DEF Removes, Owners
      <3> QED BY <3>1, <3>2, Zenon
    <2>7. OwnerStays'
      BY <2>2, <2>6, Zenon DEF OwnerStays, Owners
    <2>8. KeysIssue'
      <3> SUFFICES ASSUME NEW k \in IssueKeys \ lapsed PROVE KeyIssues(k)'
        BY <2>2, Zenon DEF KeysIssue
      <3>1. \A v \in OrgWorkers : Issues(v, k)' => Issues(v, k) /\ orgReq'[v] = orgReq[v]
        BY <2>1, <2>3, Zenon DEF Issues
      <3> QED BY <1>0, <2>2, <3>1, Zenon DEF KeyIssues, KeysIssue
    <2> QED BY <2>4, <2>5, <2>7, <2>8, Zenon DEF OrgInv
  <1>6. ASSUME NEW w \in OrgWorkers, RemoveMember(w) PROVE OrgInv'
    <2>1. /\ orgReq[w].op = "remove" /\ orgReq' = [orgReq EXCEPT ![w] = OrgFree]
          /\ members' = [members EXCEPT ![orgReq[w].user] = NotMember]
          /\ UNCHANGED <<founded, apiKeys, issueIdem, crossing, issuedFor, lapsed>>
      BY <1>6, Zenon DEF RemoveMember, EndOrg, orgHistory
    <2>2. orgReq[w].user \in OrgUsers
      BY <1>0, <2>1 DEF OrgTypes, OrgRequest, OrgFree
    <2>3. orgReq'[w] = OrgFree /\ \A v \in OrgWorkers \ {w} : orgReq'[v] = orgReq[v]
      BY <1>0, <2>1, OrgSlot, Zenon
    <2>4. OrgTypes'
      BY <1>0, <2>1, <2>2, Zenon DEF OrgTypes, OrgRequest, MemberRole
    <2>5. ScopesGranted'
      BY <1>0, <2>1, <2>3, OrgFreeIs, Zenon DEF ScopesGranted
    <2>6. \A x \in Owners : ~ Removes(w, x) => x \in Owners'
      BY <1>0, <2>1, <2>2, Zenon DEF Owners, OrgTypes, Removes
    <2>7. \A v \in OrgWorkers, x \in OrgUsers : Removes(v, x)' => Removes(v, x)
      BY <2>3, OrgFreeIs, Zenon DEF Removes
    <2>8. founded
      BY <1>0, <2>1, OrgFreeIs, Zenon DEF OwnerStays
    <2>9. OwnerStays'
      BY <1>0, <2>1, <2>6, <2>7, <2>8, Zenon DEF OwnerStays, Owners
    <2>10. KeysIssue'
      <3> SUFFICES ASSUME NEW k \in IssueKeys \ lapsed PROVE KeyIssues(k)'
        BY <2>1, Zenon DEF KeysIssue
      <3>1. \A v \in OrgWorkers : Issues(v, k)' => Issues(v, k) /\ orgReq'[v] = orgReq[v]
        BY <2>3, OrgFreeIs, Zenon DEF Issues
      <3> QED BY <1>0, <2>1, <3>1 DEF KeyIssues, KeysIssue
    <2> QED BY <2>4, <2>5, <2>9, <2>10, Zenon DEF OrgInv
  <1>7. ASSUME NEW w \in OrgWorkers, NEW actor \in OrgUsers, NEW k \in IssueKeys, NEW scopes \in ScopeLists,
               BeginIssueKey(w, actor, k, scopes)
        PROVE  OrgInv'
    <2> DEFINE r == [op |-> "issue", stage |-> "insert", key |-> k, scopes |-> scopes, role |-> members[actor]]
    <2>1. r \in OrgRequest /\ r.op = "issue" /\ r.key = k /\ r.scopes = scopes /\ r.role = members[actor]
      BY <1>0, Zenon DEF OrgRequest, OrgTypes
    <2>2. /\ founded /\ orgReq[w] = OrgFree /\ orgReq' = [orgReq EXCEPT ![w] = r]
          /\ issueIdem' = [issueIdem EXCEPT ![k] = PendingKey(scopes)]
          /\ BeginKey(issueIdem[k], scopes) = "owner" /\ scopes \subseteq allowed_scopes_for_role(members[actor])
          /\ UNCHANGED <<members, founded, apiKeys, crossing, issuedFor, lapsed>>
      BY <1>7, Zenon DEF BeginIssueKey, BeginOrg, orgHistory, validate_scopes
    <2> HIDE DEF r
    <2>3. orgReq'[w] = r /\ \A v \in OrgWorkers \ {w} : orgReq'[v] = orgReq[v]
      BY <1>0, <2>2, OrgSlot, Zenon
    <2>4. OrgTypes'
      BY <1>0, <2>1, <2>2, Zenon DEF OrgTypes, OrgRequest
    <2>5. ScopesGranted'
      BY <1>0, <2>1, <2>2, <2>3 DEF ScopesGranted
    <2>6. OwnerStays'
      BY <1>0, <2>1, <2>2, <2>3 DEF OwnerStays, Owners, Removes
    <2>7. KeysIssue'
      <3> SUFFICES ASSUME NEW j \in IssueKeys \ lapsed PROVE KeyIssues(j)'
        BY <2>2, Zenon DEF KeysIssue
      <3>1. CASE j = k
        <4>1. issueIdem[k].state = "free" /\ issueIdem'[k].state = "pending"
          BY <1>0, <2>2, Zenon DEF BeginKey, PendingKey, OrgTypes
        <4>2. issuedFor[k] = {} /\ \A v \in OrgWorkers : ~ Issues(v, k)
          BY <1>0, <3>1, <4>1, Zenon DEF KeysIssue, KeyIssues
        <4>3. \A v \in OrgWorkers : Issues(v, k)' => v = w
          BY <2>3, <4>2, Zenon DEF Issues
        <4> QED BY <2>2, <3>1, <4>1, <4>2, <4>3, Zenon DEF KeyIssues
      <3>2. CASE j # k
        <4>1. \A v \in OrgWorkers : Issues(v, j)' => Issues(v, j) /\ orgReq'[v] = orgReq[v]
          BY <2>1, <2>3, <3>2, Zenon DEF Issues
        <4>2. issueIdem'[j] = issueIdem[j]
          BY <1>0, <2>2, <3>2, Zenon DEF OrgTypes
        <4> QED BY <1>0, <2>2, <4>1, <4>2, ZenonT(30) DEF KeyIssues, KeysIssue
      <3> QED BY <3>1, <3>2, Zenon
    <2> QED BY <2>4, <2>5, <2>6, <2>7, Zenon DEF OrgInv
  <1>8. ASSUME NEW w \in OrgWorkers, InsertApiKey(w) PROVE OrgInv'
    <2> DEFINE key == [status |-> "ACTIVE", scopes |-> orgReq[w].scopes, grantor |-> orgReq[w].role]
    <2>1. PICK id \in DOMAIN apiKeys :
          /\ orgReq[w].op = "issue" /\ orgReq[w].stage = "insert"
          /\ apiKeys' = [apiKeys EXCEPT ![id] = key]
          /\ issuedFor' = [issuedFor EXCEPT ![orgReq[w].key] = @ \cup {id}]
          /\ orgReq' = [orgReq EXCEPT ![w].stage = "complete"]
          /\ UNCHANGED <<members, founded, issueIdem, crossing, lapsed>>
      BY <1>8, Zenon DEF InsertApiKey
    <2>2. /\ orgReq[w] \in [op : {"issue"}, stage : {"insert", "complete"}, key : IssueKeys,
                             scopes : SUBSET Scope, role : MemberRole]
      BY <1>0, <2>1 DEF OrgTypes, OrgRequest, OrgFree
    <2> DEFINE r == [orgReq[w] EXCEPT !.stage = "complete"]
    <2>3. /\ r \in OrgRequest /\ r.op = "issue" /\ r.stage = "complete" /\ r.key = orgReq[w].key
          /\ r.scopes = orgReq[w].scopes /\ r.role = orgReq[w].role
      BY <2>2, Zenon DEF OrgRequest
    <2>4. orgReq' = [orgReq EXCEPT ![w] = r]
      BY <1>0, <2>1, Zenon DEF OrgTypes
    <2> HIDE DEF r
    <2>5. orgReq'[w] = r /\ \A v \in OrgWorkers \ {w} : orgReq'[v] = orgReq[v]
      BY <1>0, <2>4, OrgSlot, Zenon
    <2>6. key \in ApiKey /\ key.scopes = orgReq[w].scopes /\ key.grantor = orgReq[w].role
      BY <2>2, Zenon DEF ApiKey
    <2> HIDE DEF key
    <2>7. OrgTypes'
      <3>1. orgReq' \in [OrgWorkers -> OrgRequest]
        BY <1>0, <2>3, <2>4, Zenon DEF OrgTypes
      <3>2. apiKeys' \in [1..MaxApiKeys -> ApiKey]
        BY <1>0, <2>1, <2>6, Zenon DEF OrgTypes
      <3> QED BY <1>0, <2>1, <3>1, <3>2, Zenon DEF OrgTypes, OrgRequest
    <2>8. ScopesGranted'
      BY <1>0, <2>1, <2>3, <2>5, <2>6 DEF ScopesGranted, OrgTypes
    <2>9. OwnerStays'
      BY <1>0, <2>1, <2>3, <2>5, OrgFreeIs DEF OwnerStays, Owners, Removes
    <2>10. KeysIssue'
      <3> SUFFICES ASSUME NEW k \in IssueKeys \ lapsed PROVE KeyIssues(k)'
        BY <2>1, Zenon DEF KeysIssue
      <3>0. KeyIssues(k)
        BY <1>0, Zenon DEF KeysIssue
      <3>1. \A v \in OrgWorkers : Issues(v, k)' => Issues(v, k) /\ (v = w \/ orgReq'[v] = orgReq[v])
        BY <2>1, <2>3, <2>5 DEF Issues
      <3>2. CASE orgReq[w].key = k
        <4>1. Issues(w, k) /\ issuedFor[k] = {} /\ issueIdem[k].state # "free"
          BY <2>1, <3>0, <3>2, Zenon DEF Issues, KeyIssues
        <4>2. issuedFor'[k] = {id} /\ issueIdem' = issueIdem
          BY <1>0, <2>1, <3>2, <4>1, Zenon DEF OrgTypes
        <4>3. \A v \in OrgWorkers : Issues(v, k)' => v = w
          BY <3>0, <3>1, <4>1, Zenon DEF KeyIssues
        <4>4. orgReq'[w].stage # "insert"
          BY <2>3, <2>5, Zenon
        <4> QED BY <4>1, <4>2, <4>3, <4>4, Zenon DEF KeyIssues
      <3>3. CASE orgReq[w].key # k
        <4>1. issuedFor'[k] = issuedFor[k] /\ issueIdem' = issueIdem
          BY <1>0, <2>1, <2>2, <3>3, Zenon DEF OrgTypes
        <4>2. ~ Issues(w, k)'
          BY <2>3, <2>5, <3>3, Zenon DEF Issues
        <4> QED BY <3>0, <3>1, <4>1, <4>2, Zenon DEF KeyIssues
      <3> QED BY <3>2, <3>3, Zenon
    <2> QED BY <2>7, <2>8, <2>9, <2>10, Zenon DEF OrgInv
  <1>9. ASSUME NEW w \in OrgWorkers, EndIssueKey(w) PROVE OrgInv'
    <2>1. /\ orgReq[w].op = "issue" /\ orgReq' = [orgReq EXCEPT ![w] = OrgFree]
          /\ \/ /\ orgReq[w].stage = "complete"
                /\ issueIdem' = [issueIdem EXCEPT ![orgReq[w].key] = CompletedKey(orgReq[w].scopes, "redacted")]
             \/ /\ orgReq[w].stage = "insert"
                /\ issueIdem' = [issueIdem EXCEPT ![orgReq[w].key] = FreeKey]
          /\ UNCHANGED <<members, founded, apiKeys, crossing, issuedFor, lapsed>>
      BY <1>9, Zenon DEF EndIssueKey, EndOrg, orgHistory, ReleasedKey
    <2>2. orgReq[w].key \in IssueKeys
      BY <1>0, <2>1 DEF OrgTypes, OrgRequest, OrgFree
    <2>3. orgReq'[w] = OrgFree /\ \A v \in OrgWorkers \ {w} : orgReq'[v] = orgReq[v]
      BY <1>0, <2>1, OrgSlot, Zenon
    <2>4. OrgTypes'
      BY <1>0, <2>1, Zenon DEF OrgTypes, OrgRequest
    <2>5. ScopesGranted'
      BY <1>0, <2>1, <2>3, OrgFreeIs DEF ScopesGranted
    <2>6. OwnerStays'
      BY <1>0, <2>1, <2>3, OrgFreeIs DEF OwnerStays, Owners, Removes
    <2>7. KeysIssue'
      <3> SUFFICES ASSUME NEW k \in IssueKeys \ lapsed PROVE KeyIssues(k)'
        BY <2>1, Zenon DEF KeysIssue
      <3>0. KeyIssues(k)
        BY <1>0, Zenon DEF KeysIssue
      <3>1. \A v \in OrgWorkers : Issues(v, k)' => v # w /\ Issues(v, k) /\ orgReq'[v] = orgReq[v]
        BY <2>3, OrgFreeIs, Zenon DEF Issues
      <3>2. CASE orgReq[w].key = k
        <4>1. Issues(w, k)
          BY <2>1, <3>2, Zenon DEF Issues
        <4>2. \A v \in OrgWorkers : ~ Issues(v, k)'
          BY <3>0, <3>1, <4>1, Zenon DEF KeyIssues
        <4>3. issueIdem'[k].state = "free" => issuedFor[k] = {}
          <5>1. issueIdem'[k] = FreeKey => orgReq[w].stage = "insert" \/ FreeKey = CompletedKey(orgReq[w].scopes, "redacted")
            BY <1>0, <2>1, <2>2, <3>2, Zenon DEF OrgTypes
          <5>2. issueIdem'[k] = FreeKey \/ issueIdem'[k] = CompletedKey(orgReq[w].scopes, "redacted")
            BY <1>0, <2>1, <2>2, <3>2, Zenon DEF OrgTypes
          <5>3. CompletedKey(orgReq[w].scopes, "redacted").state # "free" /\ FreeKey.state = "free"
            BY Zenon DEF CompletedKey, FreeKey
          <5>4. orgReq[w].stage = "insert" => issuedFor[k] = {}
            BY <3>0, <4>1, Zenon DEF KeyIssues
          <5> QED BY <5>1, <5>2, <5>3, <5>4, Zenon
        <4> QED BY <2>1, <3>0, <4>2, <4>3, Zenon DEF KeyIssues
      <3>3. CASE orgReq[w].key # k
        <4>1. issueIdem'[k] = issueIdem[k]
          BY <1>0, <2>1, <3>3, Zenon DEF OrgTypes
        <4> QED BY <2>1, <3>0, <3>1, <4>1, Zenon DEF KeyIssues
      <3> QED BY <3>2, <3>3, Zenon
    <2> QED BY <2>4, <2>5, <2>6, <2>7, Zenon DEF OrgInv
  <1>10. ASSUME NEW k \in IssueKeys, IssueKeyExpires(k) PROVE OrgInv'
    <2>1. /\ issueIdem' = [issueIdem EXCEPT ![k] = FreeKey] /\ lapsed' = lapsed \cup {k}
          /\ UNCHANGED <<members, founded, apiKeys, orgReq, crossing, issuedFor>>
      BY <1>10, Zenon DEF IssueKeyExpires
    <2>2. OrgTypes' /\ ScopesGranted'
      BY <1>0, <2>1, Zenon DEF OrgTypes, OrgRequest, ScopesGranted
    <2>3. OwnerStays'
      BY <1>0, <2>1, Zenon DEF OwnerStays, Owners, Removes
    <2>4. KeysIssue'
      BY <1>0, <2>1, ZenonT(30) DEF KeysIssue, KeyIssues, Issues, OrgTypes
    <2> QED BY <2>2, <2>3, <2>4, Zenon DEF OrgInv
  <1>11. ASSUME NEW w \in OrgWorkers, RevokeKey(w) PROVE OrgInv'
    <2>1. /\ orgReq[w].op = "revoke" /\ orgReq' = [orgReq EXCEPT ![w] = OrgFree]
          /\ apiKeys' = [apiKeys EXCEPT ![orgReq[w].id].status = "REVOKED"]
          /\ UNCHANGED <<members, founded, issueIdem, crossing, issuedFor, lapsed>>
      BY <1>11, Zenon DEF RevokeKey, EndOrg, orgHistory
    <2>2. orgReq[w].id \in 1..MaxApiKeys
      BY <1>0, <2>1 DEF OrgTypes, OrgRequest, OrgFree
    <2>3. orgReq'[w] = OrgFree /\ \A v \in OrgWorkers \ {w} : orgReq'[v] = orgReq[v]
      BY <1>0, <2>1, OrgSlot, Zenon
    <2>4. /\ apiKeys' \in [1..MaxApiKeys -> ApiKey]
          /\ \A i \in 1..MaxApiKeys : /\ apiKeys'[i].scopes = apiKeys[i].scopes
                                       /\ apiKeys'[i].grantor = apiKeys[i].grantor
      BY <1>0, <2>1, <2>2 DEF OrgTypes, ApiKey
    <2>5. OrgTypes'
      BY <1>0, <2>1, <2>4, Zenon DEF OrgTypes, OrgRequest
    <2>6. ScopesGranted'
      BY <1>0, <2>3, <2>4, OrgFreeIs, Zenon DEF ScopesGranted, OrgTypes
    <2>7. OwnerStays'
      BY <1>0, <2>1, <2>3, OrgFreeIs DEF OwnerStays, Owners, Removes
    <2>8. KeysIssue'
      <3> SUFFICES ASSUME NEW k \in IssueKeys \ lapsed PROVE KeyIssues(k)'
        BY <2>1, Zenon DEF KeysIssue
      <3>1. \A v \in OrgWorkers : Issues(v, k)' => Issues(v, k) /\ orgReq'[v] = orgReq[v]
        BY <2>3, OrgFreeIs, Zenon DEF Issues
      <3> QED BY <1>0, <2>1, <3>1, Zenon DEF KeyIssues, KeysIssue
    <2> QED BY <2>5, <2>6, <2>7, <2>8, Zenon DEF OrgInv
  <1>12. CASE UNCHANGED orgVars
    <2>1. UNCHANGED <<members, founded, apiKeys, issueIdem, orgReq, crossing, issuedFor, lapsed>>
      BY <1>12, Zenon DEF orgVars, orgHistory
    <2>2. OrgTypes' /\ ScopesGranted'
      BY <1>0, <2>1, Zenon DEF OrgTypes, OrgRequest, ScopesGranted
    <2>3. OwnerStays'
      BY <1>0, <2>1, Zenon DEF OwnerStays, Owners, Removes
    <2>4. KeysIssue'
      BY <1>0, <2>1, ZenonT(30) DEF KeysIssue, KeyIssues, Issues
    <2> QED BY <2>2, <2>3, <2>4, Zenon DEF OrgInv
  <1> QED
    BY <1>1, <1>2, <1>3, <1>4, <1>5, <1>6, <1>7, <1>8, <1>9, <1>10, <1>11, <1>12, Zenon DEF OrgNext

(* For any number of workers, users and keys: a founded organization keeps  *)
(* an owner unless removals crossed, an Idempotency-Key whose record is     *)
(* kept issues one API key, and no key has a scope above the role of who    *)
(* asked for it.                                                            *)
THEOREM MembershipsSoundAlways == OrgSpec => []MembershipsSound
  <1>1. OrgInv => MembershipsSound
    <2> SUFFICES ASSUME OrgInv PROVE MembershipsSound
      BY Zenon
    <2>1. OrgTypeOK /\ OrgKeepsOwner
      BY Zenon DEF OrgInv, OrgTypes, ScopesGranted, OwnerStays, OrgTypeOK, OrgKeepsOwner, MemberRole
    <2>2. ASSUME NEW k \in IssueKeys \ lapsed PROVE \A i, j \in issuedFor[k] : i = j
      <3>1. issuedFor[k] = {} \/ \E i : issuedFor[k] = {i}
        BY Zenon DEF OrgInv, KeysIssue, KeyIssues
      <3> QED BY <3>1, Zenon
    <2> QED BY <2>1, <2>2, Zenon DEF MembershipsSound, OneApiKeyPerIdem
  <1> QED BY OrgInitInv, OrgNextInv, <1>1, PTL DEF OrgSpec

-----------------------------------------------------------------------------
(* Kyc: the inductive invariant.                                            *)

KycRow == KycTier \cup {NoRecord}

KycSession ==
    [op : {"session"}, stage : {"start", "merge", "write"}, seen : KycRow, base : KycRow, tier : KycTier]

KycCallback ==
    [op : {"pass", "fail"}, stage : {"merge", "write"}, seen : KycRow, base : KycRow,
     granted : 1..2, tier : KycTier]

KycEvent == [kind : {"passed", "failed"}, tier : KycTier]

KycTypes ==
    /\ record \in KycRow /\ granted \in KycTier /\ staleTier \in BOOLEAN
    /\ kycLog \in Seq(KycEvent) /\ kycOffset \in 0..Len(kycLog)
    /\ kycReq \in [KycWorkers -> {KycFree} \cup KycSession \cup KycCallback]

(* What a handler in progress knows: the tier it writes comes from the      *)
(* record it read and its own grant, and it compares with that record, or   *)
(* with the one it found later if there was none.                           *)
HandlerKnows(r) ==
    /\ TierOf(r.seen) <= granted
    /\ r.tier = IF r.op = "pass" THEN NewTier(TierOf(r.seen), r.granted) ELSE TierOf(r.seen)
    /\ r.seen # NoRecord => r.base = r.seen /\ r.stage # "merge"
    /\ record = NoRecord => r.base = NoRecord

HandlersKnow == \A w \in KycWorkers : kycReq[w] # KycFree => HandlerKnows(kycReq[w])

(* The last event tells the tier of the record. *)
LastTellsTier ==
    /\ kycLog # <<>> /\ ~ staleTier /\ kycLog[Len(kycLog)].kind = "passed"
         => kycLog[Len(kycLog)].tier = TierOf(record)
    /\ kycLog # <<>> /\ kycOffset = Len(kycLog) => userTier = TierAfter(kycLog[Len(kycLog)])

KycInv == KycTypes /\ HandlersKnow /\ TierIsGranted /\ LastTellsTier

(* No record, no handler and no event at the start. *)
LEMMA KycInitInv == KycInit => KycInv
  <1> SUFFICES ASSUME KycInit PROVE KycInv
    BY Zenon
  <1>1. KycTypes
    <2>1. kycLog \in Seq(KycEvent) /\ Len(kycLog) = 0 /\ kycOffset \in 0..Len(kycLog)
      BY DEF KycInit
    <2>2. record \in KycRow /\ granted \in KycTier
      BY DEF KycInit, KycRow, KycTier
    <2>4. staleTier \in BOOLEAN
      BY Zenon DEF KycInit
    <2>3. kycReq \in [KycWorkers -> {KycFree} \cup KycSession \cup KycCallback]
      BY Zenon DEF KycInit
    <2> QED BY <2>1, <2>2, <2>3, <2>4, Zenon DEF KycTypes
  <1>2. HandlersKnow /\ LastTellsTier
    BY Zenon DEF KycInit, HandlersKnow, LastTellsTier
  <1>3. TierIsGranted
    BY DEF KycInit, TierIsGranted, TierOf
  <1> QED BY <1>1, <1>2, <1>3, Zenon DEF KycInv

(* What a step leaves to show when it writes neither the record nor its     *)
(* history.                                                                 *)
LEMMA KycReadsKeep ==
  ASSUME KycInv, UNCHANGED <<record, granted, staleTier>>,
         kycLog' = kycLog, kycOffset' \in 0..Len(kycLog),
         kycLog # <<>> /\ kycOffset' = Len(kycLog) => userTier' = TierAfter(kycLog[Len(kycLog)]),
         NEW w \in KycWorkers, NEW r \in {KycFree} \cup KycSession \cup KycCallback,
         r # KycFree => HandlerKnows(r),
         kycReq' = kycReq \/ kycReq' = [kycReq EXCEPT ![w] = r]
  PROVE  KycInv'
  <1>1. KycTypes'
    BY Zenon DEF KycInv, KycTypes
  <1>2. HandlersKnow'
    BY DEF KycInv, KycTypes, HandlersKnow, HandlerKnows
  <1>3. TierIsGranted'
    BY Zenon DEF KycInv, TierIsGranted, TierOf
  <1>4. LastTellsTier'
    BY Zenon DEF KycInv, LastTellsTier, TierOf, TierAfter
  <1> QED BY <1>1, <1>2, <1>3, <1>4, Zenon DEF KycInv

(* The operation of a request tells what it holds. *)
LEMMA KycTyping ==
  ASSUME NEW r, r = KycFree \/ r \in KycSession \cup KycCallback
  PROVE  /\ r.op = "session" => r \in KycSession
         /\ r.op \in {"pass", "fail"} => r \in KycCallback
         /\ r # KycFree => r \in KycSession \cup KycCallback /\ r.op \in {"session", "pass", "fail"}
         /\ r = KycFree => r.op = "none"
BY DEF KycFree, KycSession, KycCallback

(* Every step keeps the invariant. *)
LEMMA KycNextInv == KycInv /\ [KycNext]_kycVars => KycInv'
  <1> SUFFICES ASSUME KycInv, [KycNext]_kycVars PROVE KycInv'
    BY Zenon
  <1> USE KycAssumption
  <1>0. /\ KycTypes /\ HandlersKnow /\ TierIsGranted /\ LastTellsTier
        /\ TierOf(record) \in KycTier
    BY DEF KycInv, KycTypes, TierOf, KycRow, KycTier
  <1>1. ASSUME NEW w \in KycWorkers, NEW t \in 1..2, CreateSession(w, t) PROVE KycInv'
    <2> DEFINE r == [op |-> "session", stage |-> "start", seen |-> record, base |-> record,
                     tier |-> TierOf(record)]
    <2>1. r \in KycSession
      BY <1>0, Zenon DEF KycSession, KycTypes
    <2>2. HandlerKnows(r)
      BY <1>0, Zenon DEF HandlerKnows, TierIsGranted
    <2>3. kycReq' = [kycReq EXCEPT ![w] = r] /\ UNCHANGED <<record, userTier, kycLog, kycOffset, granted, staleTier>>
      BY <1>1, Zenon DEF CreateSession, BeginKyc
    <2> HIDE DEF r
    <2> QED BY <1>0, <2>1, <2>2, <2>3, KycReadsKeep, Zenon DEF KycTypes, LastTellsTier
  <1>2. ASSUME NEW w \in KycWorkers, ProviderStarts(w) PROVE KycInv'
    <2> DEFINE q == kycReq[w]
               r == [q EXCEPT !.stage = BeforeMerge(q.seen)]
    <2>1. q \in KycSession /\ q # KycFree /\ HandlerKnows(q)
      BY <1>0, <1>2, KycTyping, Zenon DEF ProviderStarts, HandlersKnow, KycTypes, KycFree
    <2>2. r \in KycSession /\ HandlerKnows(r)
      BY <2>1, Zenon DEF KycSession, HandlerKnows, BeforeMerge
    <2>3. /\ kycReq' = [kycReq EXCEPT ![w] = r] \/ kycReq' = [kycReq EXCEPT ![w] = KycFree]
          /\ UNCHANGED <<record, userTier, kycLog, kycOffset, granted, staleTier>>
      BY <1>0, <1>2, Zenon DEF ProviderStarts, KycTypes
    <2> HIDE DEF r, q
    <2> QED BY <1>0, <2>2, <2>3, KycReadsKeep, Zenon DEF KycTypes, LastTellsTier
  <1>3. ASSUME NEW w \in KycWorkers, NEW passed \in BOOLEAN, NEW t \in 1..2, ApplyCallback(w, passed, t)
        PROVE  KycInv'
    <2> DEFINE r == [op |-> IF passed THEN "pass" ELSE "fail", stage |-> BeforeMerge(record),
                     seen |-> record, base |-> record, granted |-> t,
                     tier |-> IF passed THEN NewTier(TierOf(record), t) ELSE TierOf(record)]
    <2>1. r \in KycCallback
      BY <1>0 DEF KycCallback, KycTypes, BeforeMerge, NewTier, KycTier
    <2>2. HandlerKnows(r)
      BY <1>0, Zenon DEF HandlerKnows, TierIsGranted, BeforeMerge
    <2>3. kycReq' = [kycReq EXCEPT ![w] = r] /\ UNCHANGED <<record, userTier, kycLog, kycOffset, granted, staleTier>>
      BY <1>3, Zenon DEF ApplyCallback, BeginKyc
    <2> HIDE DEF r
    <2> QED BY <1>0, <2>1, <2>2, <2>3, KycReadsKeep, Zenon DEF KycTypes, LastTellsTier
  <1>4. ASSUME NEW w \in KycWorkers, MergeReads(w) PROVE KycInv'
    <2> DEFINE q == kycReq[w]
               r == [q EXCEPT !.base = record, !.stage = "write"]
    <2>1. q \in KycSession \cup KycCallback /\ HandlerKnows(q) /\ q.stage = "merge"
      BY <1>0, <1>4, Zenon DEF MergeReads, HandlersKnow, KycTypes
    <2>2. r \in KycSession \cup KycCallback
      BY <1>0, <2>1, Zenon DEF KycSession, KycCallback, KycTypes
    <2>3. HandlerKnows(r)
      BY <2>1, Zenon DEF HandlerKnows, KycSession, KycCallback
    <2>4. kycReq' = [kycReq EXCEPT ![w] = r] /\ UNCHANGED <<record, userTier, kycLog, kycOffset, granted, staleTier>>
      BY <1>0, <1>4, Zenon DEF MergeReads, KycTypes
    <2> HIDE DEF r, q
    <2> QED BY <1>0, <2>2, <2>3, <2>4, KycReadsKeep, Zenon DEF KycTypes, LastTellsTier
  <1>5. ASSUME NEW w \in KycWorkers, WriteRecord(w) PROVE KycInv'
    <2> DEFINE q == kycReq[w]
    <2>1. q \in KycSession \cup KycCallback /\ q # KycFree /\ HandlerKnows(q) /\ q.stage = "write"
      BY <1>0, <1>5, Zenon DEF WriteRecord, HandlersKnow, KycTypes
    <2>2. kycReq' = [kycReq EXCEPT ![w] = KycFree] /\ UNCHANGED <<userTier, kycOffset>>
      BY <1>5, Zenon DEF WriteRecord
    <2>3. CASE UNCHANGED <<record, kycLog, granted, staleTier>>
      BY <1>0, <2>2, <2>3, KycReadsKeep, Zenon DEF KycTypes, LastTellsTier
    <2>4. CASE /\ record' = Flushed(q)
               /\ kycLog' = kycLog \o EventsOf(q)
               /\ granted' = IF q.op = "pass" /\ q.granted > granted THEN q.granted ELSE granted
               /\ staleTier' = (staleTier \/ q.seen # record)
      <3> HIDE DEF q
      <3>1. q.seen \in KycRow /\ q.base \in KycRow /\ q.tier \in KycTier /\ (q.op = "pass" => q.granted \in 1..2)
        BY <2>1, Zenon DEF KycSession, KycCallback
      <3>2. record' \in KycRow /\ granted' \in KycTier /\ granted' >= granted /\ staleTier' \in BOOLEAN
        BY <1>0, <2>4, <3>1 DEF Flushed, KycRow, KycTypes, KycTier
      <3>3. record' # NoRecord \/ (record = NoRecord /\ record' = NoRecord /\ FALSE)
        BY <1>0, <2>1, <2>4, <3>1 DEF Flushed, KycRow, KycTypes, KycTier, HandlerKnows
      <3>4. q.tier <= granted' /\ TierOf(q.tier) = q.tier
        BY <1>0, <2>1, <2>4, <3>1 DEF HandlerKnows, KycTypes, KycTier, KycRow, NewTier, TierOf
      <3>5. q.seen = record => record' = q.tier
        BY <1>0, <2>1, <2>4, <3>1, Zenon DEF Flushed, HandlerKnows
      <3>50. record' = record \/ record' = q.tier
        BY <2>4, Zenon DEF Flushed
      <3>51. ~ staleTier' => q.seen = record /\ ~ staleTier
        BY <2>4, Zenon
      <3>52. TierIsGranted'
        <4>1. TierOf(record)' <= granted'
          BY <1>0, <3>1, <3>2, <3>4, <3>50 DEF TierIsGranted, TierOf, KycTypes, KycTier, KycRow
        <4>2. ASSUME ~ staleTier' PROVE granted' = q.tier
          <5>1. q.seen = record /\ TierOf(record) = granted
            BY <1>0, <3>51, <4>2 DEF TierIsGranted, KycTypes, KycTier
          <5> QED BY <1>0, <2>1, <2>4, <3>1, <5>1, Zenon DEF HandlerKnows, NewTier, KycTypes, KycTier
        <4>3. ASSUME ~ staleTier' PROVE TierOf(record)' = granted'
          BY <3>4, <3>5, <3>51, <4>2, <4>3, Zenon DEF TierOf
        <4> QED BY <3>2, <4>1, <4>3 DEF TierIsGranted, KycTier
      <3>53. ~ staleTier' => TierOf(record)' = q.tier
        BY <3>4, <3>5, <3>51, Zenon DEF TierOf
      <3>6. HandlersKnow'
        BY <1>0, <2>2, <3>1, <3>2, <3>3 DEF HandlersKnow, HandlerKnows, KycTypes, KycTier, TierOf, KycRow, KycSession, KycCallback
      <3>7. CASE q.op = "session"
        <4>1. kycLog' = kycLog
          BY <1>0, <2>4, <3>7 DEF EventsOf, KycTypes
        <4>2. ~ staleTier' => TierOf(record)' = TierOf(record)
          BY <2>1, <3>51, <3>53, <3>7, Zenon DEF HandlerKnows
        <4>3. LastTellsTier'
          BY <1>0, <2>2, <3>51, <4>1, <4>2, Zenon DEF LastTellsTier, TierAfter
        <4> QED BY <1>0, <2>2, <3>2, <3>52, <3>6, <4>1, <4>3, Zenon DEF KycInv, KycTypes
      <3>8. CASE q.op \in {"pass", "fail"}
        <4> DEFINE e == IF q.op = "pass" THEN [kind |-> "passed", tier |-> q.tier]
                                         ELSE [kind |-> "failed", tier |-> 0]
        <4>1. EventsOf(q) = <<e>> /\ e \in KycEvent /\ (e.kind = "passed" => e.tier = q.tier)
          BY <3>1, <3>8 DEF EventsOf, PassedTier, KycEvent, KycTier
        <4> HIDE DEF e
        <4>2. kycLog' = Append(kycLog, e)
          BY <1>0, <2>4, <4>1 DEF KycTypes
        <4>3. /\ kycLog' \in Seq(KycEvent) /\ Len(kycLog') = Len(kycLog) + 1
              /\ kycLog'[Len(kycLog')] = e
          BY <1>0, <4>1, <4>2 DEF KycTypes
        <4>4. LastTellsTier'
          BY <1>0, <2>2, <3>53, <4>1, <4>3 DEF LastTellsTier, TierAfter, KycTypes
        <4> QED BY <1>0, <2>2, <3>2, <3>52, <3>6, <4>3, <4>4 DEF KycInv, KycTypes
      <3> QED BY <2>1, <3>7, <3>8, Zenon DEF KycSession, KycCallback
    <2> QED BY <1>5, <2>3, <2>4, Zenon DEF WriteRecord
  <1>6. ASSUME ConsumeKycEvent PROVE KycInv'
    <2>1. /\ kycOffset < Len(kycLog) /\ userTier' = TierAfter(kycLog[kycOffset + 1])
          /\ kycOffset' = kycOffset + 1 /\ UNCHANGED <<record, kycLog, kycReq, granted, staleTier>>
      BY <1>6, Zenon DEF ConsumeKycEvent
    <2>2. KycTypes'
      BY <1>0, <2>1 DEF KycTypes
    <2>3. LastTellsTier'
      BY <1>0, <2>1, Zenon DEF KycTypes, LastTellsTier, TierOf, TierAfter
    <2>4. HandlersKnow' /\ TierIsGranted'
      BY <1>0, <2>1, Zenon DEF HandlersKnow, HandlerKnows, TierIsGranted, TierOf
    <2> QED BY <2>2, <2>3, <2>4, Zenon DEF KycInv
  <1>7. ASSUME KycEventRedelivered PROVE KycInv'
    <2>1. /\ kycOffset > 0 /\ kycOffset' = kycOffset - 1
          /\ UNCHANGED <<record, userTier, kycLog, kycReq, granted, staleTier>>
      BY <1>7, Zenon DEF KycEventRedelivered
    <2>2. KycTypes'
      BY <1>0, <2>1 DEF KycTypes
    <2>3. LastTellsTier'
      BY <1>0, <2>1 DEF KycTypes, LastTellsTier, TierOf, TierAfter
    <2>4. HandlersKnow' /\ TierIsGranted'
      BY <1>0, <2>1, Zenon DEF HandlersKnow, HandlerKnows, TierIsGranted, TierOf
    <2> QED BY <2>2, <2>3, <2>4, Zenon DEF KycInv
  <1>8. CASE UNCHANGED kycVars
    BY <1>8 DEF kycVars, KycInv, KycTypes, HandlersKnow, HandlerKnows, TierIsGranted, TierOf, LastTellsTier, TierAfter
  <1> QED BY <1>1, <1>2, <1>3, <1>4, <1>5, <1>6, <1>7, <1>8, Zenon DEF KycNext

(* For any number of workers, callbacks and events: the tier of a record is *)
(* one that a callback granted, and identity-service shows it once it has   *)
(* consumed the events, unless a handler wrote over a record it had not     *)
(* read.                                                                    *)
THEOREM TiersSoundAlways == KycSpec => []TiersSound
  <1>1. KycInv => TiersSound
    BY Zenon DEF KycInv, TiersSound, TiersAgree, LastTellsTier, TierAfter, KycTypes
  <1> QED BY KycInitInv, KycNextInv, <1>1, PTL DEF KycSpec

-----------------------------------------------------------------------------
(* MerchantOnboarding: the inductive invariant.                             *)

Targets == {"ACTIVE", "REJECTED", "SUSPENDED"}

MerRequest ==
    {MerFree} \cup [op : {"onboard"}]
        \cup [op : {"upload"}, doc : Documents, stage : {"first", "second"}]
        \cup [op : {"decide"}, target : Targets, seen : MerchantRow]
        \cup [op : {"tier"}, tier : FeeTiers, seen : FeeTiers]

MerTypes ==
    /\ merchant \in MerchantRow \cup {NoMerchant}
    /\ accounts \in [BankAccounts -> {"none", "PENDING_VERIFY", "VERIFIED"}]
    /\ contracts \in BOOLEAN
    /\ merReq \in [MerchantWorkers -> MerRequest]

(* A suspension date goes with the status. *)
DatesFit(row) ==
    /\ row.status \in {"PENDING_VERIFICATION", "ACTIVE"} => ~ row.suspended
    /\ row.status = "ACTIVE" => row.onboarded
    /\ row.status = "SUSPENDED" => row.suspended

MerchantFits ==
    merchant # NoMerchant =>
        /\ merchant.status # "DRAFT" /\ merchant.status = lastStatus
        /\ ~ staleStatus => DatesFit(merchant)
        /\ ~ staleFeeTier => lastTier = merchant.tier

(* What a handler has read and is still true when it writes. *)
HandlerSaw(q) ==
    /\ q.op = "upload" /\ q.stage = "second" => q.doc \in objects
    /\ q.op = "tier" => merchant # NoMerchant
    /\ q.op = "decide" =>
           /\ merchant # NoMerchant
           /\ can_transition(q.seen.status, q.target)
           /\ q.target = "ACTIVE" => MayActivate(VerifiedBank, contracts)
           /\ q.seen.onboarded => merchant.onboarded
           /\ ~ staleStatus => DatesFit(q.seen)

HandlersSaw == \A w \in MerchantWorkers : HandlerSaw(merReq[w])

MerchantInv ==
    /\ MerTypes /\ MerchantFits /\ HandlersSaw
    /\ documentRows \subseteq objects /\ ActiveHasPreconditions

(* A worker without a request serves no operation. *)
LEMMA MerFreeIs == MerFree.op = "none" /\ MerFree \in MerRequest
BY Zenon DEF MerFree, MerRequest

(* No merchant at the start. *)
LEMMA MerchantInitInv == MerchantInit => MerchantInv
  <1> SUFFICES ASSUME MerchantInit PROVE MerchantInv
    BY Zenon
  <1>1. MerTypes
    BY MerFreeIs, Zenon DEF MerchantInit, MerTypes
  <1>2. MerchantFits /\ documentRows \subseteq objects /\ ActiveHasPreconditions
    BY Zenon DEF MerchantInit, MerchantFits, ActiveHasPreconditions
  <1>3. HandlersSaw
    BY MerFreeIs, Zenon DEF MerchantInit, HandlersSaw, HandlerSaw
  <1> QED BY <1>1, <1>2, <1>3, Zenon DEF MerchantInv

(* A decision checked by can_transition goes elsewhere. *)
LEMMA DecisionsMove ==
  ASSUME NEW s, NEW t \in Targets, can_transition(s, t)
  PROVE  s # t /\ s # "REJECTED" /\ s # "DRAFT"
BY Zenon DEF can_transition, Targets

(* What a handler saw stays true: nothing is taken back. *)
LEMMA HandlersStay ==
  ASSUME MerTypes, HandlersSaw,
         \A w \in MerchantWorkers : merReq'[w] \in {merReq[w], MerFree},
         objects \subseteq objects',
         merchant # NoMerchant => merchant' # NoMerchant /\ (merchant.onboarded => merchant'.onboarded),
         MayActivate(VerifiedBank, contracts) => MayActivate(VerifiedBank, contracts)',
         staleStatus => staleStatus'
  PROVE  HandlersSaw'
  <1> SUFFICES ASSUME NEW w \in MerchantWorkers PROVE HandlerSaw(merReq[w])'
    BY Zenon DEF HandlersSaw
  <1>1. PICK q \in MerRequest : q = merReq[w]
    BY Zenon DEF MerTypes
  <1>2. HandlerSaw(q)
    BY <1>1, Zenon DEF HandlersSaw
  <1>3. HandlerSaw(q)'
    BY <1>2, Zenon DEF HandlerSaw, DatesFit
  <1>4. CASE merReq'[w] = q
    BY <1>3, <1>4, Zenon DEF HandlerSaw
  <1>5. CASE merReq'[w] = MerFree
    BY <1>5, MerFreeIs, Zenon DEF HandlerSaw
  <1> QED BY <1>1, <1>4, <1>5, Zenon

(* A handler begins. *)
LEMMA HandlerBegins ==
  ASSUME MerchantInv, NEW w \in MerchantWorkers, NEW q \in MerRequest, HandlerSaw(q), BeginMer(w, q)
  PROVE  MerchantInv'
  <1>1. /\ merReq' = [merReq EXCEPT ![w] = q]
        /\ UNCHANGED <<merchant, accounts, contracts, objects, documentRows, lastStatus, lastTier, staleStatus, staleFeeTier>>
    BY Zenon DEF BeginMer, merTables, merEvents, merHistory
  <1>2. MerTypes'
    BY <1>1, Zenon DEF MerchantInv, MerTypes
  <1>3. HandlersSaw'
    BY <1>1 DEF MerchantInv, MerTypes, HandlersSaw, HandlerSaw, VerifiedBank, MayActivate
  <1>4. MerchantFits' /\ (documentRows \subseteq objects)' /\ ActiveHasPreconditions'
    BY <1>1, Zenon DEF MerchantInv, MerchantFits, ActiveHasPreconditions, VerifiedBank
  <1> QED BY <1>2, <1>3, <1>4, Zenon DEF MerchantInv

(* A step that writes nothing in the merchant's row. *)
LEMMA RowUntouched ==
  ASSUME MerchantInv, MerTypes', HandlersSaw', (documentRows \subseteq objects)',
         UNCHANGED <<merchant, lastStatus, lastTier, staleStatus, staleFeeTier>>,
         VerifiedBank => VerifiedBank', contracts => contracts'
  PROVE  MerchantInv'
BY Zenon DEF MerchantInv, MerchantFits, ActiveHasPreconditions

(* A decision is written. *)
LEMMA DecisionKeeps ==
  ASSUME MerchantInv, NEW w \in MerchantWorkers, WriteDecision(w)
  PROVE  MerchantInv' /\ (merchant.status = "REJECTED" => staleStatus')
  <1>0. MerTypes /\ MerchantFits /\ HandlersSaw /\ ActiveHasPreconditions /\ documentRows \subseteq objects
    BY Zenon DEF MerchantInv
  <1>1. PICK q \in [op : {"decide"}, target : Targets, seen : MerchantRow] : q = merReq[w]
    BY <1>0 DEF WriteDecision, MerTypes, MerRequest, MerFree
  <1>2. q.target \in Targets /\ q.seen \in MerchantRow /\ HandlerSaw(q) /\ q.op = "decide"
    BY <1>0, <1>1, Zenon DEF HandlersSaw
  <1>3. PICK seen \in MerchantRow, target \in Targets : seen = q.seen /\ target = q.target
    BY <1>2, Zenon
  <1>4. /\ merchant # NoMerchant /\ can_transition(seen.status, target)
        /\ target = "ACTIVE" => MayActivate(VerifiedBank, contracts)
        /\ seen.onboarded => merchant.onboarded
        /\ ~ staleStatus => DatesFit(seen)
    BY <1>2, <1>3, Zenon DEF HandlerSaw
  <1>5. seen.status # target /\ seen.status # "REJECTED"
    BY <1>4, DecisionsMove, Zenon
  <1>6. /\ merchant' = [merchant EXCEPT
               !.status = Written(seen.status, target, @),
               !.onboarded = Written(seen.onboarded, seen.onboarded \/ target = "ACTIVE", @),
               !.suspended = Written(seen.suspended, SuspendedAfter(seen, target), @)]
        /\ lastStatus' = target
        /\ merReq' = [merReq EXCEPT ![w] = MerFree]
        /\ UNCHANGED <<accounts, contracts, objects, documentRows, lastTier, staleFeeTier>>
    BY <1>1, <1>3, Zenon DEF WriteDecision, EndMer
  <1>7. ~ staleStatus' => ~ staleStatus /\ seen.status = merchant.status
    BY <1>1, <1>3, Zenon DEF WriteDecision
  <1>8. merchant \in MerchantRow
    BY <1>0, <1>4, Zenon DEF MerTypes
  <1>9. /\ merchant.onboarded \in BOOLEAN /\ merchant.suspended \in BOOLEAN /\ seen.onboarded \in BOOLEAN
        /\ seen.suspended \in BOOLEAN
    BY <1>8, Zenon DEF MerchantRow
  <1>10. PICK onboarded \in BOOLEAN : onboarded = Written(seen.onboarded, seen.onboarded \/ target = "ACTIVE", merchant.onboarded)
    BY <1>9, Zenon DEF Written
  <1>11. PICK suspended \in BOOLEAN : suspended = Written(seen.suspended, SuspendedAfter(seen, target), merchant.suspended)
    BY <1>9, Zenon DEF Written, SuspendedAfter, Targets
  <1>12. merchant' = [merchant EXCEPT !.status = target, !.onboarded = onboarded, !.suspended = suspended]
    BY <1>5, <1>6, <1>8, <1>10, <1>11, Zenon DEF Written, MerchantRow
  <1>13. /\ merchant' \in MerchantRow /\ merchant'.status = target /\ merchant'.onboarded = onboarded
         /\ merchant'.suspended = suspended /\ merchant'.tier = merchant.tier
    BY <1>8, <1>12, Zenon DEF MerchantRow, MerchantStatus, Targets
  <1>14. merchant' # NoMerchant
    BY <1>13, MerchantOnboardingAssumption, Zenon
  <1>15. (merchant.onboarded => onboarded) /\ (target = "ACTIVE" => onboarded)
    BY <1>4, <1>9, <1>10, Zenon DEF Written
  <1>16. ~ staleStatus' => DatesFit(merchant')
    <2> SUFFICES ASSUME ~ staleStatus' PROVE DatesFit(merchant')
      BY Zenon
    <2>1. DatesFit(seen) /\ DatesFit(merchant) /\ seen.status = merchant.status
      BY <1>0, <1>4, <1>7, Zenon DEF MerchantFits
    <2>2. CASE target = "ACTIVE"
      <3>1. seen.status \in {"PENDING_VERIFICATION", "SUSPENDED"}
        BY <1>4, <2>2, Zenon DEF can_transition
      <3>2. ~ suspended
        BY <1>11, <2>1, <2>2, <3>1, Zenon DEF DatesFit, Written, SuspendedAfter
      <3> QED BY <1>13, <1>15, <2>2, <3>2, Zenon DEF DatesFit
    <2>3. CASE target = "SUSPENDED"
      <3>1. seen.status \in {"PENDING_VERIFICATION", "ACTIVE"}
        BY <1>4, <2>3, Zenon DEF can_transition
      <3>2. suspended
        BY <1>9, <1>11, <2>1, <2>3, <3>1, Zenon DEF DatesFit, Written, SuspendedAfter
      <3> QED BY <1>13, <2>3, <3>2, Zenon DEF DatesFit
    <2>4. CASE target = "REJECTED"
      BY <1>13, <2>4, Zenon DEF DatesFit
    <2> QED BY <2>2, <2>3, <2>4, Zenon DEF Targets
  <1>17. MerTypes'
    BY <1>0, <1>6, <1>13, MerFreeIs, Zenon DEF MerTypes
  <1>18. MerchantFits'
    <2>1. merchant'.status # "DRAFT" /\ merchant'.status = lastStatus'
      BY <1>6, <1>13, Zenon DEF Targets
    <2>2. ~ staleFeeTier' => lastTier' = merchant'.tier
      BY <1>0, <1>4, <1>6, <1>13, Zenon DEF MerchantFits
    <2> QED BY <1>16, <2>1, <2>2, Zenon DEF MerchantFits
  <1>19. ActiveHasPreconditions'
    BY <1>4, <1>6, <1>13, Zenon DEF ActiveHasPreconditions, MayActivate, VerifiedBank
  <1>20. HandlersSaw'
    <2>1. \A v \in MerchantWorkers : merReq'[v] \in {merReq[v], MerFree}
      BY <1>0, <1>6, Zenon DEF MerTypes
    <2>2. MayActivate(VerifiedBank, contracts)' <=> MayActivate(VerifiedBank, contracts)
      BY <1>6, Zenon DEF MayActivate, VerifiedBank
    <2>3. staleStatus => staleStatus'
      BY <1>7, Zenon
    <2> QED BY <1>0, <1>6, <1>13, <1>14, <1>15, <2>1, <2>2, <2>3, HandlersStay, Zenon
  <1>21. merchant.status = "REJECTED" => staleStatus'
    BY <1>5, <1>7, Zenon
  <1>22. (documentRows \subseteq objects)'
    BY <1>0, <1>6, Zenon
  <1> QED BY <1>17, <1>18, <1>19, <1>20, <1>21, <1>22, Zenon DEF MerchantInv

(* The fee tier is written. *)
LEMMA FeeTierKeeps ==
  ASSUME MerchantInv, NEW w \in MerchantWorkers, SetFeeTier(w)
  PROVE  MerchantInv' /\ merchant'.status = merchant.status
  <1>0. MerTypes /\ MerchantFits /\ HandlersSaw /\ ActiveHasPreconditions /\ documentRows \subseteq objects
    BY Zenon DEF MerchantInv
  <1>1. PICK q \in [op : {"tier"}, tier : FeeTiers, seen : FeeTiers] : q = merReq[w]
    BY <1>0 DEF SetFeeTier, MerTypes, MerRequest, MerFree
  <1>2. merchant # NoMerchant /\ merchant \in MerchantRow
    BY <1>0, <1>1, Zenon DEF HandlersSaw, HandlerSaw, MerTypes
  <1>3. /\ merchant' = [merchant EXCEPT !.tier = Written(q.seen, q.tier, @)]
        /\ lastTier' = q.tier
        /\ merReq' = [merReq EXCEPT ![w] = MerFree]
        /\ UNCHANGED <<accounts, contracts, objects, documentRows, lastStatus, staleStatus>>
    BY <1>1, Zenon DEF SetFeeTier, EndMer, FeeTierWritten
  <1>4. ~ staleFeeTier' => q.seen = merchant.tier
    BY <1>1, Zenon DEF SetFeeTier
  <1>5. /\ merchant' \in MerchantRow /\ merchant'.tier = Written(q.seen, q.tier, merchant.tier)
        /\ merchant'.status = merchant.status /\ merchant'.onboarded = merchant.onboarded
        /\ merchant'.suspended = merchant.suspended
    <2>1. PICK t \in FeeTiers : t = Written(q.seen, q.tier, merchant.tier)
      BY <1>2, Zenon DEF MerchantRow, Written
    <2>2. merchant' = [merchant EXCEPT !.tier = t]
      BY <1>2, <1>3, <2>1, Zenon DEF MerchantRow
    <2> QED BY <1>2, <2>1, <2>2, Zenon DEF MerchantRow
  <1>6. merchant' # NoMerchant
    BY <1>5, MerchantOnboardingAssumption, Zenon
  <1>7. MerTypes'
    BY <1>0, <1>3, <1>5, MerFreeIs, Zenon DEF MerTypes
  <1>8. MerchantFits'
    <2>1. ~ staleFeeTier' => lastTier' = merchant'.tier
      BY <1>3, <1>4, <1>5, Zenon DEF Written
    <2>2. ~ staleStatus' => DatesFit(merchant')
      BY <1>0, <1>2, <1>3, <1>5, Zenon DEF MerchantFits, DatesFit
    <2> QED BY <1>0, <1>2, <1>3, <1>5, <2>1, <2>2, Zenon DEF MerchantFits
  <1>9. ActiveHasPreconditions'
    BY <1>0, <1>2, <1>3, <1>5, Zenon DEF ActiveHasPreconditions, VerifiedBank
  <1>10. HandlersSaw'
    <2>1. \A v \in MerchantWorkers : merReq'[v] \in {merReq[v], MerFree}
      BY <1>0, <1>3, Zenon DEF MerTypes
    <2>2. MayActivate(VerifiedBank, contracts)' <=> MayActivate(VerifiedBank, contracts)
      BY <1>3, Zenon DEF MayActivate, VerifiedBank
    <2> QED BY <1>0, <1>3, <1>5, <1>6, <2>1, <2>2, HandlersStay, Zenon
  <1>11. (documentRows \subseteq objects)'
    BY <1>0, <1>3, Zenon
  <1> QED BY <1>5, <1>7, <1>8, <1>9, <1>10, <1>11, Zenon DEF MerchantInv

(* Every step keeps the invariant, and takes a merchant out of REJECTED     *)
(* only by a decision that overlapped with another.                         *)
LEMMA MerchantStep ==
  MerchantInv /\ [MerchantNext]_merchantVars =>
      /\ MerchantInv'
      /\ merchant # NoMerchant /\ merchant.status = "REJECTED" /\ merchant'.status # "REJECTED" => staleStatus'
  <1> DEFINE Reopens == merchant # NoMerchant /\ merchant.status = "REJECTED" /\ merchant'.status # "REJECTED"
  <1> SUFFICES ASSUME MerchantInv, [MerchantNext]_merchantVars PROVE MerchantInv' /\ (Reopens => staleStatus')
    BY Zenon
  <1>0. MerTypes /\ MerchantFits /\ HandlersSaw /\ ActiveHasPreconditions /\ documentRows \subseteq objects
    BY Zenon DEF MerchantInv
  <1>1. ASSUME NEW w \in MerchantWorkers, NEW q \in MerRequest, HandlerSaw(q), BeginMer(w, q)
        PROVE  MerchantInv' /\ ~ Reopens
    BY <1>1, HandlerBegins, Zenon DEF BeginMer, merTables
  <1>2. ASSUME NEW w \in MerchantWorkers, BeginOnboard(w) PROVE MerchantInv' /\ ~ Reopens
    <2>1. PICK q \in MerRequest : q = [op |-> "onboard"]
      BY Zenon DEF MerRequest
    <2>2. HandlerSaw(q)
      BY <2>1, Zenon DEF HandlerSaw
    <2> QED BY <1>1, <1>2, <2>1, <2>2, Zenon DEF BeginOnboard
  <1>3. ASSUME NEW w \in MerchantWorkers, Onboard(w) PROVE MerchantInv' /\ ~ Reopens
    <2>1. \A v \in MerchantWorkers : merReq'[v] \in {merReq[v], MerFree}
      BY <1>0, <1>3, Zenon DEF Onboard, EndMer, MerTypes
    <2>2. merReq' \in [MerchantWorkers -> MerRequest]
      BY <1>0, <1>3, MerFreeIs, Zenon DEF Onboard, EndMer, MerTypes
    <2>3. UNCHANGED <<accounts, contracts, objects, documentRows, staleStatus, staleFeeTier>>
      BY <1>3, Zenon DEF Onboard, merHistory
    <2>4. MayActivate(VerifiedBank, contracts)' <=> MayActivate(VerifiedBank, contracts)
      BY <2>3, Zenon DEF MayActivate, VerifiedBank
    <2>5. CASE merchant = NoMerchant
      <3>1. /\ merchant' = NewMerchant /\ lastStatus' = NewMerchant.status /\ lastTier' = NewMerchant.tier
        BY <1>3, <2>5, Zenon DEF Onboard, OrgIndexAllows
      <3>2. /\ NewMerchant \in MerchantRow /\ NewMerchant.status = "PENDING_VERIFICATION"
            /\ NewMerchant.suspended = FALSE
        BY MerchantOnboardingAssumption, Zenon DEF NewMerchant, MerchantRow, MerchantStatus
      <3>3. MerTypes'
        BY <1>0, <2>2, <2>3, <3>1, <3>2, Zenon DEF MerTypes
      <3>4. DatesFit(merchant')
        BY <3>1, <3>2, Zenon DEF DatesFit
      <3>5. MerchantFits'
        BY <3>1, <3>2, <3>4, Zenon DEF MerchantFits
      <3>6. ActiveHasPreconditions'
        BY <3>1, <3>2, Zenon DEF ActiveHasPreconditions
      <3>7. HandlersSaw'
        BY <1>0, <2>1, <2>3, <2>4, <2>5, HandlersStay, Zenon
      <3> QED BY <1>0, <2>3, <2>5, <3>3, <3>5, <3>6, <3>7, Zenon DEF MerchantInv
    <2>6. CASE merchant # NoMerchant
      <3>1. UNCHANGED <<merchant, lastStatus, lastTier>>
        BY <1>3, <2>6, Zenon DEF Onboard, OrgIndexAllows, merEvents
      <3>2. HandlersSaw'
        BY <1>0, <2>1, <2>3, <2>4, <3>1, HandlersStay, Zenon
      <3>3. MerTypes'
        BY <1>0, <2>2, <2>3, <3>1, Zenon DEF MerTypes
      <3>4. VerifiedBank => VerifiedBank'
        BY <2>3, Zenon DEF VerifiedBank
      <3> QED BY <1>0, <2>3, <3>1, <3>2, <3>3, <3>4, RowUntouched, Zenon
    <2> QED BY <2>5, <2>6, Zenon
  <1>4. ASSUME NEW w \in MerchantWorkers, NEW d \in Documents, BeginUpload(w, d) PROVE MerchantInv' /\ ~ Reopens
    <2>1. PICK q \in MerRequest : q = [op |-> "upload", doc |-> d, stage |-> "first"]
      BY Zenon DEF MerRequest
    <2>2. HandlerSaw(q)
      BY <2>1, Zenon DEF HandlerSaw
    <2> QED BY <1>1, <1>4, <2>1, <2>2, Zenon DEF BeginUpload
  <1>5. ASSUME NEW w \in MerchantWorkers, UploadStep(w) PROVE MerchantInv' /\ ~ Reopens
    <2>1. PICK q \in [op : {"upload"}, doc : Documents, stage : {"first", "second"}] : q = merReq[w]
      BY <1>0, <1>5 DEF UploadStep, MerTypes, MerRequest, MerFree
    <2>2. HandlerSaw(q)
      BY <1>0, <2>1, Zenon DEF HandlersSaw
    <2>3. UNCHANGED <<merchant, accounts, contracts, lastStatus, lastTier, staleStatus, staleFeeTier>>
      BY <1>5, Zenon DEF UploadStep, merEvents, merHistory
    <2>4. VerifiedBank' <=> VerifiedBank
      BY <2>3, Zenon DEF VerifiedBank
    <2>5. CASE q.stage = "first"
      <3>1. objects' = objects \cup {q.doc} /\ documentRows' = documentRows
        BY <1>5, <2>1, <2>5, Zenon DEF UploadStep, UploadOrder, PutObject
      <3> DEFINE n == [op |-> "upload", doc |-> q.doc, stage |-> "second"]
      <3>2. n \in MerRequest /\ n.op = "upload" /\ n.doc = q.doc /\ [q EXCEPT !.stage = "second"] = n
        BY <2>1 DEF MerRequest
      <3>3. merReq' = [merReq EXCEPT ![w] = n]
        BY <1>5, <2>1, <2>5, <3>2, Zenon DEF UploadStep
      <3>4. MerTypes'
        BY <1>0, <2>3, <3>2, <3>3, Zenon DEF MerTypes
      <3>5. HandlersSaw'
        <4> SUFFICES ASSUME NEW v \in MerchantWorkers PROVE HandlerSaw(merReq[v])'
          BY Zenon DEF HandlersSaw
        <4>1. CASE v = w
          <5>1. merReq'[v] = n
            BY <1>0, <3>3, <4>1, Zenon DEF MerTypes
          <5> QED BY <3>1, <3>2, <5>1, Zenon DEF HandlerSaw
        <4>2. CASE v # w
          <5>1. merReq'[v] = merReq[v] /\ HandlerSaw(merReq[v])
            BY <1>0, <3>3, <4>2, Zenon DEF MerTypes, HandlersSaw
          <5> QED BY <2>3, <2>4, <3>1, <5>1, Zenon DEF HandlerSaw, MayActivate
        <4> QED BY <4>1, <4>2, Zenon
      <3> QED BY <1>0, <2>3, <2>4, <3>1, <3>4, <3>5, RowUntouched, Zenon
    <2>6. CASE q.stage = "second"
      <3>1. documentRows' = documentRows \cup {q.doc} /\ objects' = objects /\ q.doc \in objects
        BY <1>5, <2>1, <2>2, <2>6, Zenon DEF UploadStep, UploadOrder, InsertDocument, HandlerSaw
      <3>2. merReq' = [merReq EXCEPT ![w] = MerFree]
        BY <1>5, <2>1, <2>6, Zenon DEF UploadStep
      <3>3. MerTypes' /\ \A v \in MerchantWorkers : merReq'[v] \in {merReq[v], MerFree}
        BY <1>0, <2>3, <3>2, MerFreeIs, Zenon DEF MerTypes
      <3>4. MayActivate(VerifiedBank, contracts)' <=> MayActivate(VerifiedBank, contracts)
        BY <2>3, <2>4, Zenon DEF MayActivate
      <3>5. HandlersSaw'
        BY <1>0, <2>3, <3>1, <3>3, <3>4, HandlersStay, Zenon
      <3> QED BY <1>0, <2>3, <2>4, <3>1, <3>3, <3>5, RowUntouched, Zenon
    <2> QED BY <2>1, <2>5, <2>6, Zenon
  <1>6. ASSUME NEW w \in MerchantWorkers, MerHandlerFails(w) PROVE MerchantInv' /\ ~ Reopens
    <2>1. /\ merReq' = [merReq EXCEPT ![w] = MerFree]
          /\ UNCHANGED <<merchant, accounts, contracts, objects, documentRows, lastStatus, lastTier, staleStatus, staleFeeTier>>
      BY <1>6, Zenon DEF MerHandlerFails, merTables, merEvents, merHistory
    <2>2. MerTypes' /\ \A v \in MerchantWorkers : merReq'[v] \in {merReq[v], MerFree}
      BY <1>0, <2>1, MerFreeIs, Zenon DEF MerTypes
    <2>3. VerifiedBank' <=> VerifiedBank
      BY <2>1, Zenon DEF VerifiedBank
    <2>4. MayActivate(VerifiedBank, contracts)' <=> MayActivate(VerifiedBank, contracts)
      BY <2>1, <2>3, Zenon DEF MayActivate
    <2>5. HandlersSaw'
      BY <1>0, <2>1, <2>2, <2>4, HandlersStay, Zenon
    <2> QED BY <1>0, <2>1, <2>2, <2>3, <2>5, RowUntouched, Zenon
  <1>7. ASSUME NEW w \in MerchantWorkers, NEW decision \in ReviewDecision, BeginDecide(w, decision)
        PROVE MerchantInv' /\ ~ Reopens
    <2>1. target_for(decision) \in Targets /\ merchant # NoMerchant /\ merchant \in MerchantRow
      BY <1>0, <1>7, Zenon DEF target_for, ReviewDecision, Targets, BeginDecide, MerTypes
    <2>2. PICK q \in MerRequest : q = [op |-> "decide", target |-> target_for(decision), seen |-> merchant]
      BY <2>1, Zenon DEF MerRequest
    <2>3. HandlerSaw(q)
      BY <1>0, <1>7, <2>1, <2>2, Zenon DEF HandlerSaw, BeginDecide, MerchantFits
    <2> QED BY <1>1, <1>7, <2>2, <2>3, Zenon DEF BeginDecide
  <1>8. ASSUME NEW w \in MerchantWorkers, WriteDecision(w) PROVE MerchantInv' /\ (Reopens => staleStatus')
    BY <1>8, DecisionKeeps, Zenon
  <1>9. ASSUME NEW w \in MerchantWorkers, NEW t \in FeeTiers, BeginSetFeeTier(w, t) PROVE MerchantInv' /\ ~ Reopens
    <2>1. merchant # NoMerchant /\ merchant.tier \in FeeTiers
      BY <1>0, <1>9, Zenon DEF BeginSetFeeTier, MerTypes, MerchantRow
    <2>2. PICK q \in MerRequest : q = [op |-> "tier", tier |-> t, seen |-> merchant.tier]
      BY <2>1, Zenon DEF MerRequest
    <2>3. HandlerSaw(q)
      BY <2>1, <2>2, Zenon DEF HandlerSaw
    <2> QED BY <1>1, <1>9, <2>2, <2>3, Zenon DEF BeginSetFeeTier
  <1>10. ASSUME NEW w \in MerchantWorkers, SetFeeTier(w) PROVE MerchantInv' /\ ~ Reopens
    BY <1>10, FeeTierKeeps, Zenon
  <1>11. ASSUME UNCHANGED <<merchant, objects, documentRows, merReq, lastStatus, lastTier, staleStatus, staleFeeTier>>,
                accounts' \in [BankAccounts -> {"none", "PENDING_VERIFY", "VERIFIED"}], contracts' \in BOOLEAN,
                \A b \in BankAccounts : accounts[b] = "VERIFIED" => accounts'[b] = "VERIFIED",
                contracts => contracts'
         PROVE  MerchantInv' /\ ~ Reopens
    <2>1. MerTypes' /\ \A v \in MerchantWorkers : merReq'[v] \in {merReq[v], MerFree}
      BY <1>0, <1>11, Zenon DEF MerTypes
    <2>2. VerifiedBank => VerifiedBank'
      BY <1>11, Zenon DEF VerifiedBank
    <2>3. MayActivate(VerifiedBank, contracts) => MayActivate(VerifiedBank, contracts)'
      BY <1>11, <2>2, Zenon DEF MayActivate
    <2>4. HandlersSaw'
      BY <1>0, <1>11, <2>1, <2>3, HandlersStay, Zenon
    <2> QED BY <1>0, <1>11, <2>1, <2>2, <2>4, RowUntouched, Zenon
  <1>12. ASSUME NEW b \in BankAccounts, AddBankAccount(b) PROVE MerchantInv' /\ ~ Reopens
    <2>1. /\ UNCHANGED <<merchant, objects, documentRows, merReq, lastStatus, lastTier, staleStatus, staleFeeTier, contracts>>
          /\ accounts[b] = "none" /\ accounts' = [accounts EXCEPT ![b] = "PENDING_VERIFY"]
      BY <1>12, Zenon DEF AddBankAccount, LinkedAccount, merEvents, merHistory
    <2>2. /\ accounts' \in [BankAccounts -> {"none", "PENDING_VERIFY", "VERIFIED"}] /\ contracts' \in BOOLEAN
          /\ \A c \in BankAccounts : accounts[c] = "VERIFIED" => accounts'[c] = "VERIFIED"
      BY <1>0, <2>1, Zenon DEF MerTypes
    <2> QED BY <1>11, <2>1, <2>2, Zenon
  <1>13. ASSUME NEW b \in BankAccounts, VerifyBankAccount(b) PROVE MerchantInv' /\ ~ Reopens
    <2>1. /\ UNCHANGED <<merchant, objects, documentRows, merReq, lastStatus, lastTier, staleStatus, staleFeeTier, contracts>>
          /\ accounts' = [accounts EXCEPT ![b] = "VERIFIED"]
      BY <1>13, Zenon DEF VerifyBankAccount, VerifiedAccount, merEvents, merHistory
    <2>2. /\ accounts' \in [BankAccounts -> {"none", "PENDING_VERIFY", "VERIFIED"}] /\ contracts' \in BOOLEAN
          /\ \A c \in BankAccounts : accounts[c] = "VERIFIED" => accounts'[c] = "VERIFIED"
      BY <1>0, <2>1, Zenon DEF MerTypes
    <2> QED BY <1>11, <2>1, <2>2, Zenon
  <1>14. ASSUME AcceptContract PROVE MerchantInv' /\ ~ Reopens
    <2>1. UNCHANGED <<merchant, accounts, objects, documentRows, merReq, lastStatus, lastTier, staleStatus, staleFeeTier>>
      BY <1>14, Zenon DEF AcceptContract, merEvents, merHistory
    <2>2. contracts' \in BOOLEAN /\ (contracts => contracts')
      BY <1>14, Zenon DEF AcceptContract, Accepted
    <2>3. accounts' \in [BankAccounts -> {"none", "PENDING_VERIFY", "VERIFIED"}]
      BY <1>0, <2>1, Zenon DEF MerTypes
    <2> QED BY <1>11, <2>1, <2>2, <2>3, Zenon
  <1>15. CASE UNCHANGED merchantVars
    <2>1. UNCHANGED <<merchant, accounts, contracts, objects, documentRows, merReq, lastStatus, lastTier, staleStatus, staleFeeTier>>
      BY <1>15, Zenon DEF merchantVars, merTables, merEvents, merHistory
    <2>2. accounts' \in [BankAccounts -> {"none", "PENDING_VERIFY", "VERIFIED"}] /\ contracts' \in BOOLEAN
      BY <1>0, <2>1, Zenon DEF MerTypes
    <2> QED BY <1>11, <2>1, <2>2, Zenon
  <1> QED BY <1>2, <1>3, <1>4, <1>5, <1>6, <1>7, <1>8, <1>9, <1>10, <1>12, <1>13, <1>14, <1>15, Zenon DEF MerchantNext

(* The invariant gives the state part of the property. *)
LEMMA MerchantInvSound ==
  MerchantInv => MerchantTypeOK /\ ActiveHasPreconditions /\ SuspensionConsistent /\ FeeTierAnnounced
  <1> SUFFICES ASSUME MerchantInv
               PROVE  MerchantTypeOK /\ ActiveHasPreconditions /\ SuspensionConsistent /\ FeeTierAnnounced
    BY Zenon
  <1>1. MerchantTypeOK
    <2>1. merchant # NoMerchant => merchant.status \in MerchantStatus \ {"DRAFT"} /\ merchant.status = lastStatus
      BY Zenon DEF MerchantInv, MerTypes, MerchantFits, MerchantRow
    <2> QED BY <2>1, Zenon DEF MerchantInv, MerTypes, MerchantTypeOK, BankAccountStatus
  <1>2. SuspensionConsistent /\ FeeTierAnnounced
    BY Zenon DEF MerchantInv, MerchantFits, DatesFit, SuspensionConsistent, FeeTierAnnounced
  <1> QED BY <1>1, <1>2, Zenon DEF MerchantInv

(* For any number of workers, accounts, documents and tiers: a merchant is  *)
(* active only with its preconditions, SUSPENDED and REJECTED are left only *)
(* as the decisions allow, its documents are stored and its fee tier is the *)
(* announced one, up to decisions that overlapped.                          *)
THEOREM MerchantLifecycleAlways == MerchantSpec => MerchantLifecycle
  <1> DEFINE Kept == merchant # NoMerchant /\ merchant.status = "REJECTED" /\ merchant'.status # "REJECTED" => staleStatus'
  <1>1. MerchantInit => MerchantInv
    BY MerchantInitInv, Zenon
  <1>2. MerchantInv /\ [MerchantNext]_merchantVars => MerchantInv'
    BY MerchantStep, Zenon
  <1>3. MerchantInv /\ [MerchantNext]_merchantVars => [Kept]_merchantVars
    BY MerchantStep, Zenon
  <1>4. MerchantInv => MerchantTypeOK /\ ActiveHasPreconditions /\ SuspensionConsistent /\ FeeTierAnnounced
    BY MerchantInvSound, Zenon
  <1> QED BY <1>1, <1>2, <1>3, <1>4, PTL DEF MerchantSpec, MerchantLifecycle, RejectedIsTerminal

-----------------------------------------------------------------------------
(* FeeQuotes: the inductive invariant.                                      *)

FxRates == (Rates \cup {FallbackRate}) \ {NoRate}
Tiers == DOMAIN TierBps

QuoteRequest ==
    [stage : {"fetch", "cache", "audit", "price"}, gross : Grosses, pair : QuotePairs, rate : FxRates \cup {NoRate}]

MerchantEvent == [name : {"onboarded", "tier"}, tier : Tiers \cup {"unknown"}]

QuoteTypes ==
    /\ fxCache \in [CrossPairs -> FxRates \cup {NoRate}]
    /\ fxAudit \cup unaudited \subseteq CrossPairs \X FxRates
    /\ quoteReq \in [Quoters -> {NoQuoteReq} \cup QuoteRequest]
    /\ pricing \in [tier : Tiers \cup {NoTier}, org : BOOLEAN]
    /\ merchantBus \in Seq(MerchantEvent)
    /\ merchantTier \in Tiers \cup {"unknown", NoTier}

(* A rate that was fetched has its row, will have it, or lost it. *)
Accounted(pair, rate) == <<pair, rate>> \in fxAudit \cup AuditPending \cup unaudited

(* Only cross-currency requests fetch, and a rate is cached by a request    *)
(* that goes on to commit its row.                                          *)
RatesAccounted ==
    /\ \A p \in CrossPairs : fxCache[p] # NoRate => Accounted(p, fxCache[p])
    /\ \A w \in Quoters :
        /\ quoteReq[w].stage \in {"fetch", "cache", "audit"} => quoteReq[w].pair \in CrossPairs
        /\ quoteReq[w].stage \in {"cache", "audit"} => quoteReq[w].rate # NoRate
        /\ quoteReq[w].stage = "price" /\ quoteReq[w].rate # NoRate =>
               Accounted(quoteReq[w].pair, quoteReq[w].rate)

Complete == \A q \in quotes : {<<l.tier, l.rail>> : l \in q.lines} = q.wanted

(* The tier that a merchant has with this service once it knows the other. *)
TierKnownAs(tier) == IF tier \in Tiers THEN tier ELSE DEFAULT_TIER

(* The last event tells the merchant's tier, the first one its org. *)
TierFollows ==
    /\ merchantTier = NoTier <=> merchantBus = <<>> /\ pricing.tier = NoTier
    /\ pricing.tier = NoTier /\ merchantBus # <<>> => merchantBus[1].name = "onboarded"
    /\ pricing.tier # NoTier => pricing.org
    /\ ~ redelivered /\ merchantTier # NoTier =>
           TierKnownAs(merchantTier) = IF merchantBus = <<>> THEN pricing.tier
                                       ELSE TierOfEvent(merchantBus[Len(merchantBus)])

QuoteInv ==
    QuoteTypes /\ RatesAccounted /\ Complete /\ QuotesAddUp /\ QuotedRatesAudited /\ TierFollows

(* Money is rounded to whole minor units. *)
LEMMA RoundsToInt ==
  ASSUME NEW n \in Int, NEW d \in Nat \ {0}
  PROVE  RoundHalfUp(n, d) \in Int
BY DEF RoundHalfUp

(* Rates are positive numbers of units, apart from the absence of one. *)
LEMMA FxRatesAre == FxRates \subseteq Nat /\ NoRate \notin FxRates
BY FeeQuotesAssumption, Zenon DEF FxRates

(* The settled amount is a whole number of minor units. *)
LEMMA SettledIsInt ==
  ASSUME NEW amount \in Nat, NEW rate \in FxRates \cup {NoRate}
  PROVE  Settled(amount, rate) \in Int
  <1>1. CASE rate = NoRate
    BY <1>1 DEF Settled
  <1>2. CASE rate # NoRate
    <2>1. rate \in Nat
      BY <1>2, FxRatesAre, Zenon
    <2>2. amount * rate \in Int
      BY <2>1
    <2>3. RateScale \in Nat \ {0}
      BY FeeQuotesAssumption, Zenon
    <2> QED BY <1>2, <2>2, <2>3, RoundsToInt, Zenon DEF Settled
  <1> QED BY <1>1, <1>2, Zenon

(* The fee row of a rail, whether of the tier or of all tiers, has a        *)
(* percentage and a fixed part.                                             *)
LEMMA RailFeeOfIs ==
  ASSUME NEW rail, NEW tier, RailFeeOf(rail, tier) # <<>>
  PROVE  RailFeeOf(rail, tier)[1].bps \in Nat /\ RailFeeOf(rail, tier)[1].fixed \in Nat
  <1> DEFINE rows == {<<rail, tier>>, <<rail, NoTier>>} \cap DOMAIN RailFees
             row == IF <<rail, tier>> \in rows THEN <<rail, tier>> ELSE <<rail, NoTier>>
  <1>1. rows # {} /\ RailFeeOf(rail, tier) = <<RailFees[row]>>
    BY Zenon DEF RailFeeOf
  <1>2. row \in DOMAIN RailFees
    BY <1>1, Zenon
  <1>3. RailFeeOf(rail, tier)[1] = RailFees[row]
    BY <1>1
  <1> QED BY <1>2, <1>3, FeeQuotesAssumption, Zenon

(* The fees and the net of a quote add up to the payment. *)
LEMMA QuoteAddsUp ==
  ASSUME NEW req \in QuoteRequest, NEW tier \in Tiers, NEW rail, RailFeeOf(rail, tier) # <<>>
  PROVE  LET l == ComputeQuote(req, tier, rail)
         IN  l.settled = l.platform + l.railFee + l.net
  <1> USE FeeQuotesAssumption
  <1> DEFINE settled == Settled(req.gross, req.rate)
             platform == PlatformFee(settled, tier)
             fee == RailFeeOf(rail, tier)[1]
             railFee == RailFee(settled, req, fee)
             l == ComputeQuote(req, tier, rail)
  <1>0. req.gross \in Nat /\ req.rate \in FxRates \cup {NoRate}
    BY Zenon DEF QuoteRequest
  <1>1. settled \in Int
    BY <1>0, SettledIsInt, Zenon
  <1>2. fee.bps \in Nat /\ fee.fixed \in Nat
    BY RailFeeOfIs, Zenon
  <1>3. platform \in Int
    <2>1. settled * TierBps[tier] \in Int /\ BpsDenom \in Nat \ {0}
      BY <1>1 DEF Tiers
    <2> QED BY <2>1, RoundsToInt, Zenon DEF PlatformFee
  <1>4. Convert(fee.fixed, fee.currency, req.pair[2], req.rate) \in Int
    <2>1. PICK fixed \in Nat : fixed = fee.fixed
      BY <1>2, Zenon
    <2>2. Settled(fixed, req.rate) \in Int
      BY <1>0, SettledIsInt, Zenon
    <2> HIDE DEF fee
    <2> QED BY <2>1, <2>2 DEF Convert
  <1>5. railFee \in Int
    <2>1. settled * fee.bps \in Int /\ BpsDenom \in Nat \ {0}
      BY <1>1, <1>2
    <2>2. RoundHalfUp(settled * fee.bps, BpsDenom) \in Int
      BY <2>1, RoundsToInt, Zenon
    <2> QED BY <1>4, <2>2 DEF RailFee
  <1>6. l.settled = settled /\ l.platform = platform /\ l.railFee = railFee /\ l.net = settled - platform - railFee
    BY Zenon DEF ComputeQuote
  <1> HIDE DEF settled, platform, railFee, l
  <1>7. l.settled = l.platform + l.railFee + l.net
    BY <1>1, <1>3, <1>5, <1>6
  <1> QED BY <1>7, Zenon DEF l

(* No rate, no request, no quote and no merchant at the start. *)
LEMMA QuoteInitInv == QuoteInit => QuoteInv
  <1> SUFFICES ASSUME QuoteInit PROVE QuoteInv
    BY Zenon
  <1>0. NoQuoteReq.stage = "none" /\ NoPricing.tier = NoTier /\ NoPricing.org = FALSE
    BY Zenon DEF NoQuoteReq, NoPricing
  <1>1. QuoteTypes
    <2>1. pricing \in [tier : Tiers \cup {NoTier}, org : BOOLEAN]
      BY Zenon DEF QuoteInit, NoPricing
    <2> QED BY <2>1 DEF QuoteInit, QuoteTypes
  <1>2. RatesAccounted
    BY <1>0, Zenon DEF QuoteInit, RatesAccounted
  <1>3. Complete /\ QuotesAddUp /\ QuotedRatesAudited
    BY Zenon DEF QuoteInit, Complete, QuotesAddUp, QuotedRatesAudited
  <1>4. TierFollows
    BY <1>0, Zenon DEF QuoteInit, TierFollows
  <1> QED BY <1>1, <1>2, <1>3, <1>4, Zenon DEF QuoteInv

(* A worker that is busy has a request. *)
LEMMA RequestIs ==
  ASSUME QuoteTypes, NEW w \in Quoters
  PROVE  /\ NoQuoteReq.stage = "none"
         /\ quoteReq[w].stage # "none" => quoteReq[w] \in QuoteRequest
BY DEF QuoteTypes, NoQuoteReq

(* Steps that leave the rates, the requests and the quotes alone. *)
LEMMA QuotesUntouched ==
  ASSUME QuoteInv, UNCHANGED <<fxCache, fxAudit, unaudited, quoteReq, quotes>>
  PROVE  RatesAccounted' /\ Complete' /\ QuotesAddUp' /\ QuotedRatesAudited'
BY DEF QuoteInv, RatesAccounted, Complete, QuotesAddUp, QuotedRatesAudited, Accounted, AuditPending, Fetched

(* A step that takes no record of a rate away keeps what is accounted for. *)
AccountsKept == \A pair, rate : Accounted(pair, rate) => Accounted(pair, rate)'

(* What was quoted stays complete, adds up and rests on an audited rate as  *)
(* long as no record of a rate is taken away.                               *)
LEMMA QuotedKept ==
  ASSUME QuoteInv, AccountsKept, UNCHANGED quotes
  PROVE  Complete' /\ QuotesAddUp' /\ QuotedRatesAudited'
  <1>1. Complete' /\ QuotesAddUp'
    BY Zenon DEF QuoteInv, Complete, QuotesAddUp
  <1>2. QuotedRatesAudited'
    BY Zenon DEF QuoteInv, AccountsKept, Accounted, QuotedRatesAudited
  <1> QED BY <1>1, <1>2, Zenon

(* A step that leaves the merchant's row and events alone keeps the tier. *)
LEMMA TiersUntouched ==
  ASSUME QuoteInv, UNCHANGED <<pricing, merchantBus, merchantTier, redelivered>>
  PROVE  TierFollows'
  <1>1. \A e : TierOfEvent(e)' = TierOfEvent(e)
    BY Zenon DEF TierOfEvent
  <1> QED BY <1>1, Zenon DEF QuoteInv, TierFollows, TierKnownAs

(* A request that moves on takes no record away: its own row is pending,    *)
(* written or lost.                                                         *)
LEMMA AccountsStay ==
  ASSUME QuoteTypes, NEW w \in Quoters, NEW r, quoteReq' = [quoteReq EXCEPT ![w] = r],
         fxAudit \subseteq fxAudit', unaudited \subseteq unaudited',
         quoteReq[w].stage = "audit" => Fetched(w) \in fxAudit' \cup unaudited'
  PROVE  AccountsKept
  <1>2. quoteReq'[w] = r /\ \A v \in Quoters \ {w} : quoteReq'[v] = quoteReq[v]
    BY Zenon DEF QuoteTypes
  <1>3. AccountsKept
    <2> SUFFICES ASSUME NEW pair, NEW rate, Accounted(pair, rate) PROVE Accounted(pair, rate)'
      BY Zenon DEF AccountsKept
    <2>1. CASE <<pair, rate>> \in fxAudit \cup unaudited
      BY <2>1, Zenon DEF Accounted
    <2>2. CASE <<pair, rate>> \in AuditPending
      <3>1. PICK v \in Quoters : quoteReq[v].stage = "audit" /\ <<pair, rate>> = Fetched(v)
        BY <2>2, Zenon DEF AuditPending
      <3>2. CASE v = w
        BY <3>1, <3>2, Zenon DEF Accounted
      <3>3. CASE v # w
        <4>1. quoteReq'[v].stage = "audit" /\ Fetched(v)' = <<pair, rate>>
          BY <1>2, <3>1, <3>3, Zenon DEF Fetched
        <4> QED BY <4>1, Zenon DEF Accounted, AuditPending
      <3> QED BY <3>2, <3>3, Zenon
    <2> QED BY <2>1, <2>2, Zenon DEF Accounted
  <1> QED BY <1>3, Zenon

(* One request moves on, and the rates stay accounted for. *)
LEMMA RequestMoves ==
  ASSUME QuoteInv, NEW w \in Quoters, NEW r \in {NoQuoteReq} \cup QuoteRequest,
         quoteReq' = [quoteReq EXCEPT ![w] = r],
         fxAudit \subseteq fxAudit', unaudited \subseteq unaudited',
         quoteReq[w].stage = "audit" => Fetched(w) \in fxAudit' \cup unaudited',
         fxCache' \in [CrossPairs -> FxRates \cup {NoRate}],
         fxAudit' \cup unaudited' \subseteq CrossPairs \X FxRates,
         \A p \in CrossPairs : fxCache'[p] \in {fxCache[p], NoRate} \/ <<p, fxCache'[p]>> \in fxAudit' \cup AuditPending' \cup unaudited',
         r.stage \in {"fetch", "cache", "audit"} => r.pair \in CrossPairs,
         r.stage \in {"cache", "audit"} => r.rate # NoRate,
         r.stage = "price" /\ r.rate # NoRate => <<r.pair, r.rate>> \in fxAudit' \cup AuditPending' \cup unaudited',
         UNCHANGED <<pricing, merchantBus, merchantTier, redelivered>>
  PROVE  QuoteTypes' /\ RatesAccounted' /\ AccountsKept /\ TierFollows'
  <1>0. QuoteTypes /\ RatesAccounted
    BY Zenon DEF QuoteInv
  <1>1. QuoteTypes'
    BY <1>0, Zenon DEF QuoteTypes
  <1>2. quoteReq'[w] = r /\ \A v \in Quoters \ {w} : quoteReq'[v] = quoteReq[v]
    BY <1>0, Zenon DEF QuoteTypes
  <1>3. AccountsKept
    BY <1>0, AccountsStay, Zenon
  <1>4. RatesAccounted'
    <2>1. ASSUME NEW p \in CrossPairs, fxCache'[p] # NoRate PROVE Accounted(p, fxCache[p])'
      <3>1. CASE fxCache'[p] = fxCache[p]
        <4>1. PICK x : x = fxCache[p]
          BY Zenon
        <4>2. Accounted(p, x)
          BY <1>0, <2>1, <3>1, <4>1, Zenon DEF RatesAccounted
        <4>3. Accounted(p, x)'
          BY <1>3, <4>2, Zenon DEF AccountsKept
        <4> QED BY <3>1, <4>1, <4>3, Zenon DEF Accounted
      <3>2. CASE fxCache'[p] # fxCache[p]
        BY <2>1, <3>2, Zenon DEF Accounted
      <3> QED BY <3>1, <3>2, Zenon
    <2>2. ASSUME NEW v \in Quoters, v # w
          PROVE  /\ quoteReq'[v].stage \in {"fetch", "cache", "audit"} => quoteReq'[v].pair \in CrossPairs
                 /\ quoteReq'[v].stage \in {"cache", "audit"} => quoteReq'[v].rate # NoRate
                 /\ quoteReq'[v].stage = "price" /\ quoteReq'[v].rate # NoRate =>
                        Accounted(quoteReq[v].pair, quoteReq[v].rate)'
      <3>1. PICK q : q = quoteReq[v] /\ quoteReq'[v] = q
        BY <1>2, <2>2, Zenon
      <3>2. /\ q.stage \in {"fetch", "cache", "audit"} => q.pair \in CrossPairs
            /\ q.stage \in {"cache", "audit"} => q.rate # NoRate
            /\ q.stage = "price" /\ q.rate # NoRate => Accounted(q.pair, q.rate)
        BY <1>0, <3>1, Zenon DEF RatesAccounted
      <3>3. q.stage = "price" /\ q.rate # NoRate => Accounted(q.pair, q.rate)'
        BY <1>3, <3>2, Zenon DEF AccountsKept
      <3> QED BY <3>1, <3>2, <3>3, Zenon DEF Accounted
    <2>3. /\ quoteReq'[w].stage = "price" /\ quoteReq'[w].rate # NoRate =>
                        Accounted(quoteReq[w].pair, quoteReq[w].rate)'
      BY <1>2, Zenon DEF Accounted
    <2> QED BY <1>2, <2>1, <2>2, <2>3, Zenon DEF RatesAccounted
  <1>5. TierFollows'
    BY TiersUntouched, Zenon
  <1> QED BY <1>1, <1>3, <1>4, <1>5, Zenon

(* A request starts with the cached rate or with a fetch. *)
LEMMA BeginQuoteKeeps ==
  ASSUME QuoteInv, NEW w \in Quoters, NEW gross \in Grosses, NEW pair \in QuotePairs, BeginQuote(w, gross, pair)
  PROVE  QuoteInv'
  <1>0. QuoteTypes /\ RatesAccounted
    BY Zenon DEF QuoteInv
  <1> DEFINE rate == IF pair \in CrossPairs THEN fxCache[pair] ELSE NoRate
             stage == IF pair \in CrossPairs /\ rate = NoRate THEN "fetch" ELSE "price"
  <1>1. PICK r \in QuoteRequest : r = [stage |-> stage, gross |-> gross, pair |-> pair, rate |-> rate]
    <2>1. rate \in FxRates \cup {NoRate}
      BY <1>0, Zenon DEF QuoteTypes
    <2>2. stage \in {"fetch", "price"}
      BY Zenon
    <2> HIDE DEF rate, stage
    <2> QED BY <2>1, <2>2, Zenon DEF QuoteRequest
  <1>2. r.stage = stage /\ r.pair = pair /\ r.rate = rate
    BY <1>1, Zenon
  <1>3. /\ quoteReq[w] = NoQuoteReq /\ quoteReq' = [quoteReq EXCEPT ![w] = r]
        /\ UNCHANGED <<fxCache, fxAudit, unaudited, quotes, pricing, merchantBus, merchantTier, redelivered>>
    BY <1>1, Zenon DEF BeginQuote, fxVars, tierVars
  <1>4. quoteReq[w].stage # "audit"
    BY <1>3 DEF NoQuoteReq
  <1>5. AccountsKept
    BY <1>0, <1>3, <1>4, AccountsStay, Zenon
  <1>6. r.stage = "price" /\ r.rate # NoRate => Accounted(r.pair, r.rate)'
    <2> SUFFICES ASSUME r.stage = "price", r.rate # NoRate PROVE Accounted(r.pair, r.rate)'
      BY Zenon
    <2>1. pair \in CrossPairs /\ r.rate = fxCache[pair]
      BY <1>2, Zenon
    <2>2. Accounted(r.pair, r.rate)
      BY <1>0, <1>2, <2>1, Zenon DEF RatesAccounted
    <2> QED BY <1>5, <2>2, Zenon DEF AccountsKept
  <1>7. QuoteTypes' /\ RatesAccounted' /\ TierFollows'
    BY <1>0, <1>2, <1>3, <1>4, <1>6, RequestMoves, Zenon DEF QuoteTypes, Accounted
  <1> QED BY <1>3, <1>5, <1>7, QuotedKept, Zenon DEF QuoteInv

(* A fetched rate, or the fallback, is on its way to its row. *)
LEMMA FetchKeeps ==
  ASSUME QuoteInv, NEW w \in Quoters, NEW answer \in ProviderAnswers, FetchRate(w, answer)
  PROVE  QuoteInv'
  <1>0. QuoteTypes /\ RatesAccounted
    BY Zenon DEF QuoteInv
  <1>1. quoteReq[w].stage = "fetch" /\ UNCHANGED <<fxCache, fxAudit, unaudited, quotes, pricing, merchantBus, merchantTier, redelivered>>
    BY Zenon DEF FetchRate, fxVars, tierVars
  <1>2. PICK q \in QuoteRequest : q = quoteReq[w]
    BY <1>0, <1>1, RequestIs, Zenon
  <1>3. PICK x : x = OrFallback(answer)
    BY Zenon
  <1>4. x = NoRate \/ x \in FxRates
    BY <1>3, Zenon DEF OrFallback, FxRates, ProviderAnswers
  <1>5. PICK r \in {NoQuoteReq} \cup QuoteRequest :
              /\ quoteReq' = [quoteReq EXCEPT ![w] = r]
              /\ r = NoQuoteReq \/ (r.stage = "cache" /\ r.pair = q.pair /\ r.rate # NoRate)
    <2>1. CASE x = NoRate
      BY <1>3, <2>1, Zenon DEF FetchRate
    <2>2. CASE x # NoRate
      <3> DEFINE n == [q EXCEPT !.stage = "cache", !.rate = x]
      <3>1. x \in FxRates /\ x # NoRate
        BY <1>4, <2>2, Zenon
      <3>2. n \in QuoteRequest
        BY <3>1, Zenon DEF QuoteRequest
      <3>3. n.stage = "cache" /\ n.pair = q.pair /\ n.rate = x
        BY Zenon DEF QuoteRequest
      <3>4. quoteReq' = [quoteReq EXCEPT ![w] = n]
        BY <1>2, <1>3, <2>2, Zenon DEF FetchRate
      <3> HIDE DEF n
      <3> QED BY <3>1, <3>2, <3>3, <3>4, Zenon
    <2> QED BY <2>1, <2>2, Zenon
  <1>6. q.pair \in CrossPairs
    BY <1>0, <1>1, <1>2, Zenon DEF RatesAccounted
  <1>7. AccountsKept
    BY <1>0, <1>1, <1>5, AccountsStay, Zenon
  <1>8. QuoteTypes' /\ RatesAccounted' /\ TierFollows'
    BY <1>0, <1>1, <1>5, <1>6, RequestMoves, Zenon DEF QuoteTypes, NoQuoteReq
  <1> QED BY <1>1, <1>7, <1>8, QuotedKept, Zenon DEF QuoteInv

(* The rate is cached while its row is pending. *)
LEMMA CacheKeeps ==
  ASSUME QuoteInv, NEW w \in Quoters, CacheRate(w)
  PROVE  QuoteInv'
  <1>0. QuoteTypes /\ RatesAccounted
    BY Zenon DEF QuoteInv
  <1>1. quoteReq[w].stage = "cache" /\ UNCHANGED <<fxAudit, unaudited, quotes, pricing, merchantBus, merchantTier, redelivered>>
    BY Zenon DEF CacheRate, tierVars
  <1>2. PICK q \in QuoteRequest : q = quoteReq[w]
    BY <1>0, <1>1, RequestIs, Zenon
  <1>3. q.pair \in CrossPairs /\ q.rate # NoRate /\ q.rate \in FxRates
    BY <1>0, <1>1, <1>2, Zenon DEF RatesAccounted, QuoteRequest
  <1> DEFINE r == [stage |-> "audit", gross |-> q.gross, pair |-> q.pair, rate |-> q.rate]
  <1>4. r = [q EXCEPT !.stage = "audit"] /\ r \in QuoteRequest /\ r.stage = "audit" /\ r.pair = q.pair /\ r.rate = q.rate
    BY DEF QuoteRequest
  <1>5. quoteReq' = [quoteReq EXCEPT ![w] = r] /\ fxCache' = [fxCache EXCEPT ![q.pair] = q.rate]
    BY <1>0, <1>2, <1>4, Zenon DEF CacheRate, QuoteTypes
  <1> HIDE DEF r
  <1>6. AccountsKept
    BY <1>0, <1>1, <1>5, AccountsStay, Zenon
  <1>7. <<q.pair, q.rate>> \in AuditPending'
    <2>1. quoteReq'[w] = r
      BY <1>0, <1>5, Zenon DEF QuoteTypes
    <2> QED BY <1>4, <2>1, Zenon DEF AuditPending, Fetched
  <1>8. /\ fxCache' \in [CrossPairs -> FxRates \cup {NoRate}]
        /\ \A p \in CrossPairs : fxCache'[p] = fxCache[p] \/ <<p, fxCache'[p]>> \in AuditPending'
    BY <1>0, <1>3, <1>5, <1>7, Zenon DEF QuoteTypes
  <1>9. QuoteTypes' /\ RatesAccounted' /\ TierFollows'
    BY <1>0, <1>1, <1>3, <1>4, <1>5, <1>8, RequestMoves, Zenon DEF QuoteTypes
  <1> QED BY <1>1, <1>6, <1>9, QuotedKept, Zenon DEF QuoteInv

(* The row is written, or lost with its transaction. *)
LEMMA AuditKeeps ==
  ASSUME QuoteInv, NEW w \in Quoters, AuditRate(w)
  PROVE  QuoteInv'
  <1>0. QuoteTypes /\ RatesAccounted
    BY Zenon DEF QuoteInv
  <1>1. quoteReq[w].stage = "audit" /\ UNCHANGED <<fxCache, quotes, pricing, merchantBus, merchantTier, redelivered>>
    BY Zenon DEF AuditRate, tierVars
  <1>2. PICK q \in QuoteRequest : q = quoteReq[w]
    BY <1>0, <1>1, RequestIs, Zenon
  <1>3. q.pair \in CrossPairs /\ q.rate \in FxRates /\ Fetched(w) = <<q.pair, q.rate>>
    BY <1>0, <1>1, <1>2, Zenon DEF RatesAccounted, QuoteRequest, Fetched
  <1>4. PICK r \in {NoQuoteReq} \cup QuoteRequest :
              /\ quoteReq' = [quoteReq EXCEPT ![w] = r]
              /\ r = NoQuoteReq \/ (r.stage = "price" /\ r.pair = q.pair /\ r.rate = q.rate)
    <2>1. CASE quoteReq' = [quoteReq EXCEPT ![w].stage = "price"]
      <3> DEFINE n == [stage |-> "price", gross |-> q.gross, pair |-> q.pair, rate |-> q.rate]
      <3>1. n = [q EXCEPT !.stage = "price"] /\ n \in QuoteRequest
        BY DEF QuoteRequest
      <3>2. quoteReq' = [quoteReq EXCEPT ![w] = n]
        BY <1>0, <1>2, <2>1, <3>1, Zenon DEF QuoteTypes
      <3> QED BY <3>1, <3>2, Zenon
    <2>2. CASE quoteReq' = [quoteReq EXCEPT ![w] = NoQuoteReq]
      BY <2>2, Zenon
    <2> QED BY <2>1, <2>2, Zenon DEF AuditRate
  <1>5. /\ fxAudit \subseteq fxAudit' /\ unaudited \subseteq unaudited' /\ Fetched(w) \in fxAudit' \cup unaudited'
        /\ fxAudit' \cup unaudited' \subseteq CrossPairs \X FxRates
    BY <1>0, <1>3 DEF AuditRate, AuditRow, QuoteTypes
  <1>6. AccountsKept
    BY <1>0, <1>4, <1>5, AccountsStay, Zenon
  <1>7. r.stage = "price" /\ r.rate # NoRate => <<r.pair, r.rate>> \in fxAudit' \cup unaudited'
    <2>1. NoQuoteReq.stage # "price"
      BY Zenon DEF NoQuoteReq
    <2>2. <<q.pair, q.rate>> \in fxAudit' \cup unaudited'
      BY <1>3, <1>5, Zenon
    <2> QED BY <1>4, <2>1, <2>2, Zenon
  <1>8. QuoteTypes' /\ RatesAccounted' /\ TierFollows'
    BY <1>0, <1>1, <1>4, <1>5, <1>7, RequestMoves, Zenon DEF QuoteTypes, NoQuoteReq
  <1> QED BY <1>1, <1>6, <1>8, QuotedKept, Zenon DEF QuoteInv

(* A request stores all the quotes that it wants or none, with the rate it  *)
(* holds.                                                                   *)
LEMMA PriceKeeps ==
  ASSUME QuoteInv, NEW w \in Quoters, NEW asked, NEW rails, PriceQuotes(w, asked, rails)
  PROVE  QuoteInv'
  <1>0. QuoteTypes /\ RatesAccounted /\ Complete /\ QuotesAddUp /\ QuotedRatesAudited
    BY Zenon DEF QuoteInv
  <1>1. /\ quoteReq[w].stage = "price" /\ quoteReq' = [quoteReq EXCEPT ![w] = NoQuoteReq]
        /\ UNCHANGED <<fxCache, fxAudit, unaudited, pricing, merchantBus, merchantTier, redelivered>>
    BY Zenon DEF PriceQuotes, fxVars, tierVars
  <1>2. PICK q \in QuoteRequest : q = quoteReq[w]
    BY <1>0, <1>1, RequestIs, Zenon
  <1>3. PICK wanted : wanted = QuotedTiers(asked) \X rails
    BY Zenon
  <1>4. AccountsKept
    BY <1>0, <1>1, AccountsStay, Zenon
  <1>5. q.rate # NoRate => Accounted(q.pair, q.rate)'
    BY <1>0, <1>1, <1>2, <1>4, Zenon DEF RatesAccounted, AccountsKept
  <1>6. QuoteTypes' /\ RatesAccounted' /\ TierFollows'
    BY <1>0, <1>1, RequestMoves, Zenon DEF QuoteTypes, NoQuoteReq
  <1> DEFINE lines == {ComputeQuote(q, c[1], c[2]) : c \in StoredQuotes(q, wanted)}
  <1>7. quotes' = IF lines = {} THEN quotes ELSE quotes \cup {[wanted |-> wanted, lines |-> lines]}
    BY <1>2, <1>3 DEF PriceQuotes
  <1>8. CASE lines = {}
    BY <1>4, <1>6, <1>7, <1>8, QuotedKept, Zenon DEF QuoteInv
  <1>9. CASE lines # {}
    <2>1. StoredQuotes(q, wanted) = wanted /\ \A c \in wanted : Priceable(q, c[1], c[2])
      BY <1>9, Zenon DEF StoredQuotes
    <2>2. PICK e : e = [wanted |-> wanted, lines |-> lines]
      BY Zenon
    <2>3. quotes' = quotes \cup {e} /\ e.wanted = wanted /\ e.lines = lines
      BY <1>7, <1>9, <2>2, Zenon
    <2>4. ASSUME NEW c \in wanted
          PROVE  LET l == ComputeQuote(q, c[1], c[2])
                 IN  /\ l.tier = c[1] /\ l.rail = c[2] /\ <<l.tier, l.rail>> = c /\ l.pair = q.pair /\ l.rate = q.rate
                     /\ l.settled = l.platform + l.railFee + l.net /\ l.net >= 0
      <3> DEFINE l == ComputeQuote(q, c[1], c[2])
      <3>1. l.tier = c[1] /\ l.rail = c[2] /\ l.pair = q.pair /\ l.rate = q.rate
        BY Zenon DEF ComputeQuote
      <3>2. c = <<c[1], c[2]>>
        BY <1>3
      <3>3. c[1] \in Tiers /\ RailFeeOf(c[2], c[1]) # <<>> /\ l.net >= 0
        BY <2>1, Zenon DEF Priceable, Tiers, NetAllowed
      <3>4. l.settled = l.platform + l.railFee + l.net
        BY <3>3, QuoteAddsUp
      <3> HIDE DEF l
      <3>5. <<l.tier, l.rail>> = c
        BY <3>1, <3>2, Zenon
      <3> QED BY <3>1, <3>3, <3>4, <3>5, Zenon DEF l
    <2>5. \A l \in lines : \E c \in wanted : l = ComputeQuote(q, c[1], c[2])
      BY <2>1, Zenon
    <2>6. \A c \in wanted : ComputeQuote(q, c[1], c[2]) \in lines
      BY <2>1, Zenon
    <2> HIDE DEF lines
    <2>7. {<<l.tier, l.rail>> : l \in lines} = wanted
      <3>1. ASSUME NEW l \in lines PROVE <<l.tier, l.rail>> \in wanted
        BY <2>4, <2>5, Zenon
      <3>2. ASSUME NEW c \in wanted PROVE \E l \in lines : c = <<l.tier, l.rail>>
        BY <2>4, <2>6, Zenon
      <3> QED BY <3>1, <3>2, Zenon
    <2>8. ASSUME NEW l \in lines
          PROVE  /\ l.settled = l.platform + l.railFee + l.net /\ l.net >= 0
                 /\ l.rate # NoRate => <<l.pair, l.rate>> \in (fxAudit \cup AuditPending \cup unaudited)'
      <3>1. PICK c \in wanted : l = ComputeQuote(q, c[1], c[2])
        BY <2>5, Zenon
      <3>2. l.pair = q.pair /\ l.rate = q.rate /\ l.settled = l.platform + l.railFee + l.net /\ l.net >= 0
        BY <2>4, <3>1, Zenon
      <3> QED BY <1>5, <3>2, Zenon DEF Accounted
    <2>9. Complete'
      BY <1>0, <2>3, <2>7, Zenon DEF Complete
    <2>10. QuotesAddUp'
      BY <1>0, <2>3, <2>8, Zenon DEF QuotesAddUp
    <2>11. QuotedRatesAudited'
      <3> SUFFICES ASSUME NEW x \in quotes', NEW l \in x.lines, l.rate # NoRate
                   PROVE  <<l.pair, l.rate>> \in (fxAudit \cup AuditPending \cup unaudited)'
        BY Zenon DEF QuotedRatesAudited
      <3>1. CASE x = e
        BY <2>3, <2>8, <3>1, Zenon
      <3>2. CASE x \in quotes
        <4>1. Accounted(l.pair, l.rate)
          BY <1>0, <3>2, Zenon DEF QuotedRatesAudited, Accounted
        <4>2. Accounted(l.pair, l.rate)'
          BY <1>4, <4>1, Zenon DEF AccountsKept
        <4> QED BY <4>2, Zenon DEF Accounted
      <3> QED BY <2>3, <3>1, <3>2, Zenon
    <2> QED BY <1>6, <2>9, <2>10, <2>11, Zenon DEF QuoteInv
  <1> QED BY <1>8, <1>9, Zenon

(* An expired rate leaves the cache and nothing else. *)
LEMMA CacheExpiryKeeps ==
  ASSUME QuoteInv, NEW pair \in CrossPairs, CacheExpires(pair)
  PROVE  QuoteInv'
  <1>0. QuoteTypes /\ RatesAccounted
    BY Zenon DEF QuoteInv
  <1>1. /\ fxCache' = [fxCache EXCEPT ![pair] = NoRate]
        /\ UNCHANGED <<fxAudit, unaudited, quoteReq, quotes, pricing, merchantBus, merchantTier, redelivered>>
    BY Zenon DEF CacheExpires, tierVars
  <1>2. QuoteTypes'
    BY <1>0, <1>1, Zenon DEF QuoteTypes
  <1>3. AccountsKept /\ \A p, r : Accounted(p, r)' <=> Accounted(p, r)
    BY <1>1, Zenon DEF AccountsKept, Accounted, AuditPending, Fetched
  <1>4. RatesAccounted'
    <2>1. \A p \in CrossPairs : fxCache'[p] # NoRate => fxCache'[p] = fxCache[p]
      BY <1>0, <1>1, Zenon DEF QuoteTypes
    <2> QED BY <1>0, <1>1, <2>1 DEF RatesAccounted, Accounted, AuditPending, Fetched
  <1>5. TierFollows'
    BY <1>1, TiersUntouched, Zenon
  <1> QED BY <1>1, <1>2, <1>3, <1>4, <1>5, QuotedKept, Zenon DEF QuoteInv

(* An event is put last on the bus. *)
LEMMA BusAppended ==
  ASSUME QuoteTypes, NEW e \in MerchantEvent, merchantBus' = Append(merchantBus, e)
  PROVE  /\ merchantBus' \in Seq(MerchantEvent) /\ merchantBus' # <<>> /\ merchantBus'[Len(merchantBus')] = e
         /\ merchantBus = <<>> => merchantBus'[1] = e
         /\ merchantBus # <<>> => merchantBus'[1] = merchantBus[1]
BY DEF QuoteTypes

(* The merchant's new tier is that of the last event. *)
LEMMA AnnounceKeeps ==
  ASSUME QuoteInv, NEW tier \in Tiers \cup {"unknown"}, MerchantAnnounces(tier)
  PROVE  QuoteInv'
  <1>0. QuoteTypes /\ TierFollows
    BY Zenon DEF QuoteInv
  <1>1. PICK e \in MerchantEvent : e = [name |-> IF merchantTier = NoTier THEN "onboarded" ELSE "tier", tier |-> tier]
    <2>1. \E name \in {"onboarded", "tier"} : name = IF merchantTier = NoTier THEN "onboarded" ELSE "tier"
      BY Zenon
    <2> QED BY <2>1, Zenon DEF MerchantEvent
  <1>2. /\ merchantBus' = Append(merchantBus, e) /\ merchantTier' = tier
        /\ merchantTier = NoTier => tier = DEFAULT_TIER
        /\ UNCHANGED <<fxCache, fxAudit, unaudited, quoteReq, quotes, pricing, redelivered>>
    BY <1>1, Zenon DEF MerchantAnnounces, fxVars
  <1>3. /\ merchantBus' \in Seq(MerchantEvent) /\ merchantBus' # <<>> /\ merchantBus'[Len(merchantBus')] = e
        /\ merchantBus = <<>> => merchantBus'[1] = e
        /\ merchantBus # <<>> => merchantBus'[1] = merchantBus[1]
    BY <1>0, <1>2, BusAppended, Zenon
  <1>4. QuoteTypes'
    BY <1>0, <1>2, <1>3, Zenon DEF QuoteTypes
  <1>5. TierFollows'
    <2>0. tier # NoTier /\ DEFAULT_TIER \in Tiers
      BY FeeQuotesAssumption, Zenon DEF Tiers
    <2>1. pricing.tier = NoTier => merchantBus'[1].name = "onboarded"
      <3>1. merchantBus = <<>> /\ pricing.tier = NoTier => merchantTier = NoTier /\ e.name = "onboarded"
        BY <1>0, <1>1, Zenon DEF TierFollows
      <3>2. merchantBus # <<>> /\ pricing.tier = NoTier => merchantBus[1].name = "onboarded"
        BY <1>0, Zenon DEF TierFollows
      <3> QED BY <1>3, <3>1, <3>2, Zenon
    <2>2. TierOfEvent(e) = TierKnownAs(tier)
      BY <1>1, <1>2, <2>0, Zenon DEF TierOfEvent, TierKnownAs, Tiers
    <2>3. TierOfEvent(merchantBus'[Len(merchantBus')]) = TierKnownAs(tier)
      BY <1>3, <2>2, Zenon
    <2> QED BY <1>0, <1>2, <1>3, <2>0, <2>1, <2>3, Zenon DEF TierFollows, TierOfEvent, TierKnownAs
  <1> QED BY <1>2, <1>4, <1>5, QuotesUntouched, Zenon DEF QuoteInv

(* A repeated merchant.onboarded comes after the first. *)
LEMMA OnboardedAgainKeeps ==
  ASSUME QuoteInv, OnboardedAgain
  PROVE  QuoteInv'
  <1>0. QuoteTypes /\ TierFollows
    BY Zenon DEF QuoteInv
  <1>1. PICK e \in MerchantEvent : e = [name |-> "onboarded", tier |-> DEFAULT_TIER]
    BY FeeQuotesAssumption, Zenon DEF MerchantEvent, Tiers
  <1>2. /\ merchantBus' = Append(merchantBus, e) /\ redelivered' = TRUE /\ merchantTier # NoTier
        /\ UNCHANGED <<fxCache, fxAudit, unaudited, quoteReq, quotes, pricing, merchantTier>>
    BY <1>1, Zenon DEF OnboardedAgain, fxVars
  <1>3. /\ merchantBus' \in Seq(MerchantEvent) /\ merchantBus' # <<>>
        /\ merchantBus = <<>> => merchantBus'[1] = e
        /\ merchantBus # <<>> => merchantBus'[1] = merchantBus[1]
    BY <1>0, <1>2, BusAppended, Zenon
  <1>4. QuoteTypes'
    BY <1>0, <1>2, <1>3, Zenon DEF QuoteTypes
  <1>5. TierFollows'
    BY <1>0, <1>1, <1>2, <1>3, Zenon DEF TierFollows
  <1> QED BY <1>2, <1>4, <1>5, QuotesUntouched, Zenon DEF QuoteInv

(* The consumer takes the oldest event, keeps the organization, and the     *)
(* last event still tells the tier.                                         *)
LEMMA ConsumeKeeps ==
  ASSUME QuoteInv, ConsumeMerchantEvent
  PROVE  QuoteInv'
  <1>0. QuoteTypes /\ TierFollows
    BY Zenon DEF QuoteInv
  <1>1. /\ merchantBus # <<>> /\ merchantBus' = Tail(merchantBus)
        /\ UNCHANGED <<fxCache, fxAudit, unaudited, quoteReq, quotes, merchantTier, redelivered>>
    BY Zenon DEF ConsumeMerchantEvent, fxVars
  <1>2. PICK e \in MerchantEvent : e = merchantBus[1] /\ Head(merchantBus) = e
    BY <1>0, <1>1 DEF QuoteTypes
  <1>3. PICK row \in [tier : Tiers, org : BOOLEAN] : row = pricing' /\ row.tier = TierOfEvent(e)
                                                     /\ (e.name = "onboarded" \/ pricing.org => row.org)
    <2>1. TierOfEvent(e) \in Tiers
      BY FeeQuotesAssumption, Zenon DEF TierOfEvent, Tiers
    <2>2. OrgCoalesced(e) \in BOOLEAN
      BY <1>0, Zenon DEF OrgCoalesced, QuoteTypes
    <2>3. pricing' = [tier |-> TierOfEvent(e), org |-> OrgCoalesced(e)]
      BY <1>2, Zenon DEF ConsumeMerchantEvent
    <2>4. e.name = "onboarded" \/ pricing.org => OrgCoalesced(e)
      BY Zenon DEF OrgCoalesced
    <2> QED BY <2>1, <2>2, <2>3, <2>4
  <1>4. /\ merchantBus' \in Seq(MerchantEvent)
        /\ merchantBus' # <<>> => merchantBus'[Len(merchantBus')] = merchantBus[Len(merchantBus)]
        /\ merchantBus' = <<>> => merchantBus[Len(merchantBus)] = e
    <2>1. merchantBus \in Seq(MerchantEvent)
      BY <1>0, Zenon DEF QuoteTypes
    <2>2. merchantBus' \in Seq(MerchantEvent) /\ Len(merchantBus') = Len(merchantBus) - 1 /\ Len(merchantBus) > 0
      BY <1>1, <2>1
    <2>3. merchantBus' = <<>> => Len(merchantBus) = 1
      BY <2>1, <2>2
    <2>4. merchantBus' # <<>> => Len(merchantBus') > 0
      BY <2>2
    <2>5. merchantBus' # <<>> => merchantBus'[Len(merchantBus')] = merchantBus[Len(merchantBus)]
      BY <1>1, <2>1, <2>2, <2>4
    <2> QED BY <1>2, <2>2, <2>3, <2>5, Zenon
  <1>5. QuoteTypes'
    BY <1>0, <1>1, <1>3, <1>4, Zenon DEF QuoteTypes
  <1>6. TierFollows'
    <2>1. row.tier # NoTier /\ merchantTier # NoTier
      BY <1>0, <1>1, <1>3, FeeQuotesAssumption, Zenon DEF TierFollows, Tiers
    <2>2. row.org
      BY <1>0, <1>1, <1>2, <1>3, Zenon DEF TierFollows
    <2>3. ~ redelivered => TierKnownAs(merchantTier) = TierOfEvent(merchantBus[Len(merchantBus)])
      BY <1>0, <1>1, <2>1, Zenon DEF TierFollows
    <2>4. ~ redelivered => TierKnownAs(merchantTier) = IF merchantBus' = <<>> THEN row.tier
                                                       ELSE TierOfEvent(merchantBus'[Len(merchantBus')])
      BY <1>3, <1>4, <2>3, Zenon
    <2> QED BY <1>1, <1>3, <2>1, <2>2, <2>4, Zenon DEF TierFollows, TierOfEvent, TierKnownAs
  <1> QED BY <1>1, <1>5, <1>6, QuotesUntouched, Zenon DEF QuoteInv

(* Every step keeps the invariant. *)
LEMMA QuoteNextInv == QuoteInv /\ [QuoteNext]_quoteVars => QuoteInv'
  <1> SUFFICES ASSUME QuoteInv, [QuoteNext]_quoteVars PROVE QuoteInv'
    BY Zenon
  <1>1. CASE UNCHANGED quoteVars
    <2>1. UNCHANGED <<fxCache, fxAudit, unaudited, quoteReq, quotes, pricing, merchantBus, merchantTier, redelivered>>
      BY <1>1, Zenon DEF quoteVars, fxVars, tierVars
    <2>2. QuoteTypes'
      BY <2>1, Zenon DEF QuoteInv, QuoteTypes
    <2> QED BY <2>1, <2>2, QuotesUntouched, TiersUntouched, Zenon DEF QuoteInv
  <1>2. CASE QuoteNext
    BY <1>2, BeginQuoteKeeps, FetchKeeps, CacheKeeps, AuditKeeps, PriceKeeps, CacheExpiryKeeps, AnnounceKeeps,
       ConsumeKeeps, OnboardedAgainKeeps, Zenon DEF QuoteNext, Tiers
  <1> QED BY <1>1, <1>2, Zenon

(* The invariant gives the property. *)
LEMMA QuoteInvHonest == QuoteInv => QuotesHonest
  <1> SUFFICES ASSUME QuoteInv PROVE QuotesHonest
    BY Zenon
  <1> USE DEF QuoteInv
  <1>1. QuoteTypeOK
    <2>1. fxAudit \cup unaudited \subseteq CrossPairs \X (Rates \cup {FallbackRate})
      BY Zenon DEF QuoteTypes, FxRates
    <2> QED BY <2>1, Zenon DEF QuoteTypes, QuoteTypeOK, Complete, Tiers
  <1>2. TierFollowsMerchant
    BY Zenon DEF TierFollows, TierFollowsMerchant, TierKnownAs, MerchantTier, Tiers
  <1>3. PageShowsQuotedFees
    BY Zenon DEF TierFollows, PageShowsQuotedFees, MembersRead, PricingView, MerchantTier
  <1> QED BY <1>1, <1>2, <1>3, Zenon DEF QuotesHonest

(* For any tiers, rails, rates, requests and events: the quotes stored by   *)
(* one request are complete, their fees and net add up, their rate has its  *)
(* row up to rows lost with their transaction, and their tier is the last   *)
(* announced one and the one on the merchant's pricing page, up to a        *)
(* repeated merchant.onboarded.                                             *)
THEOREM QuotesHonestAlways == QuoteSpec => []QuotesHonest
  <1> QED BY QuoteInitInv, QuoteNextInv, QuoteInvHonest, PTL DEF QuoteSpec
=============================================================================
