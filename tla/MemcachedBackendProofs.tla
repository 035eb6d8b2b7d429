----------------------- MODULE MemcachedBackendProofs -----------------------
(***************************************************************************)
(* Proofs about the backend, for any servers, threads, keys, views and     *)
(* numbers of requests and errors.                                         *)
(***************************************************************************)
EXTENDS MemcachedBackend, FiniteSetTheorems, TLAPS

Item == [data : 0..MaxChanges, cas : Nat]
Backup == [key : Key, data : 1..MaxChanges]
Seen == [key : Key, data : 0..MaxChanges, cas : Nat]

LEMMA IdleType == Idle \in Request /\ Idle.key \in Key
<1>1. (CHOOSE k \in Key : TRUE) \in Key
  BY BoundAssumption, Zenon
<1> QED BY <1>1, BoundAssumption DEF Idle, Request, Write, Failure, Statuses

(* What get_replica_addresses gives is a list of servers.                  *)
LEMMA ListType ==
    ASSUME TypeOK, NEW k \in Key, NEW kind \in {"read", "write"},
           NEW list \in get_replica_addresses(k, kind)
    PROVE  list \in Seq(Server)
<1>1. ASSUME NEW v \in View PROVE v[kind][k] \in Seq(Server)
  BY ViewAssumption, Zenon DEF ReplicaMap
<1>2. view \in View /\ (copying # NoView => copying \in View)
  BY Zenon DEF TypeOK
<1>3. CASE copying = NoView
  BY <1>1, <1>2, <1>3, Zenon DEF get_replica_addresses
<1>4. CASE copying # NoView
  <2>1. PICK n \in {Len(view[kind][k]), Len(copying[kind][k])} : list \in [1..n -> Server]
    BY <1>4, Zenon DEF get_replica_addresses, Torn
  <2>2. n \in Nat
    BY <1>1, <1>2, <1>4
  <2> QED BY <2>1, <2>2
<1> QED BY <1>3, <1>4, Zenon

(***************************************************************************)
(* No vbucket has a sole replica, in any view.  Then no thread has a list  *)
(* of one, whatever new_view does while it reads the list.                 *)
(***************************************************************************)
Replicated ==
    \A v \in View, k \in Key : Len(v.read[k]) # 1 /\ Len(v.write[k]) # 1

LEMMA ListsAreNotSole ==
    ASSUME Replicated, TypeOK, NEW k \in Key, NEW kind \in {"read", "write"},
           NEW list \in get_replica_addresses(k, kind)
    PROVE  Len(list) # 1
<1>1. ASSUME NEW v \in View PROVE Len(v[kind][k]) \in Nat /\ Len(v[kind][k]) # 1
  <2>1. v[kind][k] \in Seq(Server)
    BY ViewAssumption, Zenon DEF ReplicaMap
  <2>2. Len(v[kind][k]) # 1
    BY Zenon DEF Replicated
  <2> QED BY <2>1, <2>2
<1>2. view \in View /\ (copying # NoView => copying \in View)
  BY Zenon DEF TypeOK
<1>3. CASE copying = NoView
  BY <1>1, <1>2, <1>3, Zenon DEF get_replica_addresses
<1>4. CASE copying # NoView
  <2>1. PICK n \in {Len(view[kind][k]), Len(copying[kind][k])} : list \in [1..n -> Server]
    BY <1>4, Zenon DEF get_replica_addresses, Torn
  <2>2. n \in Nat /\ n # 1
    <3>1. Len(view[kind][k]) \in Nat /\ Len(view[kind][k]) # 1
      BY <1>1, <1>2, Zenon
    <3>2. Len(copying[kind][k]) \in Nat /\ Len(copying[kind][k]) # 1
      BY <1>1, <1>2, <1>4, Zenon
    <3> QED BY <2>1, <3>1, <3>2, Zenon
  <2>3. list \in Seq(Server)
    BY ListType, Zenon
  <2>4. DOMAIN list = 1..Len(list) /\ DOMAIN list = 1..n
    BY <2>1, <2>3
  <2>5. 1 \in DOMAIN list => 2 \in DOMAIN list
    BY <2>2, <2>4
  <2>6. ASSUME Len(list) = 1 PROVE FALSE
    <3>1. DOMAIN list = 1..1
      BY <2>4, <2>6, Zenon
    <3> QED BY <2>5, <3>1
  <2> QED BY <2>6, Zenon
<1> QED BY <1>3, <1>4, Zenon

(* The replica an attempt goes to is in the list.                          *)
LEMMA ReplicaType ==
    ASSUME NEW r \in Request, MoreAttempts(r)
    PROVE  Replica(r) \in Server
<1>1. r.list \in Seq(Server) /\ r.tries \in Nat
  BY Zenon DEF Request
<1> QED BY <1>1 DEF MoreAttempts, Attempts, Replica

(* The first replica to be tried is the first of the list.                 *)
LEMMA FirstTry ==
    ASSUME NEW r \in Request, MoreAttempts(r), r.tries = 0
    PROVE  r.list # <<>> /\ Replica(r) = r.list[1]
<1>1. r.list \in Seq(Server)
  BY Zenon DEF Request
<1> QED BY <1>1 DEF MoreAttempts, Attempts, Replica

LEMMA StoreAnswerType ==
    ASSUME NEW s, NEW r, r.oper \in Write
    PROVE  StoreAnswer(s, r) \in {"SUCCESS", "DATA_EXISTS", "NOTFOUND"}
BY Zenon DEF StoreAnswer, Write

-----------------------------------------------------------------------------
(***************************************************************************)
(* The inductive invariant.  A read has counted every try as failed or     *)
(* answered; a write goes on only while no replica has answered.           *)
(***************************************************************************)
Memcacheds ==
    /\ item \in [Server -> [Key -> Item]]
    /\ casid \in [Server -> Nat]
    /\ pending \in [Server -> [Conn -> Seq(Backup)]]
    /\ restarts \in 0..MaxRestarts

Views == view \in View /\ copying \in View \cup {NoView}

Tried(r) ==
    /\ r.failed <= r.tries
    /\ r.tries <= Attempts(r)
    /\ r.answered <=> r.failed < r.tries
    /\ r.rc = "SUCCESS" => r.answered

Written(r) ==
    /\ r.oper \in Write /\ r.data >= 1
    /\ r.answered <=> r.rc \notin Failure

Requests ==
    /\ req \in [Thread -> Request]
    /\ \A t \in Thread : /\ req[t].pc = "read" => Tried(req[t])
                         /\ req[t].pc = "write" => Written(req[t])
                         /\ Replicated => Len(req[t].list) # 1

FailedSet == {k \in Key : comm_state[k]}

Comms ==
    /\ comm_state \in [Key -> BOOLEAN] /\ alarm \in BOOLEAN /\ due \in BOOLEAN
    /\ fail_count = Cardinality(FailedSet)

Clients ==
    /\ seen \in [Thread -> Seen] /\ latest \in [Key -> 0..MaxChanges]
    /\ changes \in 0..MaxChanges /\ errors \in 0..MaxErrors

Inv == Memcacheds /\ Views /\ Requests /\ Comms /\ Clients

LEMMA FailedIsFinite ==
    /\ IsFiniteSet(FailedSet) /\ Cardinality(FailedSet) \in 0..Cardinality(Key)
<1>1. FailedSet \subseteq Key /\ IsFiniteSet(Key)
  BY BoundAssumption, Zenon DEF FailedSet
<1>2. IsFiniteSet(FailedSet) /\ Cardinality(FailedSet) <= Cardinality(Key)
  BY <1>1, FS_Subset, Zenon
<1> QED BY <1>1, <1>2, FS_CardinalityType

LEMMA InvType == Inv => TypeOK
<1> SUFFICES ASSUME Inv PROVE TypeOK
  BY Zenon
<1>1. comm_state \in [Key -> BOOLEAN] /\ alarm \in BOOLEAN /\ due \in BOOLEAN
  BY Zenon DEF Inv, Comms
<1>2. fail_count \in 0..Cardinality(Key)
  BY FailedIsFinite, Zenon DEF Inv, Comms
<1> QED
  BY <1>1, <1>2, Zenon
  DEF Inv, Memcacheds, Views, Requests, Clients, TypeOK, Item, Backup, Seen

(***************************************************************************)
(* update_vbucket_comm_state changes the count exactly when the set of     *)
(* failed vbuckets changes.                                                *)
(***************************************************************************)
LEMMA UpdateKeeps ==
    ASSUME Comms, NEW k \in Key, NEW failed \in BOOLEAN, update_vbucket_comm_state(k, failed)
    PROVE  Comms'
<1>1. comm_state' \in [Key -> BOOLEAN] /\ alarm' \in BOOLEAN /\ due' \in BOOLEAN
  BY Zenon DEF Comms, update_vbucket_comm_state
<1>2. /\ comm_state'[k] = failed
      /\ \A j \in Key : j # k => comm_state'[j] = comm_state[j]
  BY Zenon DEF Comms, update_vbucket_comm_state
<1>3. IsFiniteSet(FailedSet) /\ Cardinality(FailedSet) \in Nat /\ fail_count = Cardinality(FailedSet)
  BY FailedIsFinite, FS_CardinalityType, Zenon DEF Comms
<1>4. CASE comm_state[k] = failed
  <2>1. FailedSet' = FailedSet
    BY <1>2, <1>4, Zenon DEF FailedSet
  <2>2. fail_count' = fail_count
    BY <1>4, Zenon DEF update_vbucket_comm_state
  <2> QED BY <1>1, <1>3, <2>1, <2>2, Zenon DEF Comms
<1>5. CASE failed /\ ~comm_state[k]
  <2>1. FailedSet' = FailedSet \cup {k} /\ k \notin FailedSet
    BY <1>2, <1>5, Zenon DEF FailedSet
  <2>2. fail_count' = fail_count + 1
    BY <1>5, Zenon DEF update_vbucket_comm_state
  <2>3. Cardinality(FailedSet \cup {k}) = Cardinality(FailedSet) + 1
    BY <1>3, <2>1, FS_AddElement, Zenon
  <2> QED BY <1>1, <1>3, <2>1, <2>2, <2>3, Zenon DEF Comms
<1>6. CASE ~failed /\ comm_state[k]
  <2>1. FailedSet' = FailedSet \ {k} /\ k \in FailedSet
    BY <1>2, <1>6, Zenon DEF FailedSet
  <2>2. fail_count' = IF fail_count > 0 THEN fail_count - 1 ELSE fail_count
    BY <1>6, Zenon DEF update_vbucket_comm_state
  <2>3. FailedSet # {}
    BY <2>1, Zenon
  <2>4. Cardinality(FailedSet) # 0
    BY <1>3, <2>3, FS_EmptySet, Zenon
  <2>5. Cardinality(FailedSet \ {k}) = Cardinality(FailedSet) - 1
    BY <1>3, <2>1, FS_RemoveElement, Zenon
  <2>6. fail_count' = Cardinality(FailedSet')
    BY <1>3, <2>1, <2>2, <2>4, <2>5
  <2> QED BY <1>1, <2>6, Zenon DEF Comms
<1>7. failed \in BOOLEAN /\ comm_state[k] \in BOOLEAN
  BY Zenon DEF Comms
<1> QED BY <1>4, <1>5, <1>6, <1>7, Zenon

(* Replacing the local variables of one thread.                            *)
LEMMA NewRequest ==
    ASSUME Requests, NEW t \in Thread, NEW r \in Request,
           r.pc = "read" => Tried(r), r.pc = "write" => Written(r),
           Replicated => Len(r.list) # 1,
           req' = [req EXCEPT ![t] = r]
    PROVE  Requests'
<1>1. req'[t] = r /\ \A u \in Thread : u # t => req'[u] = req[u]
  BY Zenon DEF Requests
<1>2. req' \in [Thread -> Request]
  BY Zenon DEF Requests
<1> QED BY <1>1, <1>2, Zenon DEF Requests

LEMMA AnswerKeeps == ASSUME Requests, NEW t \in Thread, Answer(t) PROVE Requests'
<1>1. Idle \in Request /\ Idle.pc = "idle" /\ Len(Idle.list) # 1
  BY IdleType DEF Idle
<1> QED BY <1>1, NewRequest, Zenon DEF Answer

(* memcached stores a record.                                              *)
LEMMA PutType ==
    ASSUME Memcacheds, NEW s \in Server, NEW k \in Key, NEW data \in 0..MaxChanges, Put(s, k, data)
    PROVE  item' \in [Server -> [Key -> Item]] /\ casid' \in [Server -> Nat]
<1>1. casid[s] \in Nat
  BY Zenon DEF Memcacheds
<1>2. [data |-> data, cas |-> casid[s] + 1] \in Item
  BY <1>1 DEF Item
<1>3. item' \in [Server -> [Key -> Item]]
  BY <1>2, Zenon DEF Put, Memcacheds
<1> QED BY <1>1, <1>3 DEF Put, Memcacheds

LEMMA DropType ==
    ASSUME Memcacheds, NEW s \in Server, NEW k \in Key, Drop(s, k)
    PROVE  item' \in [Server -> [Key -> Item]] /\ casid' \in [Server -> Nat]
<1>1. NoItem \in Item
  BY BoundAssumption DEF NoItem, Item
<1> QED BY <1>1, Zenon DEF Drop, Memcacheds

LEMMA FailsType ==
    ASSUME Clients, Fails PROVE errors' \in 0..MaxErrors
BY BoundAssumption DEF Clients, Fails

(* The parts of the invariant that a step leaves alone.                    *)
LEMMA Unchanged ==
    /\ Memcacheds /\ UNCHANGED memcached => Memcacheds'
    /\ Views /\ UNCHANGED config => Views'
    /\ Requests /\ UNCHANGED req => Requests'
    /\ Comms /\ UNCHANGED comms => Comms'
    /\ Clients /\ UNCHANGED <<seen, latest, changes, errors>> => Clients'
<1>1. Memcacheds /\ UNCHANGED memcached => Memcacheds'
  BY Zenon DEF Memcacheds, memcached
<1>2. Views /\ UNCHANGED config => Views'
  BY Zenon DEF Views, config
<1>3. Requests /\ UNCHANGED req => Requests'
  BY Zenon DEF Requests
<1>4. Comms /\ UNCHANGED comms => Comms'
  BY Zenon DEF Comms, comms, FailedSet
<1>5. Clients /\ UNCHANGED <<seen, latest, changes, errors>> => Clients'
  BY Zenon DEF Clients
<1> QED BY <1>1, <1>2, <1>3, <1>4, <1>5, Zenon

(* The handlers' first steps.                                              *)
LEMMA StartKeeps ==
    ASSUME Inv, NEW t \in Thread, NEW k \in Key,
           \/ StartRead(t, k) \/ StartDelete(t, k)
           \/ \E oper \in Write : StartWrite(t, k, oper)
    PROVE  Inv'
<1>0. Memcacheds /\ Views /\ Requests /\ Comms /\ Clients /\ TypeOK /\ Idle \in Request
  BY InvType, IdleType, Zenon DEF Inv
<1>1. CASE StartRead(t, k)
  <2>1. PICK list \in get_replica_addresses(k, "read") :
          req' = [req EXCEPT ![t] = [Idle EXCEPT !.pc = "read", !.key = k, !.list = list]]
    BY <1>1, Zenon DEF StartRead
  <2> DEFINE r == [Idle EXCEPT !.pc = "read", !.key = k, !.list = list]
  <2>2. list \in Seq(Server)
    BY <1>0, <2>1, ListType, Zenon
  <2>3. r \in Request
    BY <1>0, <2>2, Zenon DEF Request
  <2>4. Tried(r) /\ r.pc = "read" /\ r.list = list
    BY <2>2 DEF Tried, Idle, Attempts
  <2> HIDE DEF r
  <2>5. Replicated => Len(r.list) # 1
    BY <1>0, <2>1, <2>4, ListsAreNotSole, Zenon
  <2>6. Requests'
    BY <1>0, <2>1, <2>3, <2>4, <2>5, NewRequest, Zenon DEF r
  <2> QED BY <1>0, <1>1, <2>6, Unchanged, Zenon DEF StartRead, Inv
<1>2. CASE StartDelete(t, k)
  <2>1. PICK list \in get_replica_addresses(k, "read") :
          req' = [req EXCEPT ![t] = [Idle EXCEPT !.pc = "delete", !.oper = "DELETE",
                      !.key = k, !.list = list]]
    BY <1>2, Zenon DEF StartDelete
  <2> DEFINE r == [Idle EXCEPT !.pc = "delete", !.oper = "DELETE", !.key = k, !.list = list]
  <2>2. list \in Seq(Server)
    BY <1>0, <2>1, ListType, Zenon
  <2>3. r \in Request
    BY <1>0, <2>2, Zenon DEF Request
  <2>4. r.pc = "delete" /\ r.list = list
    BY Zenon DEF Idle
  <2> HIDE DEF r
  <2>5. Replicated => Len(r.list) # 1
    BY <1>0, <2>1, <2>4, ListsAreNotSole, Zenon
  <2>6. Requests'
    BY <1>0, <2>1, <2>3, <2>4, <2>5, NewRequest, Zenon DEF r
  <2>7. Clients'
    <3>1. changes < MaxChanges /\ changes' = changes + 1 /\ UNCHANGED <<seen, latest, errors>>
      BY <1>2, Zenon DEF StartDelete
    <3> QED BY <1>0, <3>1, BoundAssumption DEF Clients
  <2> QED BY <1>0, <1>2, <2>6, <2>7, Unchanged, Zenon DEF StartDelete, Inv
<1>3. ASSUME NEW oper \in Write, StartWrite(t, k, oper) PROVE Inv'
  <2>1. PICK list \in get_replica_addresses(k, "write"),
             id \in {0} \cup (IF oper = "REPLACE" /\ seen[t].key = k THEN {seen[t].cas} ELSE {}) :
          req' = [req EXCEPT ![t] = [Idle EXCEPT !.pc = "write", !.oper = oper, !.key = k,
                      !.list = list, !.data = changes + 1, !.cas = id]]
    BY <1>3, Zenon DEF StartWrite
  <2> DEFINE r == [Idle EXCEPT !.pc = "write", !.oper = oper, !.key = k,
                      !.list = list, !.data = changes + 1, !.cas = id]
  <2>2. list \in Seq(Server)
    BY <1>0, <2>1, ListType, Zenon
  <2>3. changes < MaxChanges /\ changes' = changes + 1 /\ UNCHANGED <<seen, latest, errors>>
    BY <1>3, Zenon DEF StartWrite
  <2>4. id \in Nat /\ changes + 1 \in 0..MaxChanges /\ changes + 1 >= 1
    <3>1. seen[t].cas \in Nat /\ changes \in 0..MaxChanges
      BY <1>0, Zenon DEF Clients, Seen
    <3>2. id = 0 \/ id = seen[t].cas
      BY <2>1, Zenon
    <3> QED BY <2>3, <3>1, <3>2, BoundAssumption
  <2>5. r \in Request
    <3> DEFINE n == changes + 1
    <3>1. n \in 0..MaxChanges
      BY <2>4, Zenon
    <3> HIDE DEF n
    <3>2. [Idle EXCEPT !.pc = "write", !.oper = oper, !.key = k, !.list = list, !.data = n,
                       !.cas = id] \in Request
      BY <1>0, <2>2, <2>4, <3>1, Zenon DEF Request
    <3> QED BY <3>2, Zenon DEF n
  <2>6. Written(r) /\ r.pc = "write" /\ r.list = list
    BY <2>4, Zenon DEF Written, Idle, Failure
  <2> HIDE DEF r
  <2>7. Replicated => Len(r.list) # 1
    BY <1>0, <2>1, <2>6, ListsAreNotSole, Zenon
  <2>8. Requests'
    BY <1>0, <2>1, <2>5, <2>6, <2>7, NewRequest, Zenon DEF r
  <2>9. Clients'
    BY <1>0, <2>3, BoundAssumption DEF Clients
  <2> QED BY <1>0, <1>3, <2>8, <2>9, Unchanged, Zenon DEF StartWrite, Inv
<1> QED BY <1>1, <1>2, <1>3, Zenon

(* The updates of a handler's local variables keep their types.            *)
Result == Contention \cup Failure \cup {"SUCCESS"}

LEMMA HitType ==
    ASSUME NEW r \in Request, NEW n \in Nat, NEW rc \in Result, NEW c \in Nat, NEW d \in 0..MaxChanges
    PROVE  [r EXCEPT !.tries = n, !.rc = rc, !.data = d, !.cas = c, !.answered = TRUE] \in Request
BY Zenon DEF Request, Result

LEMMA MissType ==
    ASSUME NEW r \in Request, NEW n \in Nat, NEW rc \in Result
    PROVE  [r EXCEPT !.tries = n, !.rc = rc, !.cas = 0, !.not_found = TRUE, !.answered = TRUE]
               \in Request
BY Zenon DEF Request, Result

LEMMA ErrorType ==
    ASSUME NEW r \in Request, NEW n \in Nat, NEW rc \in Result, NEW m \in Nat
    PROVE  [r EXCEPT !.tries = n, !.rc = rc, !.cas = 0, !.failed = m] \in Request
BY Zenon DEF Request, Result

LEMMA StoreType ==
    ASSUME NEW r \in Request, NEW n \in Nat, NEW rc \in Result, NEW m \in Nat
    PROVE  /\ [r EXCEPT !.tries = n, !.rc = rc, !.answered = TRUE, !.sent = m] \in Request
           /\ [r EXCEPT !.tries = n, !.rc = rc] \in Request
<1>1. [r EXCEPT !.tries = n, !.rc = rc, !.answered = TRUE, !.sent = m] \in Request
  BY Zenon DEF Request, Result
<1>2. [r EXCEPT !.tries = n, !.rc = rc] \in Request
  BY Zenon DEF Request, Result
<1> QED BY <1>1, <1>2, Zenon

(* A try of read_data: the answer of a replica.                            *)
LEMMA ReadKeeps == ASSUME Inv, NEW t \in Thread, ReadReplica(t) PROVE Inv'
<1> DEFINE r == req[t]
<1>0. /\ Memcacheds /\ Views /\ Requests /\ Comms /\ Clients
      /\ r \in Request /\ r.tries \in Nat /\ r.failed \in Nat /\ r.answered \in BOOLEAN
      /\ r.key \in Key /\ r.list \in Seq(Server) /\ Attempts(r) \in Nat
  <2>1. Memcacheds /\ Views /\ Requests /\ Comms /\ Clients
    BY Zenon DEF Inv
  <2>2. r \in Request
    BY <2>1, Zenon DEF Requests
  <2>3. /\ r.tries \in Nat /\ r.failed \in Nat /\ r.answered \in BOOLEAN
        /\ r.key \in Key /\ r.list \in Seq(Server)
    BY <2>2, Zenon DEF Request
  <2>4. Attempts(r) \in Nat
    BY <2>3 DEF Attempts
  <2> QED BY <2>1, <2>2, <2>3, <2>4, Zenon
<1>1. /\ r.pc = "read" /\ r.rc # "SUCCESS" /\ MoreAttempts(r) /\ get_from_replica(t)
      /\ Tried(r) /\ r.tries < Attempts(r) /\ Replica(r) \in Server
      /\ Replicated => Len(r.list) # 1
  BY <1>0, ReplicaType, Zenon DEF ReadReplica, Requests, MoreAttempts
<1> HIDE DEF r
<1> DEFINE found == item[Replica(r)][r.key]
           hit == [r EXCEPT !.tries = @ + 1, !.rc = "SUCCESS",
                        !.data = found.data, !.cas = found.cas, !.answered = TRUE]
           miss == [r EXCEPT !.tries = @ + 1, !.rc = "NOTFOUND",
                        !.cas = 0, !.not_found = TRUE, !.answered = TRUE]
           err(rc) == [r EXCEPT !.tries = @ + 1, !.rc = rc, !.cas = 0, !.failed = @ + 1]
<1>2. found \in Item /\ found.data \in 0..MaxChanges /\ found.cas \in Nat
  BY <1>0, <1>1, Zenon DEF Memcacheds, Item
<1>3. CASE req' = [req EXCEPT ![t] = hit] /\ UNCHANGED errors
  <2> HIDE DEF found
  <2>1. hit \in Request
    <3>1. "SUCCESS" \in Result /\ r.tries + 1 \in Nat
      BY <1>0 DEF Result
    <3> QED BY <1>0, <1>2, <3>1, HitType, Zenon
  <2>2. /\ hit.pc = "read" /\ hit.tries = r.tries + 1 /\ hit.failed = r.failed /\ hit.answered
        /\ hit.list = r.list
    BY <1>0, <1>1, Zenon DEF Request
  <2> HIDE DEF hit
  <2>3. Tried(hit)
    BY <1>0, <1>1, <2>2 DEF Tried, Attempts
  <2>4. Requests'
    BY <1>0, <1>1, <1>3, <2>1, <2>2, <2>3, NewRequest, Zenon
  <2> QED BY <1>0, <1>3, <2>4, Unchanged, Zenon DEF ReadReplica, Inv
<1>4. CASE req' = [req EXCEPT ![t] = miss] /\ UNCHANGED errors
  <2>1. miss \in Request
    <3>1. "NOTFOUND" \in Result /\ r.tries + 1 \in Nat
      BY <1>0 DEF Result, Contention
    <3> QED BY <1>0, <3>1, MissType, Zenon
  <2>2. /\ miss.pc = "read" /\ miss.tries = r.tries + 1 /\ miss.failed = r.failed /\ miss.answered
        /\ miss.list = r.list
    BY <1>0, <1>1, Zenon DEF Request
  <2> HIDE DEF miss
  <2>3. Tried(miss)
    BY <1>0, <1>1, <2>2 DEF Tried, Attempts
  <2>4. Requests'
    BY <1>0, <1>1, <1>4, <2>1, <2>2, <2>3, NewRequest, Zenon
  <2> QED BY <1>0, <1>4, <2>4, Unchanged, Zenon DEF ReadReplica, Inv
<1>5. ASSUME NEW rc \in Failure, req' = [req EXCEPT ![t] = err(rc)], Fails PROVE Inv'
  <2> DEFINE e == err(rc)
  <2>1. e \in Request
    <3>1. rc \in Result /\ r.tries + 1 \in Nat /\ r.failed + 1 \in Nat
      BY <1>0 DEF Result
    <3> QED BY <1>0, <3>1, ErrorType, Zenon
  <2>2. /\ e.pc = "read" /\ e.tries = r.tries + 1 /\ e.failed = r.failed + 1
        /\ e.list = r.list /\ e.rc = rc
    BY <1>0, <1>1, Zenon DEF Request
  <2>3. e.answered = r.answered
    BY <1>0, Zenon DEF Request
  <2>4. req' = [req EXCEPT ![t] = e]
    BY <1>5, Zenon
  <2> HIDE DEF e
  <2>5. e.answered <=> e.failed < e.tries
    <3>1. e.failed < e.tries <=> r.failed < r.tries
      BY <1>0, <2>2
    <3> QED BY <1>1, <2>3, <3>1, Zenon DEF Tried
  <2>6. e.rc # "SUCCESS" /\ e.failed <= e.tries /\ e.tries <= Attempts(e)
    BY <1>0, <1>1, <2>2 DEF Failure, Tried, Attempts
  <2>7. Tried(e)
    BY <2>5, <2>6, Zenon DEF Tried
  <2>8. Requests'
    BY <1>0, <1>1, <2>1, <2>2, <2>4, <2>7, NewRequest, Zenon
  <2>9. Clients'
    BY <1>0, <1>5, FailsType, Zenon DEF ReadReplica, Clients
  <2> QED BY <1>0, <2>8, <2>9, Unchanged, Zenon DEF ReadReplica, Inv
<1> QED BY <1>1, <1>3, <1>4, <1>5, Zenon DEF get_from_replica, r

(* A try of write_data.                                                    *)
LEMMA WriteKeeps == ASSUME Inv, NEW t \in Thread, WriteReplica(t) PROVE Inv'
<1> DEFINE r == req[t]
           s == Replica(r)
<1>0. /\ Memcacheds /\ Views /\ Requests /\ Comms /\ Clients
      /\ r \in Request /\ r.tries \in Nat /\ r.key \in Key /\ r.data \in 0..MaxChanges
      /\ r.list \in Seq(Server)
  BY Zenon DEF Inv, Requests, Request
<1>1. /\ r.pc = "write" /\ MoreAttempts(r) /\ Written(r) /\ s \in Server /\ r.rc \in Failure
      /\ Replicated => Len(r.list) # 1
  BY <1>0, ReplicaType, Zenon DEF WriteReplica, Requests
<1>2. /\ ~r.answered /\ r.oper \in Write
      /\ StoreAnswer(s, r) \in {"SUCCESS", "DATA_EXISTS", "NOTFOUND"}
  BY <1>1, StoreAnswerType, Zenon DEF Written
<1> HIDE DEF r, s
<1>3. Memcacheds'
  <2>1. CASE Put(s, r.key, r.data)
    <3>1. item' \in [Server -> [Key -> Item]] /\ casid' \in [Server -> Nat]
      BY <1>0, <1>1, <2>1, PutType, Zenon
    <3> QED BY <1>0, <3>1, Zenon DEF WriteReplica, Memcacheds
  <2>2. CASE UNCHANGED <<item, casid>>
    BY <1>0, <2>2, Zenon DEF WriteReplica, Memcacheds
  <2> QED BY <2>1, <2>2, Zenon DEF WriteReplica, r, s
<1>4. Clients'
  <2>1. errors' = errors \/ Fails
    BY Zenon DEF WriteReplica
  <2> QED BY <1>0, <2>1, FailsType, Zenon DEF WriteReplica, Clients
<1>5. Requests'
  <2> DEFINE done == [r EXCEPT !.tries = @ + 1, !.rc = StoreAnswer(s, r), !.answered = TRUE,
                               !.sent = IF Len(r.list) = 1 THEN 1 ELSE r.tries + 1]
             err(rc) == [r EXCEPT !.tries = @ + 1, !.rc = rc]
  <2>1. CASE req' = [req EXCEPT ![t] = done]
    <3> DEFINE a == StoreAnswer(s, r)
               n == IF Len(r.list) = 1 THEN 1 ELSE r.tries + 1
    <3>1. a \in {"SUCCESS", "DATA_EXISTS", "NOTFOUND"} /\ n \in Nat
      BY <1>0, <1>2
    <3> HIDE DEF a, n
    <3>2. done = [r EXCEPT !.tries = @ + 1, !.rc = a, !.answered = TRUE, !.sent = n]
      BY Zenon DEF a, n
    <3> HIDE DEF done
    <3>3. done \in Request
      <4>1. a \in Result /\ r.tries + 1 \in Nat
        BY <1>0, <3>1 DEF Result, Contention
      <4> QED BY <1>0, <3>1, <3>2, <4>1, StoreType, Zenon
    <3>4. /\ done.pc = "write" /\ done.oper = r.oper /\ done.data = r.data
          /\ done.rc = a /\ done.answered /\ done.list = r.list
      BY <1>0, <1>1, <3>2, Zenon DEF Request
    <3>5. Written(done)
      BY <1>1, <3>1, <3>4, Zenon DEF Written, Failure
    <3> QED BY <1>0, <1>1, <2>1, <3>3, <3>4, <3>5, NewRequest, Zenon
  <2>2. ASSUME NEW rc \in Failure, req' = [req EXCEPT ![t] = err(rc)] PROVE Requests'
    <3> DEFINE e == err(rc)
    <3>1. e \in Request
      <4>1. rc \in Result /\ r.tries + 1 \in Nat
        BY <1>0 DEF Result
      <4> QED BY <1>0, <4>1, StoreType, Zenon
    <3>2. e.pc = "write" /\ e.oper = r.oper /\ e.data = r.data /\ e.rc = rc /\ e.list = r.list
      BY <1>0, <1>1, Zenon DEF Request
    <3>3. e.answered = r.answered
      BY <1>0, Zenon DEF Request
    <3>4. req' = [req EXCEPT ![t] = e]
      BY <2>2, Zenon
    <3> HIDE DEF e
    <3>5. Written(e)
      BY <1>1, <1>2, <3>2, <3>3, Zenon DEF Written
    <3> QED BY <1>0, <1>1, <3>1, <3>2, <3>4, <3>5, NewRequest, Zenon
  <2> QED BY <2>1, <2>2, Zenon DEF WriteReplica, r, s
<1> QED BY <1>0, <1>3, <1>4, <1>5, Unchanged, Zenon DEF WriteReplica, Inv

(* The no-reply write to a further replica.                                *)
LEMMA BackupKeeps == ASSUME Inv, NEW t \in Thread, WriteBackup(t) PROVE Inv'
<1> DEFINE r == req[t]
           m == [key |-> r.key, data |-> r.data]
<1>0. /\ Memcacheds /\ Views /\ Requests /\ Comms /\ Clients
      /\ r \in Request /\ r.sent \in Nat /\ r.key \in Key /\ r.data \in 0..MaxChanges
      /\ r.list \in Seq(Server)
  BY Zenon DEF Inv, Requests, Request
<1>1. /\ r.pc = "write" /\ r.sent < Len(r.list) /\ Written(r)
      /\ Replicated => Len(r.list) # 1
  BY <1>0, Zenon DEF WriteBackup, Requests
<1>2. r.list[r.sent + 1] \in Server /\ m \in Backup
  BY <1>0, <1>1, BoundAssumption, SMTT(60) DEF Written, Backup
<1>3. Requests'
  <2> DEFINE n == [r EXCEPT !.sent = r.sent + 1]
  <2>1. n \in Request
    <3>1. r.sent + 1 \in Nat
      BY <1>0
    <3> QED BY <1>0, <3>1, Zenon DEF Request
  <2>2. /\ n.pc = r.pc /\ n.oper = r.oper /\ n.data = r.data /\ n.rc = r.rc
        /\ n.answered = r.answered /\ n.list = r.list
    BY <1>0, Zenon DEF Request
  <2>3. req' = [req EXCEPT ![t] = n]
    BY Zenon DEF WriteBackup
  <2> HIDE DEF n, r
  <2>4. Written(n)
    BY <1>1, <2>2, Zenon DEF Written
  <2> QED BY <1>0, <1>1, <2>1, <2>2, <2>3, <2>4, NewRequest, Zenon
<1>4. Clients'
  <2>1. errors' = errors \/ Fails
    BY Zenon DEF WriteBackup
  <2> QED BY <1>0, <2>1, FailsType, Zenon DEF WriteBackup, Clients
<1> HIDE DEF m
<1>5. pending' \in [Server -> [Conn -> Seq(Backup)]]
  <2>1. CASE pending' = pending
    BY <1>0, <2>1, Zenon DEF Memcacheds
  <2>2. ASSUME NEW c \in Conn,
               pending' = [pending EXCEPT ![r.list[r.sent + 1]][c] = Append(@, m)]
        PROVE  pending' \in [Server -> [Conn -> Seq(Backup)]]
    <3> DEFINE s == r.list[r.sent + 1]
    <3>1. pending[s][c] \in Seq(Backup)
      BY <1>0, <1>2, Zenon DEF Memcacheds
    <3>2. Append(pending[s][c], m) \in Seq(Backup)
      <4>1. m \in Backup
        BY <1>2, Zenon
      <4> HIDE DEF s
      <4> QED BY <3>1, <4>1
    <3>3. pending' = [pending EXCEPT ![s] = [pending[s] EXCEPT ![c] = Append(pending[s][c], m)]]
      BY <2>2, Zenon
    <3>4. [pending[s] EXCEPT ![c] = Append(pending[s][c], m)] \in [Conn -> Seq(Backup)]
      BY <1>0, <1>2, <3>2, Zenon DEF Memcacheds
    <3> HIDE DEF s
    <3> QED BY <1>0, <3>3, <3>4, Zenon DEF Memcacheds
  <2> QED BY <2>1, <2>2, Zenon DEF WriteBackup, m
<1>6. Memcacheds'
  BY <1>0, <1>5, Zenon DEF WriteBackup, Memcacheds
<1> QED BY <1>0, <1>3, <1>4, <1>6, Unchanged, Zenon DEF WriteBackup, Inv

(* The handlers' last steps.                                               *)
LEMMA FinishKeeps ==
    ASSUME Inv, NEW t \in Thread, FinishRead(t) \/ FinishWrite(t) \/ FinishDelete(t)
    PROVE  Inv'
<1> DEFINE r == req[t]
<1>0. /\ Memcacheds /\ Views /\ Requests /\ Comms /\ Clients
      /\ r \in Request /\ r.key \in Key /\ r.data \in 0..MaxChanges /\ r.cas \in Nat
  BY Zenon DEF Inv, Requests, Request
<1>1. Requests'
  BY <1>0, AnswerKeeps, Zenon DEF FinishRead, FinishWrite, FinishDelete
<1>2. CASE FinishRead(t)
  <2>1. Comms'
    <3>1. (ReadStatus(r) = "TEMPORARY_FAILURE") \in BOOLEAN
      BY Zenon
    <3> QED BY <1>0, <1>2, <3>1, UpdateKeeps, ZenonT(60) DEF FinishRead
  <2>2. [key |-> r.key, data |-> r.data, cas |-> ReturnedCas(r)] \in Seen
    BY <1>0, Zenon DEF ReturnedCas, Seen
  <2>3. seen' \in [Thread -> Seen]
    <3>1. \/ seen' = seen
          \/ seen' = [seen EXCEPT ![t] = [key |-> r.key, data |-> r.data, cas |-> ReturnedCas(r)]]
      BY <1>2, Zenon DEF FinishRead
    <3> QED BY <1>0, <2>2, <3>1, Zenon DEF Clients
  <2>4. Clients'
    BY <1>0, <1>2, <2>3, Zenon DEF FinishRead, Clients
  <2> QED BY <1>0, <1>1, <1>2, <2>1, <2>4, Unchanged, Zenon DEF FinishRead, Inv
<1>3. CASE FinishWrite(t)
  <2>1. Comms'
    <3>1. (WriteStatus(r) = "TEMPORARY_FAILURE") \in BOOLEAN
      BY Zenon
    <3> QED BY <1>0, <1>3, <3>1, UpdateKeeps, ZenonT(60) DEF FinishWrite
  <2>2. latest' = latest \/ latest' = [latest EXCEPT ![r.key] = r.data]
    BY <1>3, Zenon DEF FinishWrite
  <2>3. Clients'
    BY <1>0, <1>3, <2>2, Zenon DEF FinishWrite, Clients
  <2> QED BY <1>0, <1>1, <1>3, <2>1, <2>3, Unchanged, ZenonT(60) DEF FinishWrite, Inv
<1>4. CASE FinishDelete(t)
  <2>1. latest' = latest \/ latest' = [latest EXCEPT ![r.key] = 0]
    BY <1>4, Zenon DEF FinishDelete
  <2>2. 0 \in 0..MaxChanges
    BY BoundAssumption
  <2>3. latest' \in [Key -> 0..MaxChanges]
    BY <1>0, <2>1, <2>2, Zenon DEF Clients
  <2>4. Clients'
    BY <1>0, <1>4, <2>3, Zenon DEF FinishDelete, Clients
  <2> QED BY <1>0, <1>1, <1>4, <2>4, Unchanged, Zenon DEF FinishDelete, Inv
<1> QED BY <1>2, <1>3, <1>4, Zenon

(* A try of delete_data.                                                   *)
LEMMA DeleteKeeps == ASSUME Inv, NEW t \in Thread, DeleteReplica(t) PROVE Inv'
<1> DEFINE r == req[t]
           s == r.list[r.tries + 1]
<1>0. /\ Memcacheds /\ Views /\ Requests /\ Comms /\ Clients
      /\ r \in Request /\ r.tries \in Nat /\ r.key \in Key /\ r.list \in Seq(Server)
      /\ r.best \in Statuses
  BY Zenon DEF Inv, Requests, Request
<1>1. r.pc = "delete" /\ r.tries < Len(r.list) /\ (Replicated => Len(r.list) # 1)
  BY <1>0, Zenon DEF DeleteReplica, Requests
<1>2. s \in Server
  BY <1>0, <1>1
<1>3. Memcacheds'
  <2>1. CASE Drop(s, r.key)
    <3>1. item' \in [Server -> [Key -> Item]] /\ casid' \in [Server -> Nat]
      BY <1>0, <1>2, <2>1, DropType, Zenon
    <3> QED BY <1>0, <3>1, Zenon DEF DeleteReplica, Memcacheds
  <2>2. CASE UNCHANGED <<item, casid>>
    BY <1>0, <2>2, Zenon DEF DeleteReplica, Memcacheds
  <2> QED BY <2>1, <2>2, Zenon DEF DeleteReplica
<1>4. Clients'
  <2>1. errors' = errors \/ Fails
    BY Zenon DEF DeleteReplica
  <2> QED BY <1>0, <2>1, FailsType, Zenon DEF DeleteReplica, Clients
<1>5. Requests'
  <2>1. ASSUME NEW rc PROVE Best(r, rc) \in Statuses
    BY <1>0, Zenon DEF Best, Statuses
  <2>2. ASSUME NEW b \in Statuses,
               \/ req' = [req EXCEPT ![t] = [r EXCEPT !.tries = @ + 1, !.best = b, !.answered = TRUE]]
               \/ req' = [req EXCEPT ![t] = [r EXCEPT !.tries = @ + 1, !.best = b]]
        PROVE  Requests'
    <3> DEFINE n == r.tries + 1
               x == [r EXCEPT !.tries = n, !.best = b, !.answered = TRUE]
               y == [r EXCEPT !.tries = n, !.best = b]
    <3>1. n \in Nat
      BY <1>0
    <3>2. req' = [req EXCEPT ![t] = x] \/ req' = [req EXCEPT ![t] = y]
      BY <2>2, Zenon
    <3> HIDE DEF n, r
    <3>3. x \in Request
      BY <1>0, <3>1, Zenon DEF Request
    <3>4. y \in Request
      BY <1>0, <3>1, Zenon DEF Request
    <3>5. x.pc = "delete" /\ y.pc = "delete" /\ x.list = r.list /\ y.list = r.list
      BY <1>0, <1>1, Zenon DEF Request
    <3> HIDE DEF x, y
    <3> QED BY <1>0, <1>1, <3>2, <3>3, <3>4, <3>5, NewRequest, Zenon
  <2> QED BY <2>1, <2>2, Zenon DEF DeleteReplica
<1> QED BY <1>0, <1>3, <1>4, <1>5, Unchanged, Zenon DEF DeleteReplica, Inv

(* A server processes a no-reply write, or restarts.                       *)
LEMMA ServerKeeps ==
    ASSUME Inv, NEW s \in Server, Restart(s) \/ \E c \in Conn : DeliverBackup(s, c)
    PROVE  Inv'
<1>0. /\ Memcacheds /\ Views /\ Requests /\ Comms /\ Clients
      /\ item \in [Server -> [Key -> Item]] /\ casid \in [Server -> Nat]
      /\ pending \in [Server -> [Conn -> Seq(Backup)]] /\ restarts \in 0..MaxRestarts
  BY Zenon DEF Inv, Memcacheds
<1>1. CASE Restart(s)
  <2>1. NoItem \in Item
    BY BoundAssumption DEF NoItem, Item
  <2>2. item' \in [Server -> [Key -> Item]] /\ casid' \in [Server -> Nat]
    BY <1>0, <1>1, <2>1, Zenon DEF Restart
  <2>3. [c \in Conn |-> <<>>] \in [Conn -> Seq(Backup)]
    OBVIOUS
  <2>4. pending' \in [Server -> [Conn -> Seq(Backup)]]
    BY <1>0, <1>1, <2>3, Zenon DEF Restart
  <2>5. restarts' \in 0..MaxRestarts
    BY <1>0, <1>1, BoundAssumption DEF Restart
  <2>6. Memcacheds'
    BY <2>2, <2>4, <2>5, Zenon DEF Memcacheds
  <2> QED BY <1>0, <1>1, <2>6, Unchanged, Zenon DEF Restart, Inv
<1>2. ASSUME NEW c \in Conn, DeliverBackup(s, c) PROVE Inv'
  <2> DEFINE q == pending[s][c]
  <2>1. q \in Seq(Backup) /\ q # <<>>
    <3>1. pending \in [Server -> [Conn -> Seq(Backup)]] /\ s \in Server /\ c \in Conn
      BY <1>0, <1>2, Zenon
    <3>2. q # <<>>
      BY <1>2, Zenon DEF DeliverBackup
    <3> QED BY <3>1, <3>2, Zenon
  <2>2. Head(q) \in Backup /\ Tail(q) \in Seq(Backup)
    BY <2>1
  <2>3. Head(q).key \in Key /\ Head(q).data \in 0..MaxChanges
    BY <2>2 DEF Backup
  <2>4. Put(s, Head(q).key, Head(q).data)
    BY <1>2, Zenon DEF DeliverBackup
  <2>5. item' \in [Server -> [Key -> Item]] /\ casid' \in [Server -> Nat]
    BY <1>0, <2>3, <2>4, PutType, Zenon
  <2>6. pending' = [pending EXCEPT ![s] = [pending[s] EXCEPT ![c] = Tail(q)]]
    BY <1>2, Zenon DEF DeliverBackup
  <2> HIDE DEF q
  <2>7. [pending[s] EXCEPT ![c] = Tail(q)] \in [Conn -> Seq(Backup)]
    BY <1>0, <2>2, Zenon
  <2>8. pending' \in [Server -> [Conn -> Seq(Backup)]]
    BY <1>0, <2>6, <2>7, Zenon
  <2>9. Memcacheds'
    BY <1>0, <1>2, <2>5, <2>8, Zenon DEF DeliverBackup, Memcacheds
  <2> QED BY <1>0, <1>2, <2>9, Unchanged, Zenon DEF DeliverBackup, Inv
<1> QED BY <1>1, <1>2, Zenon

LEMMA InvStep == ASSUME Inv, [Next]_vars PROVE Inv'
<1>0. Memcacheds /\ Views /\ Requests /\ Comms /\ Clients
  BY Zenon DEF Inv
<1>1. CASE new_view
  <2>1. Views'
    BY <1>0, <1>1, Zenon DEF new_view, Views
  <2> QED BY <1>0, <1>1, <2>1, Unchanged, Zenon DEF new_view, Inv
<1>2. CASE new_view_done
  <2>1. Views'
    BY <1>0, <1>2, Zenon DEF new_view_done, Views
  <2> QED BY <1>0, <1>2, <2>1, Unchanged, Zenon DEF new_view_done, Inv
<1>3. CASE TimePasses
  <2>1. Comms'
    BY <1>0, <1>3, Zenon DEF TimePasses, Comms, FailedSet
  <2> QED BY <1>0, <1>3, <2>1, Unchanged, Zenon DEF TimePasses, Inv
<1>4. ASSUME NEW t \in Thread, ThreadStep(t) PROVE Inv'
  BY <1>4, ReadKeeps, WriteKeeps, BackupKeeps, FinishKeeps, DeleteKeeps, Zenon DEF ThreadStep
<1>5. ASSUME NEW t \in Thread, NEW k \in Key,
             \/ StartRead(t, k) \/ StartDelete(t, k)
             \/ \E oper \in Write : StartWrite(t, k, oper)
      PROVE  Inv'
  BY <1>5, StartKeeps, Zenon
<1>6. ASSUME NEW s \in Server, Restart(s) \/ \E c \in Conn : DeliverBackup(s, c) PROVE Inv'
  BY <1>6, ServerKeeps, Zenon
<1>7. CASE UNCHANGED vars
  BY <1>0, <1>7, Unchanged, Zenon DEF vars, Inv
<1> QED BY <1>1, <1>2, <1>3, <1>4, <1>5, <1>6, <1>7, Zenon DEF Next

LEMMA InvInit == Init => Inv
<1> SUFFICES ASSUME Init PROVE Inv
  BY Zenon
<1>1. Memcacheds
  <2>1. NoItem \in Item
    BY BoundAssumption DEF NoItem, Item
  <2>2. pending \in [Server -> [Conn -> Seq(Backup)]]
    BY DEF Init
  <2> QED BY <2>1, <2>2, BoundAssumption DEF Init, Memcacheds
<1>2. Views
  BY Zenon DEF Init, Views
<1>3. Requests
  <2>1. Idle.pc = "idle" /\ Len(Idle.list) # 1 /\ \A t \in Thread : req[t] = Idle
    BY SMTT(60) DEF Init, Idle
  <2>2. req \in [Thread -> Request]
    BY IdleType, Zenon DEF Init
  <2> QED BY <2>1, <2>2, Zenon DEF Requests
<1>4. Comms
  <2>1. comm_state \in [Key -> BOOLEAN] /\ alarm \in BOOLEAN /\ due \in BOOLEAN
    BY Zenon DEF Init
  <2>2. FailedSet = {}
    BY Zenon DEF Init, FailedSet
  <2> QED BY <2>1, <2>2, FS_EmptySet, Zenon DEF Init, Comms
<1>5. Clients
  <2>1. [key |-> Idle.key, data |-> 0, cas |-> 0] \in Seen
    BY IdleType, BoundAssumption DEF Seen
  <2> QED BY <2>1, BoundAssumption DEF Init, Clients
<1> QED BY <1>1, <1>2, <1>3, <1>4, <1>5, Zenon DEF Inv

LEMMA InvHolds == Spec => []Inv
<1>1. Inv /\ [Next]_vars => Inv'
  BY InvStep, Zenon
<1> QED BY <1>1, InvInit, PTL DEF Spec

(* The variables keep their shape, for any views and any torn lists.       *)
THEOREM TypeCorrect == Spec => []TypeOK
BY InvHolds, InvType, PTL

(***************************************************************************)
(* _vbucket_comm_fail_count is exact, and is never decremented at 0: the   *)
(* test for that in update_vbucket_comm_state is never needed.             *)
(***************************************************************************)
THEOREM FailCountCorrect == Spec => []FailCountIsExact
<1>1. Inv => FailCountIsExact
  BY Zenon DEF Inv, Comms, FailedSet, FailCountIsExact
<1> QED BY <1>1, InvHolds, PTL

(***************************************************************************)
(* As long as no vbucket has a sole replica, an operation is a failure, to *)
(* the client and to the alarm, exactly if no replica answered it: also in *)
(* the presence of lists that new_view has torn.                           *)
(***************************************************************************)
THEOREM FailureMeansNoneAnswered == Replicated => (Spec => []FailureMeansNoAnswer)
<1> SUFFICES ASSUME Replicated PROVE Spec => []FailureMeansNoAnswer
  BY Zenon
<1>1. Inv => FailureMeansNoAnswer
  <2> SUFFICES ASSUME Inv, NEW t \in Thread
               PROVE  /\ ReadOver(req[t]) =>
                           (ReadStatus(req[t]) = "TEMPORARY_FAILURE") = ~req[t].answered
                      /\ WriteOver(req[t]) =>
                           (WriteStatus(req[t]) = "TEMPORARY_FAILURE") = ~req[t].answered
    BY Zenon DEF FailureMeansNoAnswer
  <2> DEFINE r == req[t]
  <2>1. /\ r \in Request /\ r.list \in Seq(Server) /\ r.tries \in Nat /\ r.failed \in Nat
        /\ r.answered \in BOOLEAN /\ Len(r.list) # 1
        /\ r.rc \in Contention \cup Failure \cup {"SUCCESS"}
    BY Zenon DEF Inv, Requests, Request
  <2>2. (r.pc = "read" => Tried(r)) /\ (r.pc = "write" => Written(r))
    BY Zenon DEF Inv, Requests
  <2> HIDE DEF r
  <2>3. ReadOver(r) => (ReadStatus(r) = "TEMPORARY_FAILURE" <=> ~r.answered)
    BY <2>1, <2>2 DEF ReadOver, ReadStatus, Tried, MoreAttempts, Attempts
  <2>4. WriteOver(r) => (WriteStatus(r) = "TEMPORARY_FAILURE" <=> ~r.answered)
    BY <2>1, <2>2, Zenon DEF WriteOver, WriteStatus, Written, Contention, Failure
  <2> QED BY <2>1, <2>3, <2>4, Zenon DEF r
<1> QED BY <1>1, InvHolds, PTL

-----------------------------------------------------------------------------
(***************************************************************************)
(* Read-modify-write: no update is lost when clients read, modify and      *)
(* write through the backend.  primary[k] is the server every list of      *)
(* replicas for k begins with, in every view, for reads and for writes.    *)
(***************************************************************************)
Leads(primary) ==
    \A v \in View, k \in Key, kind \in {"read", "write"} :
        v[kind][k] # <<>> => v[kind][k][1] = primary[k]

SteadyPrimary == \E primary \in [Key -> Server] : Leads(primary)

NoServerFails == MaxErrors = 0 /\ MaxRestarts = 0

(* A server numbers its records upwards.                                   *)
IdsAscend == \A s \in Server, k \in Key : item[s][k].cas <= casid[s]

(* Whoever has read data d with CAS id c from server s can tell by the id  *)
(* whether the record is still the one they read.                          *)
Vouches(s, k, d, c) ==
    c # 0 => c <= casid[s] /\ (item[s][k].cas = c => item[s][k].data = d)

(* A read has a CAS id to return only from its first try, and a REPLACE    *)
(* has the CAS id of its client's last GET.                                *)
ReaderInv(primary, t) ==
    LET r == req[t] IN
    /\ r.pc \in {"read", "write"} /\ r.list # <<>> => r.list[1] = primary[r.key]
    /\ r.pc = "read" /\ ~r.not_found =>
           IF r.rc = "SUCCESS" THEN Vouches(primary[r.key], r.key, r.data, r.cas)
                               ELSE r.tries = 0
    /\ r.pc = "write" /\ r.rc \in Failure => r.tries = 0
    /\ r.pc = "write" /\ r.oper = "REPLACE" /\ r.cas # 0 =>
           seen[t].key = r.key /\ seen[t].cas = r.cas
    /\ Vouches(primary[seen[t].key], seen[t].key, seen[t].data, seen[t].cas)

UpdateInv(primary) == IdsAscend /\ \A t \in Thread : ReaderInv(primary, t)

(***************************************************************************)
(* What no step but a restart does to a server: it changes a record only   *)
(* by giving it an id never given before, or by removing it.               *)
(***************************************************************************)
Newer ==
    \A s \in Server :
        /\ casid[s] <= casid'[s]
        /\ \A k \in Key : \/ item'[s][k] = item[s][k]
                          \/ item'[s][k].cas = 0
                          \/ item'[s][k].cas = casid'[s] /\ casid[s] < casid'[s]

(* The same claim after the step.                                          *)
StillVouches(s, k, d, c) ==
    c # 0 => c <= casid'[s] /\ (item'[s][k].cas = c => item'[s][k].data = d)

LEMMA PutIsNewer ==
    ASSUME Memcacheds, NEW s \in Server, NEW k \in Key, NEW data, Put(s, k, data)
    PROVE  Newer
<1>1. casid \in [Server -> Nat] /\ item \in [Server -> [Key -> Item]]
  BY Zenon DEF Memcacheds
<1>2. /\ casid'[s] = casid[s] + 1 /\ item'[s][k].cas = casid[s] + 1
      /\ \A z \in Server : z # s => casid'[z] = casid[z] /\ item'[z] = item[z]
      /\ \A j \in Key : j # k => item'[s][j] = item[s][j]
  BY <1>1, Zenon DEF Put
<1>3. \A z \in Server : casid[z] \in Nat
  BY <1>1, Zenon
<1> QED BY <1>2, <1>3 DEF Newer

LEMMA DropIsNewer ==
    ASSUME Memcacheds, NEW s \in Server, NEW k \in Key, Drop(s, k)
    PROVE  Newer
<1>1. casid \in [Server -> Nat] /\ item \in [Server -> [Key -> Item]]
  BY Zenon DEF Memcacheds
<1>2. /\ casid' = casid /\ item'[s][k].cas = 0
      /\ \A z \in Server : z # s => item'[z] = item[z]
      /\ \A j \in Key : j # k => item'[s][j] = item[s][j]
  BY <1>1, Zenon DEF Drop, NoItem
<1>3. \A z \in Server : casid[z] \in Nat
  BY <1>1, Zenon
<1> QED BY <1>2, <1>3 DEF Newer

LEMMA SameIsNewer == ASSUME Memcacheds, UNCHANGED <<item, casid>> PROVE Newer
<1>1. \A z \in Server : casid[z] \in Nat
  BY Zenon DEF Memcacheds
<1> QED BY <1>1 DEF Newer

(* Ids go on ascending, and what was read stays recognisable by its id.    *)
LEMMA NewerKeeps ==
    ASSUME Memcacheds, Memcacheds', IdsAscend, Newer
    PROVE  /\ IdsAscend'
           /\ \A s \in Server, k \in Key, d \in 0..MaxChanges, c \in Nat :
                Vouches(s, k, d, c) => StillVouches(s, k, d, c)
<1>1. \A s \in Server : casid[s] \in Nat /\ casid'[s] \in Nat
  BY Zenon DEF Memcacheds
<1>2. \A s \in Server, k \in Key : item[s][k].cas \in Nat /\ item'[s][k].cas \in Nat
  BY Zenon DEF Memcacheds, Item
<1>3. IdsAscend'
  <2> SUFFICES ASSUME NEW s \in Server, NEW k \in Key PROVE item'[s][k].cas <= casid'[s]
    BY Zenon DEF IdsAscend
  <2>1. item[s][k].cas <= casid[s] /\ casid[s] <= casid'[s]
    BY Zenon DEF IdsAscend, Newer
  <2>2. item'[s][k] = item[s][k] \/ item'[s][k].cas = 0 \/ item'[s][k].cas = casid'[s]
    BY Zenon DEF Newer
  <2> QED BY <1>1, <1>2, <2>1, <2>2
<1>4. ASSUME NEW s \in Server, NEW k \in Key, NEW d \in 0..MaxChanges, NEW c \in Nat,
             Vouches(s, k, d, c), c # 0
      PROVE  c <= casid'[s] /\ (item'[s][k].cas = c => item'[s][k].data = d)
  <2>1. c <= casid[s] /\ (item[s][k].cas = c => item[s][k].data = d) /\ casid[s] <= casid'[s]
    BY <1>4, Zenon DEF Vouches, Newer
  <2>2. \/ item'[s][k] = item[s][k] \/ item'[s][k].cas = 0
        \/ item'[s][k].cas = casid'[s] /\ casid[s] < casid'[s]
    BY Zenon DEF Newer
  <2> QED BY <1>1, <1>4, <2>1, <2>2
<1> QED BY <1>3, <1>4, Zenon DEF StillVouches

(* With a steady primary every list a thread gets begins with it.          *)
LEMMA FirstIsPrimary ==
    ASSUME TypeOK, NEW primary \in [Key -> Server], Leads(primary),
           NEW k \in Key, NEW kind \in {"read", "write"},
           NEW list \in get_replica_addresses(k, kind), list # <<>>
    PROVE  list[1] = primary[k]
<1>1. view \in View /\ (copying # NoView => copying \in View)
  BY Zenon DEF TypeOK
<1>2. ASSUME NEW v \in View
      PROVE  v[kind][k] \in Seq(Server) /\ (v[kind][k] # <<>> => v[kind][k][1] = primary[k])
  <2>1. v[kind][k] \in Seq(Server)
    BY ViewAssumption, Zenon DEF ReplicaMap
  <2> QED BY <2>1, Zenon DEF Leads
<1>3. CASE copying = NoView
  BY <1>1, <1>2, <1>3, Zenon DEF get_replica_addresses
<1>4. CASE copying # NoView
  <2> DEFINE old == view[kind][k]
             new == copying[kind][k]
  <2>1. /\ old \in Seq(Server) /\ (old # <<>> => old[1] = primary[k])
        /\ new \in Seq(Server) /\ (new # <<>> => new[1] = primary[k])
    BY <1>1, <1>2, <1>4, Zenon
  <2>2. PICK n \in {Len(old), Len(new)} :
          /\ list \in [1..n -> Server]
          /\ \A i \in 1..n : \/ i <= Len(old) /\ list[i] = old[i]
                             \/ i <= Len(new) /\ list[i] = new[i]
    BY <1>4, Zenon DEF get_replica_addresses, Torn
  <2> HIDE DEF old, new
  <2>3. n \in Nat
    BY <2>1, <2>2
  <2>4. list \in Seq(Server)
    BY <2>2, <2>3
  <2>5. 1 \in 1..n
    <3>1. DOMAIN list = 1..n /\ DOMAIN list = 1..Len(list) /\ Len(list) # 0
      BY <2>2, <2>4
    <3> QED BY <2>4, <3>1
  <2>6. \/ 1 <= Len(old) /\ list[1] = old[1]
        \/ 1 <= Len(new) /\ list[1] = new[1]
    BY <2>2, <2>5, Zenon
  <2>7. (1 <= Len(old) => old # <<>>) /\ (1 <= Len(new) => new # <<>>)
    BY <2>1
  <2> QED BY <2>1, <2>6, <2>7, Zenon
<1> QED BY <1>3, <1>4, Zenon

(* The claims of a thread whose request and last GET do not change.        *)
LEMMA ReaderKeeps ==
    ASSUME Inv, Inv', IdsAscend, Newer, NEW primary \in [Key -> Server],
           NEW t \in Thread, ReaderInv(primary, t), req'[t] = req[t], seen'[t] = seen[t]
    PROVE  ReaderInv(primary, t)'
<1> DEFINE r == req[t]
           g == seen[t]
<1>1. /\ Memcacheds /\ Memcacheds' /\ r.key \in Key /\ r.data \in 0..MaxChanges /\ r.cas \in Nat
      /\ g.key \in Key /\ g.data \in 0..MaxChanges /\ g.cas \in Nat
  BY Zenon DEF Inv, Requests, Request, Clients, Seen
<1>2. primary[r.key] \in Server /\ primary[g.key] \in Server
  BY <1>1, Zenon
<1>3. /\ Vouches(primary[r.key], r.key, r.data, r.cas)
             => StillVouches(primary[r.key], r.key, r.data, r.cas)
      /\ Vouches(primary[g.key], g.key, g.data, g.cas)
             => StillVouches(primary[g.key], g.key, g.data, g.cas)
  <2> HIDE DEF r, g
  <2> QED BY <1>1, <1>2, NewerKeeps, Zenon
<1>4. /\ Vouches(primary[r.key], r.key, r.data, r.cas)
             => Vouches(primary[r.key], r.key, r.data, r.cas)'
      /\ Vouches(primary[g.key], g.key, g.data, g.cas)
             => Vouches(primary[g.key], g.key, g.data, g.cas)'
  BY <1>3, Zenon DEF Vouches, StillVouches
<1> QED BY <1>4, Zenon DEF ReaderInv

(* Only one thread takes a step, and only it can disturb the invariant.    *)
LEMMA OneReader ==
    ASSUME Inv, Inv', NEW primary \in [Key -> Server], UpdateInv(primary), Newer,
           NEW t \in Thread, ReaderInv(primary, t)',
           \A u \in Thread : u # t => req'[u] = req[u] /\ seen'[u] = seen[u]
    PROVE  UpdateInv(primary)'
<1>1. IdsAscend'
  BY NewerKeeps, Zenon DEF Inv, UpdateInv
<1>2. ASSUME NEW u \in Thread PROVE ReaderInv(primary, u)'
  BY ReaderKeeps, Zenon DEF UpdateInv
<1> QED BY <1>1, <1>2, Zenon DEF UpdateInv

(* The steps of a thread that replace its request and nothing it has seen. *)
LEMMA ReplacesRequest ==
    ASSUME Requests, Clients, NEW t \in Thread, NEW r, req' = [req EXCEPT ![t] = r], seen' = seen
    PROVE  /\ req'[t] = r
           /\ \A u \in Thread : u # t => req'[u] = req[u] /\ seen'[u] = seen[u]
BY Zenon DEF Requests

(* The claim about the last GET goes on holding.                           *)
LEMMA SeenKeeps ==
    ASSUME Inv, Inv', NEW primary \in [Key -> Server], UpdateInv(primary), Newer,
           NEW t \in Thread, seen'[t] = seen[t]
    PROVE  Vouches(primary[seen[t].key], seen[t].key, seen[t].data, seen[t].cas)'
<1> DEFINE g == seen[t]
<1>1. Memcacheds /\ Memcacheds' /\ g.key \in Key /\ g.data \in 0..MaxChanges /\ g.cas \in Nat
  BY Zenon DEF Inv, Clients, Seen
<1>2. primary[g.key] \in Server
  BY <1>1, Zenon
<1>3. Vouches(primary[g.key], g.key, g.data, g.cas) /\ IdsAscend
  BY Zenon DEF UpdateInv, ReaderInv
<1>4. StillVouches(primary[g.key], g.key, g.data, g.cas)
  <2> HIDE DEF g
  <2> QED BY <1>1, <1>2, <1>3, NewerKeeps, Zenon
<1> QED BY <1>4, Zenon DEF Vouches, StillVouches

(* With no errors every request gets an answer.                            *)
LEMMA NoErrors == ASSUME Inv, NoServerFails PROVE ~Fails
<1>1. MaxErrors = 0 /\ errors \in 0..MaxErrors
  BY Zenon DEF NoServerFails, Inv, Clients
<1> QED BY <1>1 DEF Fails

(* A thread at rest makes no claim but that about its last GET.            *)
LEMMA RestIsSafe ==
    ASSUME Inv, Inv', NEW primary \in [Key -> Server], UpdateInv(primary), Newer,
           NEW t \in Thread, req'[t].pc \in {"idle", "delete"}, seen'[t] = seen[t]
    PROVE  ReaderInv(primary, t)'
<1>1. Vouches(primary[seen[t].key], seen[t].key, seen[t].data, seen[t].cas)'
  BY SeenKeeps, Zenon
<1>2. req'[t].pc # "read" /\ req'[t].pc # "write"
  BY Zenon
<1> QED BY <1>1, <1>2, Zenon DEF ReaderInv

(* A request that has not been sent to a replica yet.                      *)
LEMMA StartUpdate ==
    ASSUME Inv, Inv', NEW primary \in [Key -> Server], Leads(primary), UpdateInv(primary),
           NEW t \in Thread, NEW k \in Key,
           \/ StartRead(t, k) \/ StartDelete(t, k)
           \/ \E oper \in Write : StartWrite(t, k, oper)
    PROVE  UpdateInv(primary)'
<1>0. TypeOK /\ Memcacheds /\ Requests /\ Clients
  BY InvType, Zenon DEF Inv
<1>1. UNCHANGED <<item, casid>> /\ seen' = seen
  BY Zenon DEF StartRead, StartWrite, StartDelete, memcached
<1>2. Newer /\ Vouches(primary[seen[t].key], seen[t].key, seen[t].data, seen[t].cas)'
  <2>1. Newer
    BY <1>0, <1>1, SameIsNewer, Zenon
  <2> QED BY <1>1, <2>1, SeenKeeps, Zenon
<1>3. CASE StartRead(t, k)
  <2>1. PICK list \in get_replica_addresses(k, "read") :
          req' = [req EXCEPT ![t] = [Idle EXCEPT !.pc = "read", !.key = k, !.list = list]]
    BY <1>3, Zenon DEF StartRead
  <2> DEFINE r == [Idle EXCEPT !.pc = "read", !.key = k, !.list = list]
  <2>2. /\ r.pc = "read" /\ r.key = k /\ r.list = list /\ r.tries = 0 /\ r.rc # "SUCCESS"
    BY Zenon DEF Idle
  <2> HIDE DEF r
  <2>3. req' = [req EXCEPT ![t] = r]
    BY <2>1, Zenon DEF r
  <2>4. req'[t] = r /\ \A u \in Thread : u # t => req'[u] = req[u] /\ seen'[u] = seen[u]
    BY <1>0, <1>1, <2>3, ReplacesRequest, Zenon
  <2>5. list # <<>> => list[1] = primary[k]
    BY <1>0, FirstIsPrimary, Zenon
  <2>6. "read" # "write"
    BY Zenon
  <2>7. ReaderInv(primary, t)'
    BY <1>2, <2>2, <2>4, <2>5, <2>6, Zenon DEF ReaderInv
  <2> QED BY <1>2, <2>4, <2>7, OneReader, Zenon
<1>4. CASE StartDelete(t, k)
  <2>1. PICK list \in get_replica_addresses(k, "read") :
          req' = [req EXCEPT ![t] = [Idle EXCEPT !.pc = "delete", !.oper = "DELETE",
                      !.key = k, !.list = list]]
    BY <1>4, Zenon DEF StartDelete
  <2> DEFINE r == [Idle EXCEPT !.pc = "delete", !.oper = "DELETE", !.key = k, !.list = list]
  <2>2. r.pc = "delete"
    BY Zenon DEF Idle
  <2> HIDE DEF r
  <2>3. req' = [req EXCEPT ![t] = r]
    BY <2>1, Zenon DEF r
  <2>4. req'[t] = r /\ \A u \in Thread : u # t => req'[u] = req[u] /\ seen'[u] = seen[u]
    BY <1>0, <1>1, <2>3, ReplacesRequest, Zenon
  <2>5. req'[t].pc \in {"idle", "delete"}
    BY <2>2, <2>4, Zenon
  <2>6. ReaderInv(primary, t)'
    BY <1>1, <1>2, <2>5, RestIsSafe, Zenon
  <2> QED BY <1>2, <2>4, <2>6, OneReader, Zenon
<1>5. ASSUME NEW oper \in Write, StartWrite(t, k, oper) PROVE UpdateInv(primary)'
  <2>1. PICK list \in get_replica_addresses(k, "write"),
             id \in {0} \cup (IF oper = "REPLACE" /\ seen[t].key = k THEN {seen[t].cas} ELSE {}) :
          req' = [req EXCEPT ![t] = [Idle EXCEPT !.pc = "write", !.oper = oper, !.key = k,
                      !.list = list, !.data = changes + 1, !.cas = id]]
    BY <1>5, Zenon DEF StartWrite
  <2> DEFINE r == [Idle EXCEPT !.pc = "write", !.oper = oper, !.key = k,
                      !.list = list, !.data = changes + 1, !.cas = id]
  <2>2. r.pc = "write" /\ r.key = k /\ r.list = list /\ r.tries = 0 /\ r.cas = id
    BY Zenon DEF Idle
  <2>3. id # 0 => seen[t].key = k /\ seen[t].cas = id
    BY <2>1, Zenon
  <2> HIDE DEF r
  <2>4. req' = [req EXCEPT ![t] = r]
    BY <2>1, Zenon DEF r
  <2>5. req'[t] = r /\ \A u \in Thread : u # t => req'[u] = req[u] /\ seen'[u] = seen[u]
    BY <1>0, <1>1, <2>4, ReplacesRequest, Zenon
  <2>6. list # <<>> => list[1] = primary[k]
    BY <1>0, FirstIsPrimary, Zenon
  <2>7. "read" # "write"
    BY Zenon
  <2>8. ReaderInv(primary, t)'
    BY <1>1, <1>2, <2>2, <2>3, <2>5, <2>6, <2>7, Zenon DEF ReaderInv
  <2> QED BY <1>2, <2>5, <2>8, OneReader, Zenon
<1> QED BY <1>3, <1>4, <1>5, Zenon

LEMMA ReadUpdate ==
    ASSUME Inv, Inv', NoServerFails, NEW primary \in [Key -> Server], UpdateInv(primary),
           NEW t \in Thread, ReadReplica(t)
    PROVE  UpdateInv(primary)'
<1> DEFINE r == req[t]
           s == Replica(r)
           found == item[s][r.key]
           hit == [r EXCEPT !.tries = @ + 1, !.rc = "SUCCESS",
                        !.data = found.data, !.cas = found.cas, !.answered = TRUE]
           miss == [r EXCEPT !.tries = @ + 1, !.rc = "NOTFOUND",
                        !.cas = 0, !.not_found = TRUE, !.answered = TRUE]
<1>0. /\ Memcacheds /\ Requests /\ Clients /\ r \in Request /\ r.key \in Key
      /\ UNCHANGED <<item, casid>> /\ seen' = seen
  BY Zenon DEF Inv, Requests, Request, ReadReplica, memcached
<1>1. r.pc = "read" /\ r.rc # "SUCCESS" /\ MoreAttempts(r) /\ s \in Server
  BY <1>0, ReplicaType, Zenon DEF ReadReplica
<1>2. Newer /\ Vouches(primary[seen[t].key], seen[t].key, seen[t].data, seen[t].cas)'
  <2>1. Newer
    BY <1>0, SameIsNewer, Zenon
  <2> QED BY <1>0, <2>1, SeenKeeps, Zenon
<1>3. /\ r.list # <<>> => r.list[1] = primary[r.key]
      /\ ~r.not_found => r.tries = 0
      /\ IdsAscend
  BY <1>1, Zenon DEF UpdateInv, ReaderInv
<1>4. ~r.not_found => s = primary[r.key]
  <2> HIDE DEF r
  <2> QED BY <1>0, <1>1, <1>3, FirstTry, Zenon
<1>5. req' = [req EXCEPT ![t] = hit] \/ req' = [req EXCEPT ![t] = miss]
  BY NoErrors, Zenon DEF ReadReplica, get_from_replica
<1>6. "read" # "write"
  BY Zenon
<1>7. CASE req' = [req EXCEPT ![t] = hit]
  <2>1. /\ hit.pc = "read" /\ hit.key = r.key /\ hit.list = r.list /\ hit.rc = "SUCCESS"
        /\ hit.data = found.data /\ hit.cas = found.cas
    BY <1>0, <1>1, Zenon DEF Request
  <2>2. hit.not_found = r.not_found
    BY <1>0, Zenon DEF Request
  <2> HIDE DEF hit, r, s
  <2>3. req'[t] = hit /\ \A u \in Thread : u # t => req'[u] = req[u] /\ seen'[u] = seen[u]
    BY <1>0, <1>7, ReplacesRequest, Zenon
  <2>4. found.cas <= casid[s]
    BY <1>0, <1>1, <1>3, Zenon DEF IdsAscend
  <2>5. ~req[t].not_found' => Vouches(primary[req[t].key], req[t].key, req[t].data, req[t].cas)'
    BY <1>0, <1>4, <2>1, <2>2, <2>3, <2>4, Zenon DEF Vouches
  <2>6. ReaderInv(primary, t)'
    BY <1>2, <1>3, <1>6, <2>1, <2>3, <2>5, Zenon DEF ReaderInv
  <2> QED BY <1>2, <2>3, <2>6, OneReader, Zenon
<1>8. CASE req' = [req EXCEPT ![t] = miss]
  <2>1. miss.pc = "read" /\ miss.key = r.key /\ miss.list = r.list /\ miss.not_found
    BY <1>0, <1>1, Zenon DEF Request
  <2> HIDE DEF miss, r, s
  <2>2. req'[t] = miss /\ \A u \in Thread : u # t => req'[u] = req[u] /\ seen'[u] = seen[u]
    BY <1>0, <1>8, ReplacesRequest, Zenon
  <2>3. ReaderInv(primary, t)'
    BY <1>2, <1>3, <1>6, <2>1, <2>2, Zenon DEF ReaderInv
  <2> QED BY <1>2, <2>2, <2>3, OneReader, Zenon
<1> QED BY <1>5, <1>7, <1>8, Zenon

(* The answer to a GET is what the client may refer to later.              *)
LEMMA FinishUpdate ==
    ASSUME Inv, Inv', NEW primary \in [Key -> Server], UpdateInv(primary), NEW t \in Thread,
           FinishRead(t) \/ FinishWrite(t) \/ FinishDelete(t)
    PROVE  UpdateInv(primary)'
<1> DEFINE r == req[t]
           answer == [key |-> r.key, data |-> r.data, cas |-> ReturnedCas(r)]
<1>0. /\ Memcacheds /\ Requests /\ Clients /\ seen \in [Thread -> Seen]
      /\ UNCHANGED <<item, casid>>
  BY Zenon DEF Inv, Clients, FinishRead, FinishWrite, FinishDelete, memcached
<1>1. Newer
  BY <1>0, SameIsNewer, Zenon
<1>2. req'[t] = Idle /\ \A u \in Thread : u # t => req'[u] = req[u]
  BY <1>0, Zenon DEF FinishRead, FinishWrite, FinishDelete, Answer, Requests
<1>3. req'[t].pc = "idle"
  BY <1>2 DEF Idle
<1>4. CASE seen' = seen
  <2>1. ReaderInv(primary, t)'
    BY <1>1, <1>3, <1>4, RestIsSafe, Zenon
  <2> QED BY <1>1, <1>2, <1>4, <2>1, OneReader, Zenon
<1>5. CASE FinishRead(t) /\ ReadStatus(r) = "NO_ERROR" /\ seen' = [seen EXCEPT ![t] = answer]
  <2>1. r.pc = "read" /\ r.rc = "SUCCESS"
    BY <1>5, Zenon DEF FinishRead, ReadOver, ReadStatus
  <2>2. ~r.not_found => Vouches(primary[r.key], r.key, r.data, r.cas)
    BY <2>1, Zenon DEF UpdateInv, ReaderInv
  <2>3. answer.key = r.key /\ answer.data = r.data /\ answer.cas = ReturnedCas(r)
    BY Zenon
  <2> HIDE DEF answer, r
  <2>4. seen'[t] = answer /\ \A u \in Thread : u # t => seen'[u] = seen[u]
    BY <1>0, <1>5, Zenon
  <2>5. Vouches(primary[r.key], r.key, r.data, ReturnedCas(r))
    BY <2>2, Zenon DEF Vouches, ReturnedCas
  <2>6. Vouches(primary[seen[t].key], seen[t].key, seen[t].data, seen[t].cas)'
    BY <1>0, <2>3, <2>4, <2>5, Zenon DEF Vouches
  <2>7. "idle" # "read" /\ "idle" # "write"
    BY Zenon
  <2>8. ReaderInv(primary, t)'
    BY <1>3, <2>6, <2>7, Zenon DEF ReaderInv
  <2> QED BY <1>1, <1>2, <2>4, <2>8, OneReader, Zenon
<1> QED BY <1>4, <1>5, Zenon DEF FinishRead, FinishWrite, FinishDelete

(* The conditional write, of which NoLostUpdate speaks.                    *)
LEMMA WriteUpdate ==
    ASSUME Inv, Inv', NoServerFails, NEW primary \in [Key -> Server], UpdateInv(primary),
           NEW t \in Thread, WriteReplica(t)
    PROVE  /\ UpdateInv(primary)'
           /\ req[t].oper = "REPLACE" /\ req[t].cas # 0 /\ req'[t].rc = "SUCCESS"
                => item[Replica(req[t])][req[t].key].data = seen[t].data
           /\ \A u \in Thread : u # t => req'[u] = req[u]
<1> DEFINE r == req[t]
           s == Replica(r)
           a == StoreAnswer(s, r)
           n == IF Len(r.list) = 1 THEN 1 ELSE r.tries + 1
           done == [r EXCEPT !.tries = @ + 1, !.rc = a, !.answered = TRUE, !.sent = n]
<1>0. Memcacheds /\ Requests /\ Clients /\ r \in Request /\ r.key \in Key /\ seen' = seen
  BY Zenon DEF Inv, Requests, Request, WriteReplica
<1>1. /\ r.pc = "write" /\ r.rc \in Failure /\ MoreAttempts(r) /\ s \in Server /\ Written(r)
  BY <1>0, ReplicaType, Zenon DEF WriteReplica, Requests
<1>2. /\ req' = [req EXCEPT ![t] = done]
      /\ IF a = "SUCCESS" THEN Put(s, r.key, r.data) ELSE UNCHANGED <<item, casid>>
  BY NoErrors, Zenon DEF WriteReplica
<1>3. /\ r.list # <<>> => r.list[1] = primary[r.key]
      /\ r.tries = 0
      /\ r.oper = "REPLACE" /\ r.cas # 0 => seen[t].key = r.key /\ seen[t].cas = r.cas
      /\ Vouches(primary[seen[t].key], seen[t].key, seen[t].data, seen[t].cas)
  BY <1>1, Zenon DEF UpdateInv, ReaderInv
<1>4. a \in {"SUCCESS", "DATA_EXISTS", "NOTFOUND"}
  BY <1>1, StoreAnswerType, Zenon DEF Written
<1>5. /\ done.pc = "write" /\ done.oper = r.oper /\ done.key = r.key /\ done.list = r.list
      /\ done.rc = a /\ done.cas = r.cas
  <2> HIDE DEF a, n
  <2> QED BY <1>0, <1>1, Zenon DEF Request
<1>6. s = primary[r.key]
  <2> HIDE DEF r
  <2> QED BY <1>0, <1>1, <1>3, FirstTry, Zenon
<1>7. ASSUME r.oper = "REPLACE", r.cas # 0, a = "SUCCESS" PROVE item[s][r.key].data = seen[t].data
  <2>1. item[s][r.key].cas = r.cas
    <3> HIDE DEF s
    <3> QED BY <1>7, Zenon DEF StoreAnswer
  <2> QED BY <1>3, <1>6, <1>7, <2>1, Zenon DEF Vouches
<1>8. a \notin Failure /\ "write" # "read"
  BY <1>4, Zenon DEF Failure
<1> HIDE DEF done, a, s, n
<1>9. Newer
  BY <1>0, <1>1, <1>2, PutIsNewer, SameIsNewer, Zenon
<1>10. req'[t] = done /\ \A u \in Thread : u # t => req'[u] = req[u] /\ seen'[u] = seen[u]
  BY <1>0, <1>2, ReplacesRequest, Zenon
<1>11. Vouches(primary[seen[t].key], seen[t].key, seen[t].data, seen[t].cas)'
  BY <1>0, <1>9, SeenKeeps, Zenon
<1>12. ReaderInv(primary, t)'
  BY <1>0, <1>3, <1>5, <1>8, <1>10, <1>11, Zenon DEF ReaderInv
<1>13. UpdateInv(primary)'
  BY <1>9, <1>10, <1>12, OneReader, Zenon
<1> QED BY <1>5, <1>7, <1>10, <1>13, Zenon DEF s

LEMMA BackupUpdate ==
    ASSUME Inv, Inv', NEW primary \in [Key -> Server], UpdateInv(primary),
           NEW t \in Thread, WriteBackup(t)
    PROVE  UpdateInv(primary)'
<1> DEFINE r == req[t]
           more == [r EXCEPT !.sent = @ + 1]
<1>0. /\ Memcacheds /\ Requests /\ Clients /\ r \in Request /\ r.pc = "write" /\ r.rc = "SUCCESS"
      /\ UNCHANGED <<item, casid>> /\ seen' = seen
  BY Zenon DEF Inv, Requests, WriteBackup
<1>1. req' = [req EXCEPT ![t] = more]
  BY Zenon DEF WriteBackup
<1>2. /\ more.pc = "write" /\ more.oper = r.oper /\ more.key = r.key /\ more.list = r.list
      /\ more.rc = "SUCCESS" /\ more.cas = r.cas
  BY <1>0, Zenon DEF Request
<1>3. "SUCCESS" \notin Failure /\ "write" # "read"
  BY Zenon DEF Failure
<1>4. ReaderInv(primary, t)
  BY Zenon DEF UpdateInv
<1> HIDE DEF more
<1>5. Newer
  BY <1>0, SameIsNewer, Zenon
<1>6. req'[t] = more /\ \A u \in Thread : u # t => req'[u] = req[u] /\ seen'[u] = seen[u]
  BY <1>0, <1>1, ReplacesRequest, Zenon
<1>7. Vouches(primary[seen[t].key], seen[t].key, seen[t].data, seen[t].cas)'
  BY <1>0, <1>5, SeenKeeps, Zenon
<1>8. ReaderInv(primary, t)'
  BY <1>0, <1>2, <1>3, <1>4, <1>6, <1>7, Zenon DEF ReaderInv
<1> QED BY <1>5, <1>6, <1>8, OneReader, Zenon

LEMMA DeleteUpdate ==
    ASSUME Inv, Inv', NoServerFails, NEW primary \in [Key -> Server], UpdateInv(primary),
           NEW t \in Thread, DeleteReplica(t)
    PROVE  UpdateInv(primary)'
<1> DEFINE r == req[t]
           s == r.list[r.tries + 1]
           b == Best(r, IF item[s][r.key] = NoItem THEN "NOTFOUND" ELSE "SUCCESS")
           done == [r EXCEPT !.tries = @ + 1, !.best = b, !.answered = TRUE]
<1>0. /\ Memcacheds /\ Requests /\ Clients /\ r \in Request /\ r.pc = "delete" /\ r.key \in Key
      /\ r.list \in Seq(Server) /\ r.tries \in Nat /\ r.tries < Len(r.list) /\ seen' = seen
  BY Zenon DEF Inv, Requests, Request, DeleteReplica
<1>1. s \in Server
  <2> HIDE DEF r
  <2> QED BY <1>0
<1>2. Drop(s, r.key) /\ req' = [req EXCEPT ![t] = done]
  BY NoErrors, Zenon DEF DeleteReplica
<1>3. done.pc = "delete"
  <2> HIDE DEF b
  <2> QED BY <1>0, Zenon DEF Request
<1> HIDE DEF done, s
<1>4. Newer
  BY <1>0, <1>1, <1>2, DropIsNewer, Zenon
<1>5. req'[t] = done /\ \A u \in Thread : u # t => req'[u] = req[u] /\ seen'[u] = seen[u]
  BY <1>0, <1>2, ReplacesRequest, Zenon
<1>6. ReaderInv(primary, t)'
  BY <1>0, <1>3, <1>4, <1>5, RestIsSafe, Zenon
<1> QED BY <1>4, <1>5, <1>6, OneReader, Zenon

(* The steps of the servers, of the configuration and of the clock.        *)
LEMMA OutsideUpdate ==
    ASSUME Inv, Inv', NoServerFails, NEW primary \in [Key -> Server], UpdateInv(primary),
           \/ \E s \in Server : Restart(s) \/ \E c \in Conn : DeliverBackup(s, c)
           \/ new_view \/ new_view_done \/ TimePasses \/ UNCHANGED vars
    PROVE  UpdateInv(primary)' /\ req' = req
<1>0. Memcacheds /\ restarts \in 0..MaxRestarts /\ MaxRestarts = 0
  BY Zenon DEF Inv, Memcacheds, NoServerFails
<1>1. ASSUME NEW s \in Server PROVE ~Restart(s)
  BY <1>0 DEF Restart
<1>2. req' = req /\ seen' = seen
  BY <1>1, Zenon DEF DeliverBackup, new_view, new_view_done, TimePasses, vars
<1>3. Newer
  <2>1. ASSUME NEW s \in Server, NEW c \in Conn, DeliverBackup(s, c) PROVE Newer
    <3> DEFINE q == pending[s][c]
    <3>1. q \in Seq(Backup) /\ q # <<>> /\ Put(s, Head(q).key, Head(q).data)
      BY <1>0, <2>1, Zenon DEF DeliverBackup, Memcacheds
    <3> HIDE DEF q
    <3>2. Head(q).key \in Key
      <4>1. q \in Seq(Backup) /\ q # <<>>
        BY <3>1, Zenon
      <4>2. Head(q) \in Backup
        BY <4>1
      <4> QED BY <4>2, Zenon DEF Backup
    <3> QED BY <1>0, <3>1, <3>2, PutIsNewer, Zenon
  <2>2. CASE UNCHANGED <<item, casid>>
    BY <1>0, <2>2, SameIsNewer, Zenon
  <2> QED BY <1>1, <2>1, <2>2, Zenon DEF new_view, new_view_done, TimePasses, vars, memcached
<1>4. IdsAscend'
  BY <1>3, NewerKeeps, Zenon DEF Inv, UpdateInv
<1>5. ASSUME NEW u \in Thread PROVE ReaderInv(primary, u)'
  BY <1>2, <1>3, ReaderKeeps, Zenon DEF UpdateInv
<1> QED BY <1>2, <1>4, <1>5, Zenon DEF UpdateInv

(* No other step than that of WriteReplica turns a failure into success.   *)
LEMMA OnlyWritesSucceed ==
    ASSUME Inv, NEW t \in Thread, NEW u \in Thread,
           \/ \E k \in Key : \/ StartRead(u, k) \/ StartDelete(u, k)
                             \/ \E oper \in Write : StartWrite(u, k, oper)
           \/ ReadReplica(u) \/ FinishRead(u) \/ WriteBackup(u) \/ FinishWrite(u)
           \/ DeleteReplica(u) \/ FinishDelete(u),
           req[t].pc = "write", req[t].rc \in Failure
    PROVE  req'[t].rc # "SUCCESS"
<1>0. req \in [Thread -> Request]
  BY Zenon DEF Inv, Requests
<1>1. "SUCCESS" \notin Failure /\ Idle.rc # "SUCCESS"
  BY Zenon DEF Failure, Idle
<1>2. CASE u # t
  <2>1. \E x : req' = [req EXCEPT ![u] = x]
    <3>1. CASE Answer(u)
      BY <3>1, Zenon DEF Answer
    <3>2. CASE ReadReplica(u)
      BY <3>2, Zenon DEF ReadReplica, get_from_replica
    <3>3. CASE DeleteReplica(u)
      BY <3>3, Zenon DEF DeleteReplica
    <3>4. CASE WriteBackup(u)
      BY <3>4, Zenon DEF WriteBackup
    <3>5. CASE \E k \in Key : \/ StartRead(u, k) \/ StartDelete(u, k)
                              \/ \E oper \in Write : StartWrite(u, k, oper)
      BY <3>5, Zenon DEF StartRead, StartDelete, StartWrite
    <3> QED BY <3>1, <3>2, <3>3, <3>4, <3>5, Zenon DEF FinishRead, FinishWrite, FinishDelete
  <2>2. req'[t] = req[t]
    BY <1>0, <1>2, <2>1, Zenon
  <2> QED BY <1>1, <2>2, Zenon
<1>3. CASE u = t
  <2>1. "write" \notin {"idle", "read", "delete"}
    BY Zenon
  <2>2. Answer(t)
    BY <1>1, <1>3, <2>1, Zenon DEF StartRead, StartDelete, StartWrite, ReadReplica, WriteBackup,
       DeleteReplica, FinishRead, FinishWrite, FinishDelete
  <2>3. req'[t] = Idle
    BY <1>0, <2>2, Zenon DEF Answer
  <2> QED BY <1>1, <2>3, Zenon
<1> QED BY <1>2, <1>3, Zenon

(* What a step does: it keeps the invariant and loses no update.           *)
Conditional(t) ==
    LET r == req[t] IN
    r.pc = "write" /\ r.oper = "REPLACE" /\ r.cas # 0
        /\ r.rc \in Failure /\ req'[t].rc = "SUCCESS"
    => item[Replica(r)][r.key].data = seen[t].data

LEMMA UpdateStep ==
    ASSUME Inv, NoServerFails, NEW primary \in [Key -> Server], Leads(primary),
           UpdateInv(primary), [Next]_vars
    PROVE  UpdateInv(primary)' /\ \A t \in Thread : Conditional(t)
<1>0. Inv' /\ "SUCCESS" \notin Failure
  BY InvStep, Zenon DEF Failure
<1>1. ASSUME NEW u \in Thread, NEW k \in Key,
             \/ StartRead(u, k) \/ StartDelete(u, k)
             \/ \E oper \in Write : StartWrite(u, k, oper)
      PROVE  UpdateInv(primary)' /\ \A t \in Thread : Conditional(t)
  <2>1. UpdateInv(primary)'
    BY <1>0, <1>1, StartUpdate, Zenon
  <2> QED BY <1>1, <2>1, OnlyWritesSucceed, Zenon DEF Conditional
<1>2. ASSUME NEW u \in Thread, WriteReplica(u)
      PROVE  UpdateInv(primary)' /\ \A t \in Thread : Conditional(t)
  <2>1. UpdateInv(primary)' /\ \A v \in Thread : v # u => req'[v] = req[v]
    BY <1>0, <1>2, WriteUpdate, Zenon
  <2>2. Conditional(u)
    BY <1>0, <1>2, WriteUpdate, Zenon DEF Conditional
  <2>3. ASSUME NEW t \in Thread, t # u PROVE Conditional(t)
    BY <1>0, <2>1, <2>3, Zenon DEF Conditional
  <2> QED BY <2>1, <2>2, <2>3, Zenon
<1>3. ASSUME NEW u \in Thread, \/ ReadReplica(u) \/ FinishRead(u) \/ WriteBackup(u)
                               \/ FinishWrite(u) \/ DeleteReplica(u) \/ FinishDelete(u)
      PROVE  UpdateInv(primary)' /\ \A t \in Thread : Conditional(t)
  <2>1. UpdateInv(primary)'
    BY <1>0, <1>3, ReadUpdate, BackupUpdate, DeleteUpdate, FinishUpdate, Zenon
  <2> QED BY <1>3, <2>1, OnlyWritesSucceed, Zenon DEF Conditional
<1>4. ASSUME \/ \E s \in Server : Restart(s) \/ \E c \in Conn : DeliverBackup(s, c)
             \/ new_view \/ new_view_done \/ TimePasses \/ UNCHANGED vars
      PROVE  UpdateInv(primary)' /\ \A t \in Thread : Conditional(t)
  <2>1. UpdateInv(primary)' /\ req' = req
    BY <1>0, <1>4, OutsideUpdate, Zenon
  <2> QED BY <1>0, <2>1, Zenon DEF Conditional
<1> QED BY <1>1, <1>2, <1>3, <1>4, Zenon DEF Next, ThreadStep

LEMMA UpdateInit ==
    ASSUME Init, NEW primary \in [Key -> Server] PROVE UpdateInv(primary)
<1>1. Inv
  BY InvInit, Zenon
<1>2. \A s \in Server, k \in Key : item[s][k].cas = 0 /\ casid[s] = 0
  BY Zenon DEF Init, NoItem
<1>3. \A t \in Thread : req[t].pc = "idle" /\ seen[t].cas = 0
  BY Zenon DEF Init, Idle
<1>4. IdsAscend
  BY <1>2 DEF IdsAscend
<1>5. "idle" # "read" /\ "idle" # "write"
  BY Zenon
<1>6. ASSUME NEW t \in Thread PROVE ReaderInv(primary, t)
  BY <1>3, <1>5, Zenon DEF ReaderInv, Vouches
<1> QED BY <1>4, <1>6, Zenon DEF UpdateInv

(***************************************************************************)
(* Read-modify-write through the proxy is atomic, for any number of        *)
(* clients, keys and servers and across changes of the configuration, torn *)
(* lists included, as long as no server fails and the first replica of a   *)
(* vbucket stays the same: write_data tries the same replica first that    *)
(* read_data had the CAS id from, and read_data returns an id from no      *)
(* other.                                                                  *)
(***************************************************************************)
THEOREM UpdatesAreNotLost == NoServerFails /\ SteadyPrimary => (Spec => NoLostUpdate)
<1> SUFFICES ASSUME NoServerFails, NEW primary \in [Key -> Server], Leads(primary)
             PROVE  Spec => NoLostUpdate
  BY Zenon DEF SteadyPrimary
<1>1. Init => UpdateInv(primary)
  BY UpdateInit, Zenon
<1>2. Inv /\ UpdateInv(primary) /\ [Next]_vars => UpdateInv(primary)'
  BY UpdateStep, Zenon
<1>3. Inv /\ UpdateInv(primary) /\ [Next]_vars
          => [\A t \in Thread :
                LET r == req[t] IN
                r.pc = "write" /\ r.oper = "REPLACE" /\ r.cas # 0
                    /\ r.rc \in Failure /\ req'[t].rc = "SUCCESS"
                => item[Replica(r)][r.key].data = seen[t].data]_vars
  BY UpdateStep, Zenon DEF Conditional
<1> QED BY <1>1, <1>2, <1>3, InvHolds, PTL DEF Spec, NoLostUpdate
=============================================================================
