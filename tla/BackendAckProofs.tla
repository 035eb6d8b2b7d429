-------------------------- MODULE BackendAckProofs --------------------------
(***************************************************************************)
(* Proof that what the backend has acknowledged is what clients read back, *)
(* although all replicas but one may lose it.                              *)
(***************************************************************************)
EXTENDS MemcachedBackendProofs

(***************************************************************************)
(* Acknowledged writes.  One client, a fixed view, no failed requests, and *)
(* fewer restarts than any vbucket has write replicas.                     *)
(***************************************************************************)
Members(list) == {list[i] : i \in DOMAIN list}
First(list, n) == {list[i] : i \in 1..n}
After(list, n) == {list[i] : i \in (n + 1)..Len(list)}

SurvivedBy(t, v) ==
    /\ Thread = {t} /\ View = {v} /\ MaxErrors = 0
    /\ \A k \in Key : MaxRestarts < Cardinality(Members(v.write[k]))

OneClientSurvives == \E t, v : SurvivedBy(t, v)

(* What the no-reply writes still to be processed will leave under a key.  *)
Free(q, k) == \A i \in DOMAIN q : q[i].key # k

LastIs(q, k, d) ==
    \E i \in DOMAIN q : /\ q[i].key = k /\ q[i].data = d
                        /\ \A j \in DOMAIN q : i < j => q[j].key # k

(* What server s has under key k once it has processed what was sent to it *)
(* is data d.                                                              *)
Holds(s, k, d) ==
    \/ Free(pending[s][1], k) /\ item[s][k].data = d
    \/ LastIs(pending[s][1], k, d)

(* Of the servers of T, which are the only ones to have anything under key *)
(* k, those of S have data d, but for those that have restarted.           *)
Located(k, d, S, T) ==
    /\ \A s \in S : Holds(s, k, d) \/ Holds(s, k, 0)
    /\ \A s \in Server \ T : Holds(s, k, 0)
    /\ Cardinality({s \in S : ~Holds(s, k, d)}) <= restarts

Settled(v, k) ==
    \A d \in 0..MaxChanges :
        latest[k] = d => Located(k, d, Members(v.write[k]), Members(v.write[k]))

(* A write has reached its first `sent` replicas.                          *)
WriteInv(t, v, k) ==
    /\ req[t].sent \in 1..Len(v.write[k])
    /\ \A d \in 0..MaxChanges, n \in 1..Len(v.write[k]) :
        req[t].data = d /\ req[t].sent = n =>
            Located(k, d, First(v.write[k], n), Members(v.write[k]))

(* A delete has cleared its first `tries` replicas.                        *)
DeleteInv(t, v, k) ==
    /\ req[t].tries \in 0..Len(v.read[k])
    /\ req[t].tries > 0 => req[t].best # "TEMPORARY_FAILURE"
    /\ \A n \in 0..Len(v.read[k]) :
        req[t].tries = n => Located(k, 0, {}, After(v.read[k], n))

(* A read has passed only replicas without the record.                     *)
ReadInv(t, v, k) ==
    /\ req[t].failed = 0 /\ req[t].tries \in 0..Len(v.read[k])
    /\ IF req[t].rc = "SUCCESS" THEN latest[k] # 0 /\ req[t].data = latest[k]
       ELSE /\ req[t].tries > 0 => req[t].rc = "NOTFOUND"
            /\ \A i \in 1..Len(v.read[k]) : i <= req[t].tries => Holds(v.read[k][i], k, 0)

Storing(t) == req[t].pc = "write" /\ req[t].rc = "SUCCESS"

KeyInv(t, v, k) ==
    /\ req[t].key = k /\ Storing(t) => WriteInv(t, v, k)
    /\ req[t].key = k /\ req[t].pc = "delete" => DeleteInv(t, v, k)
    /\ req[t].key = k /\ req[t].pc = "read" => ReadInv(t, v, k)
    /\ ~(req[t].key = k /\ (Storing(t) \/ req[t].pc = "delete")) => Settled(v, k)

(* The lists are those of the view, and a write asks one replica first.    *)
ListInv(t, v) ==
    /\ req[t].pc \in {"read", "delete"} => req[t].list = v.read[req[t].key]
    /\ req[t].pc = "write" => /\ req[t].list = v.write[req[t].key]
                              /\ req[t].rc \in Failure => req[t].tries = 0

AckInv(t, v) ==
    /\ view = v /\ copying = NoView
    /\ \A s \in Server, k \in Key : item[s][k].data = 0 => item[s][k] = NoItem
    /\ ListInv(t, v)
    /\ \A k \in Key : KeyInv(t, v, k)

(* Queues of no-reply writes.                                              *)
LEMMA LastIsUnique ==
    ASSUME NEW q \in Seq(Backup), NEW k, NEW d, NEW e
    PROVE  /\ LastIs(q, k, d) /\ LastIs(q, k, e) => d = e
           /\ ~(Free(q, k) /\ LastIs(q, k, d))
<1>1. ASSUME LastIs(q, k, d), LastIs(q, k, e) PROVE d = e
  <2>1. PICK i \in DOMAIN q : /\ q[i].key = k /\ q[i].data = d
                              /\ \A j \in DOMAIN q : i < j => q[j].key # k
    BY <1>1, Zenon DEF LastIs
  <2>2. PICK j \in DOMAIN q : /\ q[j].key = k /\ q[j].data = e
                              /\ \A l \in DOMAIN q : j < l => q[l].key # k
    BY <1>1, Zenon DEF LastIs
  <2>3. ~(i < j) /\ ~(j < i)
    BY <2>1, <2>2, Zenon
  <2>4. i \in Int /\ j \in Int
    BY <2>1, <2>2
  <2>5. i = j
    BY <2>3, <2>4
  <2> QED BY <2>1, <2>2, <2>5, Zenon
<1>2. ~(Free(q, k) /\ LastIs(q, k, d))
  BY Zenon DEF Free, LastIs
<1> QED BY <1>1, <1>2, Zenon

LEMMA TailOfQueue ==
    ASSUME NEW q \in Seq(Backup), q # <<>>, NEW k, NEW d
    PROVE  /\ Free(q, k) => Head(q).key # k /\ Free(Tail(q), k)
           /\ LastIs(q, k, d) => \/ LastIs(Tail(q), k, d)
                                 \/ Head(q).key = k /\ Head(q).data = d /\ Free(Tail(q), k)
<1> DEFINE n == Len(q)
           x == Tail(q)
<1>1. n \in Nat /\ n >= 1 /\ DOMAIN q = 1..n /\ Head(q) = q[1]
  OBVIOUS
<1>2. DOMAIN x = 1..(n - 1) /\ \A i \in 1..(n - 1) : x[i] = q[i + 1]
  OBVIOUS
<1> HIDE DEF n, x
<1>3. ASSUME Free(q, k) PROVE Head(q).key # k /\ Free(x, k)
  <2>1. \A i \in DOMAIN q : q[i].key # k
    BY <1>3, Zenon DEF Free
  <2>2. 1 \in DOMAIN q /\ \A i \in 1..(n - 1) : i + 1 \in DOMAIN q
    BY <1>1
  <2> QED BY <1>1, <1>2, <2>1, <2>2, Zenon DEF Free
<1>4. ASSUME LastIs(q, k, d)
      PROVE  LastIs(x, k, d) \/ (Head(q).key = k /\ Head(q).data = d /\ Free(x, k))
  <2>1. PICK i \in DOMAIN q : /\ q[i].key = k /\ q[i].data = d
                              /\ \A j \in DOMAIN q : i < j => q[j].key # k
    BY <1>4, Zenon DEF LastIs
  <2>2. CASE i = 1
    BY <1>1, <1>2, <2>1, <2>2 DEF Free
  <2>3. CASE i # 1
    <3> DEFINE l == i - 1
    <3>1. l \in DOMAIN x /\ x[l] = q[i]
      BY <1>1, <1>2, <2>1, <2>3
    <3>2. ASSUME NEW j \in DOMAIN x, l < j PROVE x[j].key # k
      BY <1>1, <1>2, <2>1, <3>2
    <3> HIDE DEF l
    <3> QED BY <2>1, <3>1, <3>2, Zenon DEF LastIs
  <2> QED BY <2>2, <2>3, Zenon
<1> QED BY <1>3, <1>4, Zenon DEF x

LEMMA AppendToQueue ==
    ASSUME NEW q \in Seq(Backup), NEW m \in Backup, NEW k, NEW d
    PROVE  /\ LastIs(Append(q, m), m.key, m.data)
           /\ k # m.key /\ Free(q, k) => Free(Append(q, m), k)
           /\ k # m.key /\ LastIs(q, k, d) => LastIs(Append(q, m), k, d)
<1> DEFINE n == Len(q)
           x == Append(q, m)
<1>1. n \in Nat /\ DOMAIN q = 1..n
  OBVIOUS
<1>2. DOMAIN x = 1..(n + 1) /\ x[n + 1] = m /\ \A i \in 1..n : x[i] = q[i]
  OBVIOUS
<1> HIDE DEF n, x
<1>3. LastIs(x, m.key, m.data)
  <2>1. n + 1 \in DOMAIN x /\ \A j \in DOMAIN x : ~(n + 1 < j)
    BY <1>1, <1>2
  <2> QED BY <1>2, <2>1, Zenon DEF LastIs
<1>4. ASSUME k # m.key, Free(q, k) PROVE Free(x, k)
  <2>1. \A i \in DOMAIN x : i = n + 1 \/ i \in 1..n
    BY <1>1, <1>2
  <2> QED BY <1>1, <1>2, <1>4, <2>1, Zenon DEF Free
<1>5. ASSUME k # m.key, LastIs(q, k, d) PROVE LastIs(x, k, d)
  <2>1. PICK i \in DOMAIN q : /\ q[i].key = k /\ q[i].data = d
                              /\ \A j \in DOMAIN q : i < j => q[j].key # k
    BY <1>5, Zenon DEF LastIs
  <2>2. i \in DOMAIN x /\ x[i] = q[i]
    BY <1>1, <1>2, <2>1
  <2>3. \A j \in DOMAIN x : j = n + 1 \/ j \in 1..n
    BY <1>1, <1>2
  <2>4. ASSUME NEW j \in DOMAIN x, i < j PROVE x[j].key # k
    BY <1>1, <1>2, <1>5, <2>1, <2>3, <2>4, Zenon
  <2> QED BY <2>1, <2>2, <2>4, Zenon DEF LastIs
<1> QED BY <1>3, <1>4, <1>5, Zenon DEF x

LEMMA EmptyQueue == \A k, d : Free(<<>>, k) /\ ~LastIs(<<>>, k, d)
<1>1. DOMAIN <<>> = {}
  OBVIOUS
<1> QED BY <1>1, Zenon DEF Free, LastIs

(* A server holds one thing.                                               *)
LEMMA HoldsOne ==
    ASSUME Memcacheds, 1 \in Conn, NEW s \in Server, NEW k, NEW d, NEW e,
           Holds(s, k, d), Holds(s, k, e)
    PROVE  d = e
<1>1. pending[s][1] \in Seq(Backup)
  BY Zenon DEF Memcacheds
<1> QED BY <1>1, LastIsUnique, Zenon DEF Holds

-----------------------------------------------------------------------------
(* What a server holds does not change when it processes what it was sent. *)
LEMMA DeliverHolds ==
    ASSUME Memcacheds, 1 \in Conn, NEW s \in Server, DeliverBackup(s, 1),
           NEW z \in Server, NEW k \in Key, NEW d, Holds(z, k, d)
    PROVE  Holds(z, k, d)'
<1> DEFINE q == pending[s][1]
           m == Head(q)
<1>1. /\ q \in Seq(Backup) /\ q # <<>> /\ pending' = [pending EXCEPT ![s][1] = Tail(q)]
      /\ pending \in [Server -> [Conn -> Seq(Backup)]] /\ item \in [Server -> [Key -> Item]]
      /\ item' = [item EXCEPT ![s][m.key] = [data |-> m.data, cas |-> casid[s] + 1]]
  BY Zenon DEF DeliverBackup, Memcacheds, Put
<1>2. CASE z # s
  <2>1. pending'[z] = pending[z] /\ item'[z] = item[z]
    BY <1>1, <1>2, Zenon
  <2> QED BY <2>1, Zenon DEF Holds
<1>3. CASE z = s
  <2>1. pending'[s][1] = Tail(q)
    BY <1>1, Zenon
  <2>2. k # m.key => item'[s][k] = item[s][k]
    <3> HIDE DEF m
    <3> QED BY <1>1, Zenon
  <2>3. k = m.key => item'[s][k].data = m.data
    <3> HIDE DEF m
    <3> QED BY <1>1, Zenon
  <2>4. CASE Free(q, k) /\ item[s][k].data = d
    <3>1. m.key # k /\ Free(Tail(q), k)
      BY <1>1, <2>4, TailOfQueue, Zenon
    <3> QED BY <1>3, <2>1, <2>2, <2>4, <3>1, Zenon DEF Holds
  <2>5. CASE LastIs(q, k, d)
    <3>1. LastIs(Tail(q), k, d) \/ (m.key = k /\ m.data = d /\ Free(Tail(q), k))
      BY <1>1, <2>5, TailOfQueue, Zenon
    <3> QED BY <1>3, <2>1, <2>3, <3>1, Zenon DEF Holds
  <2> QED BY <1>3, <2>4, <2>5, Zenon DEF Holds
<1> QED BY <1>2, <1>3, Zenon

(* A restart empties one server.                                           *)
LEMMA RestartHolds ==
    ASSUME Memcacheds, 1 \in Conn, NEW s \in Server, Restart(s), NEW k \in Key
    PROVE  /\ Holds(s, k, 0)'
           /\ \A z \in Server : \A d : z # s /\ Holds(z, k, d) => Holds(z, k, d)'
<1>1. /\ pending \in [Server -> [Conn -> Seq(Backup)]] /\ item \in [Server -> [Key -> Item]]
      /\ pending' = [pending EXCEPT ![s] = [c \in Conn |-> <<>>]]
      /\ item' = [item EXCEPT ![s] = [j \in Key |-> NoItem]]
  BY Zenon DEF Restart, Memcacheds
<1>2. pending'[s][1] = <<>> /\ item'[s][k] = NoItem
  BY <1>1, Zenon
<1>3. NoItem.data = 0
  BY Zenon DEF NoItem
<1>4. Holds(s, k, 0)'
  BY <1>2, <1>3, EmptyQueue, Zenon DEF Holds
<1>5. ASSUME NEW z \in Server, NEW d, z # s, Holds(z, k, d) PROVE Holds(z, k, d)'
  <2>1. pending'[z] = pending[z] /\ item'[z] = item[z]
    BY <1>1, <1>5, Zenon
  <2> QED BY <1>5, <2>1, Zenon DEF Holds
<1> QED BY <1>4, <1>5, Zenon

(* A no-reply write will have its effect, and no other.                    *)
LEMMA SendHolds ==
    ASSUME Memcacheds, 1 \in Conn, NEW s \in Server, NEW m \in Backup, item' = item,
           pending' = [pending EXCEPT ![s][1] = Append(@, m)]
    PROVE  /\ Holds(s, m.key, m.data)'
           /\ \A z \in Server, k \in Key : \A d :
                (z # s \/ k # m.key) /\ Holds(z, k, d) => Holds(z, k, d)'
<1>1. /\ pending \in [Server -> [Conn -> Seq(Backup)]] /\ pending[s][1] \in Seq(Backup)
  BY Zenon DEF Memcacheds
<1>2. pending'[s][1] = Append(pending[s][1], m)
  BY <1>1, Zenon
<1>3. Holds(s, m.key, m.data)'
  BY <1>1, <1>2, AppendToQueue, Zenon DEF Holds
<1>4. ASSUME NEW z \in Server, NEW k \in Key, NEW d, z # s \/ k # m.key, Holds(z, k, d)
      PROVE  Holds(z, k, d)'
  <2>1. CASE z # s
    <3>1. pending'[z] = pending[z]
      BY <1>1, <2>1, Zenon
    <3> QED BY <1>4, <3>1, Zenon DEF Holds
  <2>2. CASE z = s /\ k # m.key
    BY <1>1, <1>2, <1>4, <2>2, AppendToQueue, Zenon DEF Holds
  <2> QED BY <1>4, <2>1, <2>2, Zenon
<1> QED BY <1>3, <1>4, Zenon

(* A server that has processed everything is told to store or remove.      *)
LEMMA StoreHolds ==
    ASSUME Memcacheds, 1 \in Conn, NEW s \in Server, NEW k \in Key, NEW x, NEW e, x.data = e,
           pending' = pending, pending[s][1] = <<>>, item' = [item EXCEPT ![s][k] = x]
    PROVE  /\ Holds(s, k, e)'
           /\ \A z \in Server, j \in Key : \A d :
                (z # s \/ j # k) /\ Holds(z, j, d) => Holds(z, j, d)'
<1>1. item \in [Server -> [Key -> Item]]
  BY Zenon DEF Memcacheds
<1>2. item'[s][k] = x /\ pending'[s][1] = <<>>
  BY <1>1, Zenon
<1>3. Holds(s, k, e)'
  BY <1>2, EmptyQueue, Zenon DEF Holds
<1>4. ASSUME NEW z \in Server, NEW j \in Key, NEW d, z # s \/ j # k, Holds(z, j, d)
      PROVE  Holds(z, j, d)'
  <2>1. item'[z][j] = item[z][j]
    BY <1>1, <1>4, Zenon
  <2> QED BY <1>4, <2>1, Zenon DEF Holds
<1> QED BY <1>3, <1>4, Zenon

-----------------------------------------------------------------------------
(* The servers of a list.                                                  *)
LEMMA ListSets ==
    ASSUME NEW list \in Seq(Server)
    PROVE  /\ IsFiniteSet(Members(list)) /\ Members(list) \subseteq Server
           /\ First(list, Len(list)) = Members(list)
           /\ \A n \in 1..Len(list) : First(list, n) \subseteq Members(list)
           /\ \A n \in 0..(Len(list) - 1) :
                /\ list[n + 1] \in Members(list)
                /\ First(list, n + 1) = First(list, n) \cup {list[n + 1]}
                /\ After(list, n) \subseteq After(list, n + 1) \cup {list[n + 1]}
           /\ After(list, 0) = Members(list) /\ After(list, Len(list)) = {}
           /\ First(list, 0) = {}
<1> DEFINE m == Len(list)
<1>1. m \in Nat /\ DOMAIN list = 1..m /\ list \in [1..m -> Server]
  OBVIOUS
<1>2. IsFiniteSet(Members(list))
  <2>1. list \in Surjection(1..m, Members(list))
    BY <1>1, Zenon DEF Members, Surjection
  <2>2. IsFiniteSet(1..m)
    BY <1>1, FS_Interval
  <2> QED BY <2>1, <2>2, FS_Surjection, Zenon
<1> HIDE DEF m
<1>3. Members(list) \subseteq Server /\ First(list, m) = Members(list)
  BY <1>1, Zenon DEF Members, First
<1>4. ASSUME NEW n \in 1..m PROVE First(list, n) \subseteq Members(list)
  <2>1. \A i \in 1..n : i \in 1..m
    BY <1>1
  <2> QED BY <1>1, <2>1, Zenon DEF Members, First
<1>5. ASSUME NEW n \in 0..(m - 1)
      PROVE  /\ list[n + 1] \in Members(list)
             /\ First(list, n + 1) = First(list, n) \cup {list[n + 1]}
             /\ After(list, n) \subseteq After(list, n + 1) \cup {list[n + 1]}
  <2> DEFINE n1 == n + 1
  <2>1. /\ n1 \in 1..m /\ \A i : i \in 1..n1 <=> i \in 1..n \/ i = n1
    BY <1>1
  <2>2. \A i \in n1..m : i \in (n1 + 1)..m \/ i = n1
    BY <1>1
  <2> HIDE DEF n1
  <2>3. list[n1] \in Members(list) /\ First(list, n1) = First(list, n) \cup {list[n1]}
    BY <1>1, <2>1, Zenon DEF Members, First
  <2>4. {list[i] : i \in n1..m} \subseteq {list[i] : i \in (n1 + 1)..m} \cup {list[n1]}
    BY <2>2, Zenon
  <2> QED BY <2>3, <2>4, Zenon DEF After, n1, m
<1>6. After(list, 0) = Members(list) /\ After(list, m) = {} /\ First(list, 0) = {}
  <2>1. (0 + 1)..m = 1..m /\ (m + 1)..m = {} /\ 1..0 = {}
    BY <1>1
  <2> QED BY <1>1, <2>1, Zenon DEF After, Members, First, m
<1> QED BY <1>2, <1>3, <1>4, <1>5, <1>6, Zenon DEF m

(***************************************************************************)
(* Where the data of a key is, after a step that changes nothing under the *)
(* key, and after a restart.                                               *)
(***************************************************************************)
KeepsKey(k) == \A s \in Server, d \in 0..MaxChanges : Holds(s, k, d) => Holds(s, k, d)'

KeepsPlace(k) ==
    /\ \A s \in Server : Holds(s, k, 0) => Holds(s, k, 0)'
    /\ \A d \in 0..MaxChanges : \A S, T \in SUBSET Server :
            IsFiniteSet(S) /\ Located(k, d, S, T) => Located(k, d, S, T)'

LEMMA KeyIsKept ==
    ASSUME Memcacheds, NEW k \in Key, KeepsKey(k), restarts' = restarts
    PROVE  KeepsPlace(k)
<1>0. 0 \in 0..MaxChanges /\ restarts \in Nat
  BY BoundAssumption DEF Memcacheds
<1>1. ASSUME NEW d \in 0..MaxChanges, NEW S \in SUBSET Server, NEW T \in SUBSET Server,
             IsFiniteSet(S), Located(k, d, S, T)
      PROVE  Located(k, d, S, T)'
  <2> DEFINE lost == {s \in S : ~Holds(s, k, d)}
             gone == {s \in S : ~Holds(s, k, d)'}
  <2>1. gone \subseteq lost /\ lost \subseteq S
    BY Zenon DEF KeepsKey
  <2>2. Cardinality(lost) <= restarts
    BY <1>1, Zenon DEF Located
  <2> HIDE DEF gone, lost
  <2>3. IsFiniteSet(lost)
    BY <1>1, <2>1, FS_Subset, Zenon
  <2>4. Cardinality(gone) <= Cardinality(lost) /\ Cardinality(gone) \in Nat /\ Cardinality(lost) \in Nat
    BY <2>1, <2>3, FS_Subset, FS_CardinalityType, Zenon
  <2>5. Cardinality(gone) <= restarts'
    BY <1>0, <2>2, <2>4
  <2>6. /\ \A s \in S : Holds(s, k, d)' \/ Holds(s, k, 0)'
        /\ \A s \in Server \ T : Holds(s, k, 0)'
    BY <1>0, <1>1, Zenon DEF KeepsKey, Located
  <2> QED BY <2>5, <2>6, Zenon DEF Located, gone
<1> QED BY <1>0, <1>1, Zenon DEF KeepsPlace, KeepsKey

LEMMA RestartKeeps ==
    ASSUME Memcacheds, 1 \in Conn, NEW z \in Server, Restart(z), NEW k \in Key
    PROVE  KeepsPlace(k)
<1>0. restarts \in Nat /\ restarts' = restarts + 1
  BY DEF Memcacheds, Restart
<1>1. /\ Holds(z, k, 0)'
      /\ \A s \in Server : \A d : s # z /\ Holds(s, k, d) => Holds(s, k, d)'
  BY RestartHolds, Zenon
<1>2. ASSUME NEW d \in 0..MaxChanges, NEW S \in SUBSET Server, NEW T \in SUBSET Server,
             IsFiniteSet(S), Located(k, d, S, T)
      PROVE  Located(k, d, S, T)'
  <2> DEFINE lost == {s \in S : ~Holds(s, k, d)}
             gone == {s \in S : ~Holds(s, k, d)'}
  <2>1. gone \subseteq lost \cup {z} /\ lost \subseteq S
    BY <1>1, Zenon
  <2>2. Cardinality(lost) <= restarts
    BY <1>2, Zenon DEF Located
  <2> HIDE DEF gone, lost
  <2>3. IsFiniteSet(lost)
    BY <1>2, <2>1, FS_Subset, Zenon
  <2>4. /\ IsFiniteSet(lost \cup {z}) /\ Cardinality(lost) \in Nat
        /\ \/ Cardinality(lost \cup {z}) = Cardinality(lost)
           \/ Cardinality(lost \cup {z}) = Cardinality(lost) + 1
    BY <2>3, FS_AddElement, FS_CardinalityType, Zenon
  <2>5. Cardinality(gone) <= Cardinality(lost \cup {z}) /\ Cardinality(gone) \in Nat
    BY <2>1, <2>4, FS_Subset, FS_CardinalityType, Zenon
  <2>6. Cardinality(gone) <= restarts'
    BY <1>0, <2>2, <2>4, <2>5
  <2>7. /\ \A s \in S : Holds(s, k, d)' \/ Holds(s, k, 0)'
        /\ \A s \in Server \ T : Holds(s, k, 0)'
    BY <1>1, <1>2, Zenon DEF Located
  <2> QED BY <2>6, <2>7, Zenon DEF Located, gone
<1> QED BY <1>1, <1>2, Zenon DEF KeepsPlace

-----------------------------------------------------------------------------
(* The only client, the only view, and the only connection to each server. *)
LEMMA Setting ==
    ASSUME NEW t, NEW v, SurvivedBy(t, v), Inv
    PROVE  /\ t \in Thread /\ v \in View /\ Conn = {1} /\ ~Fails
           /\ \A k \in Key :
                /\ v.read[k] \in Seq(Server) /\ v.write[k] \in Seq(Server)
                /\ Members(v.write[k]) \subseteq Members(v.read[k])
           /\ req[t] \in Request /\ req[t].key \in Key /\ req[t].data \in 0..MaxChanges
           /\ req[t].tries \in Nat /\ req[t].sent \in Nat
<1>1. t \in Thread /\ v \in View /\ MaxErrors = 0 /\ errors \in 0..MaxErrors
  BY Zenon DEF SurvivedBy, Inv, Clients
<1>2. Cardinality(Thread) = 1
  BY FS_Singleton, Zenon DEF SurvivedBy
<1>3. Conn = {1}
  BY <1>2 DEF Conn
<1>4. ~Fails
  BY <1>1 DEF Fails
<1>5. ASSUME NEW k \in Key
      PROVE  /\ v.read[k] \in Seq(Server) /\ v.write[k] \in Seq(Server)
             /\ Members(v.write[k]) \subseteq Members(v.read[k])
  <2>1. v.read \in ReplicaMap /\ v.write \in ReplicaMap
    BY <1>1, ViewAssumption, Zenon
  <2>2. Members(v.write[k]) \subseteq Members(v.read[k])
    BY <1>1, ViewAssumption, Zenon DEF Members
  <2> QED BY <2>1, <2>2, Zenon DEF ReplicaMap
<1>6. /\ req[t] \in Request /\ req[t].key \in Key /\ req[t].data \in 0..MaxChanges
      /\ req[t].tries \in Nat /\ req[t].sent \in Nat
  BY <1>1, Zenon DEF Inv, Requests, Request
<1> QED BY <1>1, <1>3, <1>4, <1>5, <1>6, Zenon

(* The sets the invariant speaks of are finite.                            *)
LEMMA PlaceSets ==
    ASSUME NEW t, NEW v, SurvivedBy(t, v), Inv, NEW k \in Key
    PROVE  /\ IsFiniteSet(Members(v.write[k])) /\ Members(v.write[k]) \in SUBSET Server
           /\ \A n \in 1..Len(v.write[k]) : /\ IsFiniteSet(First(v.write[k], n))
                                            /\ First(v.write[k], n) \in SUBSET Server
           /\ \A n \in 0..Len(v.read[k]) : After(v.read[k], n) \in SUBSET Server
           /\ IsFiniteSet({}) /\ {} \in SUBSET Server
           /\ \A i \in 1..Len(v.read[k]) : v.read[k][i] \in Server
<1> DEFINE w == v.write[k]
           l == v.read[k]
<1>1. w \in Seq(Server) /\ l \in Seq(Server)
  BY Setting, Zenon
<1> HIDE DEF w, l
<1>2. IsFiniteSet(Members(w)) /\ Members(w) \in SUBSET Server
  BY <1>1, ListSets, Zenon
<1>3. \A n \in 1..Len(w) : First(w, n) \in SUBSET Members(w)
  BY <1>1, ListSets, Zenon
<1>4. \A n \in 1..Len(w) : IsFiniteSet(First(w, n)) /\ First(w, n) \in SUBSET Server
  BY <1>2, <1>3, FS_Subset, Zenon
<1>5. \A i \in 1..Len(l) : l[i] \in Server
  BY <1>1
<1>6. ASSUME NEW n \in 0..Len(l) PROVE After(l, n) \in SUBSET Server
  <2>1. \A i \in (n + 1)..Len(l) : i \in 1..Len(l)
    BY <1>1
  <2> QED BY <1>5, <2>1, Zenon DEF After
<1> QED BY <1>2, <1>4, <1>5, <1>6, FS_EmptySet, Zenon DEF w, l

(* A key that nobody changes stays settled.                                *)
LEMMA SettledStays ==
    ASSUME NEW t, NEW v, SurvivedBy(t, v), Inv, NEW k \in Key, KeepsPlace(k),
           latest'[k] = latest[k], Settled(v, k)
    PROVE  Settled(v, k)'
<1>1. IsFiniteSet(Members(v.write[k])) /\ Members(v.write[k]) \in SUBSET Server
  BY PlaceSets, Zenon
<1> QED BY <1>1, Zenon DEF Settled, KeepsPlace

LEMMA SameRequest ==
    ASSUME NEW t, NEW v, SurvivedBy(t, v), Inv, NEW k \in Key, KeepsPlace(k),
           latest' = latest, req' = req, KeyInv(t, v, k)
    PROVE  KeyInv(t, v, k)'
<1>1. Settled(v, k) => Settled(v, k)'
  BY SettledStays, Zenon
<1>2. 0 \in 0..MaxChanges
  BY BoundAssumption
<1>3. WriteInv(t, v, k) => WriteInv(t, v, k)'
  <2>1. \A n \in 1..Len(v.write[k]) : /\ IsFiniteSet(First(v.write[k], n))
                                      /\ First(v.write[k], n) \in SUBSET Server
                                      /\ Members(v.write[k]) \in SUBSET Server
    BY PlaceSets, Zenon
  <2> QED BY <2>1, Zenon DEF WriteInv, KeepsPlace
<1>4. DeleteInv(t, v, k) => DeleteInv(t, v, k)'
  <2>1. /\ \A n \in 0..Len(v.read[k]) : After(v.read[k], n) \in SUBSET Server
        /\ IsFiniteSet({}) /\ {} \in SUBSET Server
    BY PlaceSets, Zenon
  <2> QED BY <1>2, <2>1, Zenon DEF DeleteInv, KeepsPlace
<1>5. ReadInv(t, v, k) => ReadInv(t, v, k)'
  <2>1. \A i \in 1..Len(v.read[k]) : v.read[k][i] \in Server
    BY PlaceSets, Zenon
  <2>2. \A i \in 1..Len(v.read[k]) : Holds(v.read[k][i], k, 0) => Holds(v.read[k][i], k, 0)'
    BY <2>1, Zenon DEF KeepsPlace
  <2> QED BY <2>2, Zenon DEF ReadInv
<1>6. Storing(t)' <=> Storing(t)
  BY Zenon DEF Storing
<1> QED BY <1>1, <1>3, <1>4, <1>5, <1>6, Zenon DEF KeyInv

(* A key that is not that of the request in hand.                          *)
Concerns(t, k) == req[t].key = k /\ req[t].pc # "idle"

LEMMA OtherKey ==
    ASSUME NEW t, NEW v, SurvivedBy(t, v), Inv, NEW k \in Key, KeepsPlace(k),
           latest'[k] = latest[k], ~Concerns(t, k), ~Concerns(t, k)', KeyInv(t, v, k)
    PROVE  KeyInv(t, v, k)'
<1>1. /\ "read" # "idle" /\ "write" # "idle" /\ "delete" # "idle"
  BY Zenon
<1>2. Settled(v, k)
  BY <1>1, Zenon DEF Concerns, KeyInv, Storing
<1>3. Settled(v, k)'
  BY <1>2, SettledStays, Zenon
<1> QED BY <1>1, <1>3, Zenon DEF Concerns, KeyInv, Storing

(* A step that leaves the servers alone.                                   *)
LEMMA SameServers ==
    ASSUME Memcacheds, NEW k \in Key, UNCHANGED memcached PROVE KeepsPlace(k)
<1>1. item' = item /\ pending' = pending /\ restarts' = restarts
  BY Zenon DEF memcached
<1>2. KeepsKey(k)
  BY <1>1, Zenon DEF KeepsKey, Holds
<1> QED BY <1>1, <1>2, KeyIsKept, Zenon

-----------------------------------------------------------------------------
(* The steps of the servers, of the configuration and of the clock.        *)
Tidy == \A s \in Server, k \in Key : item[s][k].data = 0 => item[s][k] = NoItem

LEMMA TidyStays ==
    ASSUME Memcacheds, Tidy, NEW s \in Server, NEW k \in Key, NEW x,
           item' = [item EXCEPT ![s][k] = x], x.data = 0 => x = NoItem
    PROVE  Tidy'
<1>1. item \in [Server -> [Key -> Item]]
  BY Zenon DEF Memcacheds
<1>2. ASSUME NEW z \in Server, NEW j \in Key, item'[z][j].data = 0 PROVE item'[z][j] = NoItem
  <2>1. item'[z][j] = x \/ item'[z][j] = item[z][j]
    BY <1>1, Zenon
  <2>2. item[z][j].data = 0 => item[z][j] = NoItem
    BY Zenon DEF Tidy
  <2>3. CASE item'[z][j] = x
    BY <1>2, <2>3, Zenon
  <2>4. CASE item'[z][j] = item[z][j]
    BY <1>2, <2>2, <2>4, Zenon
  <2> QED BY <2>1, <2>3, <2>4, Zenon
<1> QED BY <1>2, Zenon DEF Tidy

LEMMA OutsideAck ==
    ASSUME NEW t, NEW v, SurvivedBy(t, v), Inv, AckInv(t, v),
           \/ \E s \in Server : Restart(s) \/ \E c \in Conn : DeliverBackup(s, c)
           \/ new_view \/ new_view_done \/ TimePasses \/ UNCHANGED vars
    PROVE  AckInv(t, v)'
<1>0. /\ Memcacheds /\ view \in View /\ View = {v} /\ Conn = {1}
      /\ view = v /\ copying = NoView /\ Tidy /\ ListInv(t, v)
      /\ \A k \in Key : KeyInv(t, v, k)
  BY Setting, Zenon DEF Inv, Views, SurvivedBy, AckInv, Tidy
<1>1. ~new_view /\ ~new_view_done
  BY <1>0, Zenon DEF new_view, new_view_done
<1>2. req' = req /\ latest' = latest /\ view' = view /\ copying' = copying
  BY <1>1, Zenon DEF Restart, DeliverBackup, TimePasses, vars, config
<1>3. ListInv(t, v)'
  BY <1>0, <1>2, Zenon DEF ListInv
<1>4. Tidy' /\ \A k \in Key : KeepsPlace(k)
  <2>1. ASSUME NEW s \in Server, Restart(s) PROVE Tidy' /\ \A k \in Key : KeepsPlace(k)
    <3>1. /\ item \in [Server -> [Key -> Item]]
          /\ item' = [item EXCEPT ![s] = [k \in Key |-> NoItem]]
      BY <1>0, <2>1, Zenon DEF Memcacheds, Restart
    <3>2. ASSUME NEW z \in Server, NEW j \in Key, item'[z][j].data = 0 PROVE item'[z][j] = NoItem
      <4>1. item'[z][j] = NoItem \/ item'[z][j] = item[z][j]
        BY <3>1, Zenon
      <4>2. CASE item'[z][j] = item[z][j]
        BY <1>0, <3>2, <4>2, Zenon DEF Tidy
      <4> QED BY <4>1, <4>2, Zenon
    <3>3. 1 \in Conn
      BY <1>0, Zenon
    <3>4. Tidy'
      BY <3>2, Zenon DEF Tidy
    <3> QED BY <1>0, <2>1, <3>3, <3>4, RestartKeeps, Zenon
  <2>2. ASSUME NEW s \in Server, DeliverBackup(s, 1) PROVE Tidy' /\ \A k \in Key : KeepsPlace(k)
    <3> DEFINE q == pending[s][1]
               m == Head(q)
    <3>1. /\ q \in Seq(Backup) /\ q # <<>> /\ restarts' = restarts
          /\ item' = [item EXCEPT ![s][m.key] = [data |-> m.data, cas |-> casid[s] + 1]]
      <4>1. 1 \in Conn
        BY <1>0, Zenon
      <4> QED BY <1>0, <2>2, <4>1, Zenon DEF DeliverBackup, Memcacheds, Put
    <3>2. m \in Backup
      <4>1. q \in Seq(Backup) /\ q # <<>>
        BY <3>1, Zenon
      <4> HIDE DEF q
      <4> QED BY <4>1
    <3> HIDE DEF m
    <3>3. m.key \in Key /\ [data |-> m.data, cas |-> casid[s] + 1].data # 0
      BY <3>2 DEF Backup
    <3>4. Tidy'
      BY <1>0, <3>1, <3>3, TidyStays, Zenon
    <3>5. 1 \in Conn
      BY <1>0, Zenon
    <3>6. \A k \in Key : KeepsKey(k)
      BY <1>0, <2>2, <3>5, DeliverHolds, Zenon DEF KeepsKey
    <3> QED BY <1>0, <3>1, <3>4, <3>6, KeyIsKept, Zenon
  <2>3. CASE UNCHANGED memcached
    <3>1. item' = item
      BY <2>3, Zenon DEF memcached
    <3> QED BY <1>0, <2>3, <3>1, SameServers, Zenon DEF Tidy
  <2> QED BY <1>0, <1>1, <2>1, <2>2, <2>3, Zenon DEF TimePasses, vars
<1>5. \A k \in Key : KeyInv(t, v, k)'
  BY <1>0, <1>2, <1>4, SameRequest, Zenon
<1> QED BY <1>0, <1>2, <1>3, <1>4, <1>5, Zenon DEF AckInv, Tidy

(* A step of the client, by what it does to the key of the request.        *)
LEMMA ClientAck ==
    ASSUME NEW t, NEW v, SurvivedBy(t, v), Inv, AckInv(t, v), UNCHANGED config, Tidy',
           ListInv(t, v)', NEW h \in Key, KeyInv(t, v, h)',
           req[t].pc = "idle" \/ req[t].key = h, req'[t].pc = "idle" \/ req'[t].key = h,
           \A k \in Key : k # h => KeepsPlace(k) /\ latest'[k] = latest[k]
    PROVE  AckInv(t, v)'
<1>1. ASSUME NEW k \in Key, k # h PROVE KeyInv(t, v, k)'
  <2>1. ~Concerns(t, k) /\ ~Concerns(t, k)'
    BY <1>1, Zenon DEF Concerns
  <2> QED BY <1>1, <2>1, OtherKey, Zenon DEF AckInv
<1>2. view' = view /\ copying' = copying
  BY Zenon DEF config
<1> QED BY <1>1, <1>2, Zenon DEF AckInv, Tidy

(* The replacement of the client's request.                                *)
LEMMA ClientRequest ==
    ASSUME NEW t, NEW v, SurvivedBy(t, v), Inv, NEW r, req' = [req EXCEPT ![t] = r]
    PROVE  req'[t] = r
BY Setting, Zenon DEF Inv, Requests

(* A request begins.                                                       *)
LEMMA StartAck ==
    ASSUME NEW t, NEW v, SurvivedBy(t, v), Inv, AckInv(t, v), NEW k \in Key,
           \/ StartRead(t, k) \/ StartDelete(t, k)
           \/ \E oper \in Write : StartWrite(t, k, oper)
    PROVE  AckInv(t, v)'
<1>0. /\ Memcacheds /\ req[t].pc = "idle" /\ UNCHANGED memcached /\ UNCHANGED config
      /\ latest' = latest /\ view = v /\ copying = NoView /\ Tidy
      /\ KeyInv(t, v, k)
  BY Zenon DEF Inv, StartRead, StartDelete, StartWrite, AckInv, Tidy
<1>1. /\ \A list : list \in get_replica_addresses(k, "read") => list = v.read[k]
      /\ \A list : list \in get_replica_addresses(k, "write") => list = v.write[k]
  BY <1>0, Zenon DEF get_replica_addresses
<1>2. Tidy'
  BY <1>0, Zenon DEF Tidy, memcached
<1>3. \A j \in Key : KeepsPlace(j)
  BY <1>0, SameServers, Zenon
<1>4. Settled(v, k) /\ Settled(v, k)'
  <2>1. "idle" # "write" /\ "idle" # "delete"
    BY Zenon
  <2>2. Settled(v, k)
    BY <1>0, <2>1, Zenon DEF KeyInv, Storing
  <2> QED BY <1>0, <1>3, <2>2, SettledStays, Zenon
<1>5. v.read[k] \in Seq(Server)
  BY Setting, Zenon
<1>6. CASE StartRead(t, k)
  <2>1. PICK list \in get_replica_addresses(k, "read") :
          req' = [req EXCEPT ![t] = [Idle EXCEPT !.pc = "read", !.key = k, !.list = list]]
    BY <1>6, Zenon DEF StartRead
  <2> DEFINE r == [Idle EXCEPT !.pc = "read", !.key = k, !.list = list]
  <2>2. /\ r.pc = "read" /\ r.key = k /\ r.list = list /\ r.tries = 0 /\ r.failed = 0
        /\ r.rc # "SUCCESS"
    BY Zenon DEF Idle
  <2> HIDE DEF r
  <2>3. req'[t] = r
    BY <2>1, ClientRequest, Zenon DEF r
  <2>4. ListInv(t, v)'
    <3>1. "read" # "write"
      BY Zenon
    <3> QED BY <1>1, <2>2, <2>3, <3>1, Zenon DEF ListInv
  <2>5. ReadInv(t, v, k)'
    <3>1. 0 \in 0..Len(v.read[k]) /\ ~(0 > 0) /\ \A i \in 1..Len(v.read[k]) : ~(i <= 0)
      BY <1>5
    <3> QED BY <2>2, <2>3, <3>1, Zenon DEF ReadInv
  <2>6. KeyInv(t, v, k)'
    <3>1. "read" # "write" /\ "read" # "delete"
      BY Zenon
    <3> QED BY <1>4, <2>2, <2>3, <2>5, <3>1, Zenon DEF KeyInv, Storing
  <2> QED BY <1>0, <1>2, <1>3, <2>2, <2>3, <2>4, <2>6, ClientAck, Zenon
<1>7. CASE StartDelete(t, k)
  <2>1. PICK list \in get_replica_addresses(k, "read") :
          req' = [req EXCEPT ![t] = [Idle EXCEPT !.pc = "delete", !.oper = "DELETE",
                      !.key = k, !.list = list]]
    BY <1>7, Zenon DEF StartDelete
  <2> DEFINE r == [Idle EXCEPT !.pc = "delete", !.oper = "DELETE", !.key = k, !.list = list]
  <2>2. r.pc = "delete" /\ r.key = k /\ r.list = list /\ r.tries = 0
    BY Zenon DEF Idle
  <2> HIDE DEF r
  <2>3. req'[t] = r
    BY <2>1, ClientRequest, Zenon DEF r
  <2>4. ListInv(t, v)'
    <3>1. "delete" # "write"
      BY Zenon
    <3> QED BY <1>1, <2>2, <2>3, <3>1, Zenon DEF ListInv
  <2>5. DeleteInv(t, v, k)'
    <3>1. 0 \in 0..Len(v.read[k]) /\ ~(0 > 0)
      BY <1>5
    <3>2. Located(k, 0, {}, After(v.read[k], 0))'
      <4>1. latest'[k] \in 0..MaxChanges /\ restarts' \in Nat
        BY <1>0 DEF Inv, Clients, Memcacheds, memcached
      <4>2. \A s \in Server \ Members(v.write[k]) : Holds(s, k, 0)'
        BY <1>4, <4>1, Zenon DEF Settled, Located
      <4>3. Members(v.write[k]) \subseteq After(v.read[k], 0)
        <5>1. After(v.read[k], 0) = Members(v.read[k])
          BY <1>5, ListSets, Zenon
        <5> QED BY <5>1, Setting, Zenon
      <4>4. \A s \in Server \ After(v.read[k], 0) : Holds(s, k, 0)'
        BY <4>2, <4>3, Zenon
      <4>5. {s \in {} : ~Holds(s, k, 0)'} = {}
        OBVIOUS
      <4>6. Cardinality({}) <= restarts'
        BY <4>1, FS_EmptySet
      <4> QED BY <4>4, <4>5, <4>6, Zenon DEF Located
    <3>3. \A n \in 0..Len(v.read[k]) : 0 = n => Located(k, 0, {}, After(v.read[k], n))'
      BY <3>2, Zenon
    <3> QED BY <2>2, <2>3, <3>1, <3>3, Zenon DEF DeleteInv
  <2>6. KeyInv(t, v, k)'
    <3>1. "delete" # "write" /\ "read" # "delete"
      BY Zenon
    <3> QED BY <2>2, <2>3, <2>5, <3>1, Zenon DEF KeyInv, Storing
  <2> QED BY <1>0, <1>2, <1>3, <2>2, <2>3, <2>4, <2>6, ClientAck, Zenon
<1>8. ASSUME NEW oper \in Write, StartWrite(t, k, oper) PROVE AckInv(t, v)'
  <2>1. PICK list \in get_replica_addresses(k, "write"),
             id \in {0} \cup (IF oper = "REPLACE" /\ seen[t].key = k THEN {seen[t].cas} ELSE {}) :
          req' = [req EXCEPT ![t] = [Idle EXCEPT !.pc = "write", !.oper = oper, !.key = k,
                      !.list = list, !.data = changes + 1, !.cas = id]]
    BY <1>8, Zenon DEF StartWrite
  <2> DEFINE r == [Idle EXCEPT !.pc = "write", !.oper = oper, !.key = k,
                      !.list = list, !.data = changes + 1, !.cas = id]
  <2>2. r.pc = "write" /\ r.key = k /\ r.list = list /\ r.tries = 0 /\ r.rc # "SUCCESS"
    BY Zenon DEF Idle
  <2> HIDE DEF r
  <2>3. req'[t] = r
    BY <2>1, ClientRequest, Zenon DEF r
  <2>4. "write" # "read" /\ "write" # "delete"
    BY Zenon
  <2>5. ListInv(t, v)'
    BY <1>1, <2>2, <2>3, <2>4, Zenon DEF ListInv
  <2>6. KeyInv(t, v, k)'
    BY <1>4, <2>2, <2>3, <2>4, Zenon DEF KeyInv, Storing
  <2> QED BY <1>0, <1>2, <1>3, <2>2, <2>3, <2>5, <2>6, ClientAck, Zenon
<1> QED BY <1>6, <1>7, <1>8, Zenon

(* A record that is found is the one last acknowledged.                    *)
LEMMA FoundIsLatest ==
    ASSUME NEW v, Inv, 1 \in Conn, NEW k \in Key, Settled(v, k),
           NEW s \in Server, NEW d, Holds(s, k, d), d # 0
    PROVE  latest[k] = d
<1>1. Memcacheds /\ latest[k] \in 0..MaxChanges
  BY Zenon DEF Inv, Clients
<1>2. Holds(s, k, latest[k]) \/ Holds(s, k, 0)
  BY <1>1, Zenon DEF Settled, Located
<1> QED BY <1>1, <1>2, HoldsOne, Zenon

(* If no read replica has the record, there is none.                       *)
LEMMA NoneIsLeft ==
    ASSUME NEW t, NEW v, SurvivedBy(t, v), Inv, NEW k \in Key, Settled(v, k),
           \A i \in 1..Len(v.read[k]) : Holds(v.read[k][i], k, 0)
    PROVE  latest[k] = 0
<1> SUFFICES ASSUME latest[k] # 0 PROVE FALSE
  BY Zenon
<1> DEFINE w == Members(v.write[k])
<1>1. Memcacheds /\ latest[k] \in 0..MaxChanges /\ 1 \in Conn /\ v.read[k] \in Seq(Server)
  BY Setting, Zenon DEF Inv, Clients
<1>2. restarts \in 0..MaxRestarts /\ MaxRestarts \in Nat /\ MaxRestarts < Cardinality(w)
  BY <1>1, BoundAssumption, Zenon DEF SurvivedBy, Memcacheds
<1>3. IsFiniteSet(w) /\ w \subseteq Server
  BY PlaceSets, Zenon
<1>4. ASSUME NEW s \in w PROVE Holds(s, k, 0)
  <2>1. s \in Members(v.read[k])
    BY Setting, Zenon
  <2>2. DOMAIN v.read[k] = 1..Len(v.read[k])
    BY <1>1
  <2> QED BY <2>1, <2>2, Zenon DEF Members
<1>5. {s \in w : ~Holds(s, k, latest[k])} = w
  <2> HIDE DEF w
  <2> QED BY <1>1, <1>3, <1>4, HoldsOne, Zenon
<1>6. Cardinality(w) <= restarts
  BY <1>1, <1>5, Zenon DEF Settled, Located
<1>7. Cardinality(w) \in Nat
  BY <1>3, FS_CardinalityType, Zenon
<1> QED BY <1>2, <1>6, <1>7

(* While tries are left, a read goes to the next replica of the list.      *)
LEMMA NextReplica ==
    ASSUME NEW r \in Request, r.tries > 0 => r.rc = "NOTFOUND", r.tries <= Len(r.list)
    PROVE  /\ MoreAttempts(r) => r.tries < Len(r.list) /\ Replica(r) = r.list[r.tries + 1]
           /\ ~MoreAttempts(r) => r.tries = Len(r.list)
<1> DEFINE n == Len(r.list)
           i == r.tries
<1>1. n \in Nat /\ i \in Nat
  <2>1. r.list \in Seq(Server) /\ r.tries \in Nat
    BY Zenon DEF Request
  <2> QED BY <2>1
<1> DEFINE a == IF n = 1 THEN 2 ELSE n
<1>2. /\ MoreAttempts(r) <=> (i < a /\ (n = 1 /\ i = 1 => r.rc = "CONNECTION_FAILURE"))
      /\ Replica(r) = IF n = 1 THEN r.list[1] ELSE r.list[i + 1]
  <2>1. Attempts(r) = a
    BY Zenon DEF Attempts
  <2> HIDE DEF a
  <2> QED BY <2>1, Zenon DEF MoreAttempts, Replica
<1>3. (i > 0 => r.rc # "CONNECTION_FAILURE") /\ i <= n
  BY Zenon
<1> HIDE DEF n, i
<1>4. MoreAttempts(r) => i < n
  BY <1>1, <1>2, <1>3
<1>5. ~MoreAttempts(r) => i = n
  BY <1>1, <1>2, <1>3
<1>6. n = 1 /\ i < n => i + 1 = 1
  BY <1>1
<1>7. MoreAttempts(r) => Replica(r) = r.list[i + 1]
  BY <1>2, <1>4, <1>6, Zenon
<1> QED BY <1>4, <1>5, <1>7, Zenon DEF n, i

LEMMA ReadAck ==
    ASSUME NEW t, NEW v, SurvivedBy(t, v), Inv, AckInv(t, v), ReadReplica(t),
           NEW h \in Key, req[t].key = h
    PROVE  AckInv(t, v)'
<1> DEFINE r == req[t]
           s == Replica(r)
           found == item[s][h]
           hit == [r EXCEPT !.tries = @ + 1, !.rc = "SUCCESS",
                        !.data = found.data, !.cas = found.cas, !.answered = TRUE]
           miss == [r EXCEPT !.tries = @ + 1, !.rc = "NOTFOUND",
                        !.cas = 0, !.not_found = TRUE, !.answered = TRUE]
<1>0. /\ Memcacheds /\ r \in Request /\ r.tries \in Nat
      /\ Conn = {1} /\ 1 \in Conn /\ r.pc = "read" /\ r.rc # "SUCCESS" /\ MoreAttempts(r)
      /\ UNCHANGED memcached /\ UNCHANGED config /\ latest' = latest
  BY Setting, Zenon DEF Inv, ReadReplica
<1>1. Tidy /\ r.list = v.read[h] /\ ReadInv(t, v, h) /\ Settled(v, h)
  <2>1. "read" # "write" /\ "read" # "delete"
    BY Zenon
  <2> QED BY <1>0, <2>1, Zenon DEF AckInv, Tidy, ListInv, KeyInv, Storing
<1>2. /\ r.failed = 0 /\ r.tries \in 0..Len(r.list) /\ (r.tries > 0 => r.rc = "NOTFOUND")
      /\ \A i \in 1..Len(v.read[h]) : i <= r.tries => Holds(v.read[h][i], h, 0)
  BY <1>0, <1>1, Zenon DEF ReadInv
<1>3. r.list \in Seq(Server) /\ Len(r.list) \in Nat
  BY <1>0 DEF Request
<1>4. /\ r.tries < Len(r.list) /\ s = r.list[r.tries + 1] /\ s \in Server
      /\ r.tries + 1 \in 0..Len(r.list)
  <2> HIDE DEF r
  <2>1. r.tries <= Len(r.list)
    BY <1>2, <1>3
  <2>2. r.tries < Len(r.list) /\ s = r.list[r.tries + 1] /\ s \in Server
    BY <1>0, <1>2, <2>1, NextReplica, ReplicaType, Zenon
  <2> QED BY <1>0, <1>3, <2>2
<1>5. /\ Drained(s)
      /\ \/ found # NoItem /\ req' = [req EXCEPT ![t] = hit]
         \/ found = NoItem /\ req' = [req EXCEPT ![t] = miss]
  BY Setting, Zenon DEF ReadReplica, get_from_replica
<1>6. Holds(s, h, found.data)
  <2>1. pending[s][1] = <<>>
    BY <1>0, <1>5, Zenon DEF Drained
  <2> HIDE DEF s
  <2> QED BY <2>1, EmptyQueue, Zenon DEF Holds
<1>7. Tidy' /\ \A j \in Key : KeepsPlace(j)
  BY <1>0, <1>1, SameServers, Zenon DEF Tidy, memcached
<1>8. Settled(v, h)'
  BY <1>0, <1>1, <1>7, SettledStays, Zenon
<1>9. "read" # "write" /\ "read" # "delete"
  BY Zenon
<1>10. CASE found # NoItem /\ req' = [req EXCEPT ![t] = hit]
  <2>1. /\ hit.pc = "read" /\ hit.key = h /\ hit.list = r.list /\ hit.rc = "SUCCESS"
        /\ hit.data = found.data /\ hit.tries = r.tries + 1 /\ hit.failed = r.failed
    <3> HIDE DEF found
    <3> QED BY <1>0, Zenon DEF Request
  <2> HIDE DEF hit, s, r
  <2>2. req'[t] = hit
    BY <1>10, ClientRequest, Zenon
  <2>3. found.data # 0
    BY <1>1, <1>4, <1>10, Zenon DEF Tidy
  <2>4. latest[h] = found.data
    BY <1>0, <1>1, <1>4, <1>6, <2>3, FoundIsLatest, Zenon
  <2>5. ListInv(t, v)'
    BY <1>1, <1>9, <2>1, <2>2, Zenon DEF ListInv
  <2>6. ReadInv(t, v, h)'
    BY <1>0, <1>1, <1>2, <1>4, <2>1, <2>2, <2>3, <2>4, Zenon DEF ReadInv
  <2>7. KeyInv(t, v, h)'
    BY <1>8, <1>9, <2>1, <2>2, <2>6, Zenon DEF KeyInv, Storing
  <2> QED BY <1>0, <1>7, <2>1, <2>2, <2>5, <2>7, ClientAck, Zenon DEF r
<1>11. CASE found = NoItem /\ req' = [req EXCEPT ![t] = miss]
  <2>1. /\ miss.pc = "read" /\ miss.key = h /\ miss.list = r.list /\ miss.rc = "NOTFOUND"
        /\ miss.rc # "SUCCESS" /\ miss.tries = r.tries + 1 /\ miss.failed = r.failed
    <3> HIDE DEF found
    <3> QED BY <1>0, Zenon DEF Request
  <2> HIDE DEF miss
  <2>2. req'[t] = miss
    BY <1>11, ClientRequest, Zenon
  <2>3. found.data = 0
    <3>1. NoItem.data = 0
      BY Zenon DEF NoItem
    <3> QED BY <1>11, <3>1, Zenon
  <2>4. ASSUME NEW i \in 1..Len(v.read[h]), i <= miss.tries PROVE Holds(v.read[h][i], h, 0)'
    <3>1. i <= r.tries \/ i = r.tries + 1
      <4>1. i <= r.tries + 1 /\ i \in Int
        BY <2>1, <2>4
      <4> HIDE DEF r
      <4> QED BY <1>0, <4>1
    <3>2. Holds(v.read[h][i], h, 0)
      <4> HIDE DEF r, s
      <4> QED BY <1>1, <1>2, <1>4, <1>6, <2>3, <3>1, Zenon
    <3>3. v.read[h][i] \in Server
      BY PlaceSets, Zenon
    <3> QED BY <1>7, <3>2, <3>3, Zenon DEF KeepsPlace
  <2> HIDE DEF s, r
  <2>5. ListInv(t, v)'
    BY <1>1, <1>9, <2>1, <2>2, Zenon DEF ListInv
  <2>6. ReadInv(t, v, h)'
    BY <1>1, <1>2, <1>4, <2>1, <2>2, <2>4, Zenon DEF ReadInv
  <2>7. KeyInv(t, v, h)'
    BY <1>8, <1>9, <2>1, <2>2, <2>6, Zenon DEF KeyInv, Storing
  <2> QED BY <1>0, <1>7, <2>1, <2>2, <2>5, <2>7, ClientAck, Zenon DEF r
<1> QED BY <1>5, <1>10, <1>11, Zenon

(* Nobody outside the write replicas has anything under a settled key.     *)
LEMMA SettledElsewhere ==
    ASSUME NEW v, Inv, NEW k \in Key, Settled(v, k), NEW s \in Server \ Members(v.write[k])
    PROVE  Holds(s, k, 0)
<1>1. latest[k] \in 0..MaxChanges
  BY Zenon DEF Inv, Clients
<1> QED BY <1>1, Zenon DEF Settled, Located

(* The conditional write goes to the first write replica.                  *)
LEMMA WriteAck ==
    ASSUME NEW t, NEW v, SurvivedBy(t, v), Inv, AckInv(t, v), WriteReplica(t),
           NEW h \in Key, req[t].key = h, NEW e \in 0..MaxChanges, req[t].data = e
    PROVE  AckInv(t, v)'
<1> DEFINE r == req[t]
           w == v.write[h]
           s == w[1]
           a == StoreAnswer(Replica(r), r)
           n == IF Len(r.list) = 1 THEN 1 ELSE r.tries + 1
           done == [r EXCEPT !.tries = @ + 1, !.rc = a, !.answered = TRUE, !.sent = n]
<1>0. /\ Memcacheds /\ r \in Request /\ Conn = {1} /\ 1 \in Conn
      /\ r.pc = "write" /\ r.rc \in Failure /\ MoreAttempts(r) /\ Written(r)
      /\ pending' = pending /\ restarts' = restarts /\ UNCHANGED config /\ latest' = latest
  BY Setting, Zenon DEF Inv, Requests, WriteReplica
<1>1. "SUCCESS" \notin Failure /\ "write" # "read" /\ "write" # "delete" /\ "write" # "idle"
  BY Zenon DEF Failure
<1>2. Tidy /\ r.list = w /\ r.tries = 0 /\ Settled(v, h)
  BY <1>0, <1>1, Zenon DEF AckInv, Tidy, ListInv, KeyInv, Storing
<1>3. s \in Server /\ Replica(r) = s /\ w # <<>> /\ w \in Seq(Server)
  <2>1. r.list # <<>> /\ Replica(r) = r.list[1] /\ Replica(r) \in Server
    <3> HIDE DEF r
    <3> QED BY <1>0, <1>2, FirstTry, ReplicaType, Zenon
  <2> QED BY <1>2, <2>1, Setting, Zenon
<1>4. /\ req' = [req EXCEPT ![t] = done] /\ Drained(s)
      /\ IF a = "SUCCESS" THEN Put(s, h, e) ELSE UNCHANGED <<item, casid>>
  BY <1>3, Setting, Zenon DEF WriteReplica
<1>5. a \in {"SUCCESS", "DATA_EXISTS", "NOTFOUND"} /\ a \notin Failure
  <2>1. a \in {"SUCCESS", "DATA_EXISTS", "NOTFOUND"}
    BY <1>0, StoreAnswerType, Zenon DEF Written
  <2> HIDE DEF a
  <2> QED BY <2>1, Zenon DEF Failure
<1>6. n = 1
  <2> HIDE DEF r
  <2> QED BY <1>2
<1>7. /\ done.pc = "write" /\ done.key = h /\ done.list = r.list /\ done.rc = a
      /\ done.data = e /\ done.sent = 1
  <2>1. done = [r EXCEPT !.tries = @ + 1, !.rc = a, !.answered = TRUE, !.sent = 1]
    BY <1>6, Zenon
  <2> HIDE DEF done, a, n
  <2> QED BY <1>0, <2>1, Zenon DEF Request
<1> HIDE DEF done, a, n, s, w, r
<1>8. req'[t] = done
  BY <1>4, ClientRequest, Zenon
<1>9. ListInv(t, v)'
  BY <1>1, <1>2, <1>5, <1>7, <1>8, Zenon DEF ListInv, w
<1>10. CASE a = "SUCCESS"
  <2> DEFINE x == [data |-> e, cas |-> casid[s] + 1]
  <2>1. e >= 1 /\ x.data = e /\ e # 0
    <3>1. e >= 1
      BY <1>0, Zenon DEF Written, r
    <3> QED BY <3>1
  <2>2. item' = [item EXCEPT ![s][h] = x]
    BY <1>4, <1>10, Zenon DEF Put
  <2> HIDE DEF x
  <2>3. Tidy'
    BY <1>0, <1>2, <1>3, <2>1, <2>2, TidyStays, Zenon
  <2>4. pending[s][1] = <<>>
    BY <1>0, <1>4, Zenon DEF Drained
  <2>5. /\ Holds(s, h, e)'
        /\ \A z \in Server, j \in Key : \A d :
                (z # s \/ j # h) /\ Holds(z, j, d) => Holds(z, j, d)'
    <3>1. Memcacheds /\ 1 \in Conn /\ pending' = pending /\ s \in Server /\ x.data = e
      BY <1>0, <1>3, <2>1, Zenon
    <3> QED BY <2>2, <2>4, <3>1, StoreHolds, Zenon
  <2>6. ASSUME NEW j \in Key, j # h PROVE KeepsPlace(j)
    <3>1. KeepsKey(j)
      BY <2>5, <2>6, Zenon DEF KeepsKey
    <3> QED BY <1>0, <3>1, KeyIsKept, Zenon
  <2>7. First(w, 1) = {s} /\ s \in Members(w) /\ 1 \in 1..Len(w)
    <3>1. 1 \in DOMAIN w /\ 1..1 = {1} /\ 1 \in 1..Len(w)
      BY <1>3
    <3> QED BY <1>3, <3>1, Zenon DEF First, Members, s
  <2>8. Located(h, e, First(w, 1), Members(w))'
    <3>1. ASSUME NEW z \in Server \ Members(w) PROVE Holds(z, h, 0)'
      <4>1. Holds(z, h, 0)
        BY <1>2, SettledElsewhere, Zenon DEF w
      <4> QED BY <2>5, <2>7, <4>1, Zenon
    <3>2. {z \in {s} : ~Holds(z, h, e)'} = {}
      BY <2>5, Zenon
    <3>3. Cardinality({}) <= restarts'
      <4>1. restarts \in Nat
        BY <1>0 DEF Memcacheds
      <4> QED BY <1>0, <4>1, FS_EmptySet
    <3>4. \A z \in {s} : Holds(z, h, e)'
      BY <2>5, Zenon
    <3>5. /\ \A z \in First(w, 1) : Holds(z, h, e)'
          /\ {z \in First(w, 1) : ~Holds(z, h, e)'} = {}
      BY <2>7, <3>2, <3>4, Zenon
    <3> QED BY <3>1, <3>3, <3>5, Zenon DEF Located
  <2>9. WriteInv(t, v, h)'
    BY <1>7, <1>8, <2>7, <2>8, Zenon DEF WriteInv, w
  <2>10. KeyInv(t, v, h)'
    BY <1>1, <1>7, <1>8, <1>10, <2>9, Zenon DEF KeyInv, Storing
  <2> QED BY <1>0, <1>7, <1>8, <1>9, <2>3, <2>6, <2>10, ClientAck, Zenon
<1>11. CASE a # "SUCCESS"
  <2>1. UNCHANGED memcached
    BY <1>0, <1>4, <1>11, Zenon DEF memcached
  <2>2. Tidy' /\ \A j \in Key : KeepsPlace(j)
    BY <1>0, <1>2, <2>1, SameServers, Zenon DEF Tidy, memcached
  <2>3. Settled(v, h)'
    BY <1>0, <1>2, <2>2, SettledStays, Zenon
  <2>4. KeyInv(t, v, h)'
    BY <1>1, <1>7, <1>8, <1>11, <2>3, Zenon DEF KeyInv, Storing
  <2> QED BY <1>0, <1>7, <1>8, <1>9, <2>2, <2>4, ClientAck, Zenon
<1> QED BY <1>10, <1>11, Zenon

(* The no-reply write goes to the next write replica.                      *)
LEMMA BackupAck ==
    ASSUME NEW t, NEW v, SurvivedBy(t, v), Inv, AckInv(t, v), WriteBackup(t),
           NEW h \in Key, req[t].key = h, NEW e \in 0..MaxChanges, req[t].data = e,
           NEW n \in Nat, req[t].sent = n
    PROVE  AckInv(t, v)'
<1> DEFINE r == req[t]
           w == v.write[h]
           n1 == n + 1
           s == w[n1]
           m == [key |-> h, data |-> e]
           more == [r EXCEPT !.sent = n1]
<1>0. /\ Memcacheds /\ r \in Request /\ Conn = {1} /\ 1 \in Conn /\ w \in Seq(Server)
      /\ r.pc = "write" /\ r.rc = "SUCCESS" /\ n < Len(r.list) /\ Written(r)
      /\ item' = item /\ restarts' = restarts /\ UNCHANGED config /\ latest' = latest
  BY Setting, Zenon DEF Inv, Requests, WriteBackup
<1>1. "SUCCESS" \notin Failure /\ "write" # "read" /\ "write" # "delete" /\ "write" # "idle"
  BY Zenon DEF Failure
<1>2. Tidy /\ r.list = w /\ WriteInv(t, v, h)
  BY <1>0, <1>1, Zenon DEF AckInv, Tidy, ListInv, KeyInv, Storing
<1>3. /\ n \in 1..Len(w) /\ n1 \in 1..Len(w) /\ n \in 0..(Len(w) - 1) /\ s \in Server
  <2>1. n \in 1..Len(w) /\ n < Len(w)
    BY <1>0, <1>2, Zenon DEF WriteInv
  <2> HIDE DEF w
  <2> QED BY <1>0, <2>1
<1>4. First(w, n1) = First(w, n) \cup {s} /\ s \in Members(w)
  BY <1>0, <1>3, ListSets, Zenon
<1>5. Located(h, e, First(w, n), Members(w))
  BY <1>2, <1>3, Zenon DEF WriteInv
<1>6. req' = [req EXCEPT ![t] = more] /\ pending' = [pending EXCEPT ![s][1] = Append(@, m)]
  <2>1. req' = [req EXCEPT ![t] = more]
    BY Zenon DEF WriteBackup
  <2>2. \E c \in Conn : pending' = [pending EXCEPT ![s][c] = Append(@, m)]
    BY <1>2, Setting, Zenon DEF WriteBackup
  <2> QED BY <1>0, <2>1, <2>2, Zenon
<1>7. /\ more.pc = "write" /\ more.key = h /\ more.list = r.list /\ more.rc = "SUCCESS"
      /\ more.data = e /\ more.sent = n1
  BY <1>0, Zenon DEF Request
<1>8. m \in Backup /\ m.key = h /\ m.data = e
  <2>1. e >= 1
    BY <1>0, Zenon DEF Written
  <2> QED BY <2>1 DEF Backup
<1> HIDE DEF more, m, s, n1, w, r
<1>9. req'[t] = more
  BY <1>6, ClientRequest, Zenon
<1>10. /\ Holds(s, h, e)'
       /\ \A z \in Server, j \in Key : \A d :
                (z # s \/ j # h) /\ Holds(z, j, d) => Holds(z, j, d)'
  BY <1>0, <1>3, <1>6, <1>8, SendHolds, Zenon
<1>11. ASSUME NEW j \in Key, j # h PROVE KeepsPlace(j)
  <2>1. KeepsKey(j)
    BY <1>10, <1>11, Zenon DEF KeepsKey
  <2> QED BY <1>0, <2>1, KeyIsKept, Zenon
<1>12. Located(h, e, First(w, n1), Members(w))'
  <2> DEFINE lost == {z \in First(w, n) : ~Holds(z, h, e)}
             gone == {z \in First(w, n1) : ~Holds(z, h, e)'}
  <2>1. IsFiniteSet(First(w, n)) /\ First(w, n) \in SUBSET Server
    BY <1>3, PlaceSets, Zenon DEF w
  <2>2. gone \subseteq lost /\ lost \subseteq First(w, n)
    BY <1>4, <1>10, <2>1, Zenon
  <2>3. Cardinality(lost) <= restarts
    BY <1>5, Zenon DEF Located
  <2> HIDE DEF gone, lost
  <2>4. IsFiniteSet(lost)
    BY <2>1, <2>2, FS_Subset, Zenon
  <2>5. Cardinality(gone) <= Cardinality(lost) /\ Cardinality(gone) \in Nat /\ Cardinality(lost) \in Nat
    BY <2>2, <2>4, FS_Subset, FS_CardinalityType, Zenon
  <2>6. Cardinality(gone) <= restarts'
    <3>1. restarts \in Nat
      BY <1>0 DEF Memcacheds
    <3> QED BY <1>0, <2>3, <2>5, <3>1
  <2>7. ASSUME NEW z \in First(w, n1) PROVE Holds(z, h, e)' \/ Holds(z, h, 0)'
    BY <1>4, <1>5, <1>10, <2>1, Zenon DEF Located
  <2>8. ASSUME NEW z \in Server \ Members(w) PROVE Holds(z, h, 0)'
    BY <1>4, <1>5, <1>10, Zenon DEF Located
  <2> QED BY <2>6, <2>7, <2>8, Zenon DEF Located, gone
<1>13. WriteInv(t, v, h)'
  BY <1>3, <1>7, <1>9, <1>12, Zenon DEF WriteInv, w
<1>14. KeyInv(t, v, h)'
  BY <1>0, <1>1, <1>7, <1>9, <1>13, Zenon DEF KeyInv, Storing
<1>15. ListInv(t, v)'
  BY <1>1, <1>2, <1>7, <1>9, Zenon DEF ListInv, w
<1>16. Tidy'
  BY <1>0, <1>2, Zenon DEF Tidy
<1> QED BY <1>0, <1>7, <1>9, <1>11, <1>14, <1>15, <1>16, ClientAck, Zenon

(* A delete clears the next read replica.                                  *)
LEMMA DeleteAck ==
    ASSUME NEW t, NEW v, SurvivedBy(t, v), Inv, AckInv(t, v), DeleteReplica(t),
           NEW h \in Key, req[t].key = h, NEW n \in Nat, req[t].tries = n
    PROVE  AckInv(t, v)'
<1> DEFINE r == req[t]
           w == v.read[h]
           n1 == n + 1
           s == w[n1]
           b == Best(r, IF item[s][h] = NoItem THEN "NOTFOUND" ELSE "SUCCESS")
           done == [r EXCEPT !.tries = n1, !.best = b, !.answered = TRUE]
<1>0. /\ Memcacheds /\ r \in Request /\ Conn = {1} /\ 1 \in Conn /\ w \in Seq(Server)
      /\ r.pc = "delete" /\ n < Len(r.list)
      /\ pending' = pending /\ restarts' = restarts /\ UNCHANGED config /\ latest' = latest
  BY Setting, Zenon DEF Inv, Requests, DeleteReplica
<1>1. "delete" # "write" /\ "delete" # "read" /\ "delete" # "idle"
  BY Zenon
<1>2. Tidy /\ r.list = w /\ DeleteInv(t, v, h)
  BY <1>0, <1>1, Zenon DEF AckInv, Tidy, ListInv, KeyInv, Storing
<1>3. /\ n \in 0..Len(w) /\ n1 \in 0..Len(w) /\ n \in 0..(Len(w) - 1) /\ s \in Server
  <2>1. n < Len(w) /\ Len(w) \in Nat
    BY <1>0, <1>2
  <2> HIDE DEF w
  <2> QED BY <1>0, <2>1
<1>4. After(w, n) \subseteq After(w, n1) \cup {s}
  BY <1>0, <1>3, ListSets, Zenon
<1>5. Located(h, 0, {}, After(w, n))
  BY <1>2, <1>3, Zenon DEF DeleteInv
<1>6. req' = [req EXCEPT ![t] = done] /\ Drained(s) /\ Drop(s, h)
  BY <1>2, Setting, Zenon DEF DeleteReplica
<1>7. b # "TEMPORARY_FAILURE"
  <2> HIDE DEF s
  <2> QED BY Zenon DEF Best
<1>8. /\ done.pc = "delete" /\ done.key = h /\ done.list = r.list /\ done.tries = n1
      /\ done.best = b
  <2> HIDE DEF b
  <2> QED BY <1>0, Zenon DEF Request
<1> HIDE DEF done, b, s, n1, w, r
<1>9. req'[t] = done
  BY <1>6, ClientRequest, Zenon
<1>10. NoItem.data = 0 /\ item' = [item EXCEPT ![s][h] = NoItem]
  <2>1. NoItem.data = 0
    BY Zenon DEF NoItem
  <2> QED BY <1>6, <2>1, Zenon DEF Drop
<1>11. /\ Holds(s, h, 0)'
       /\ \A z \in Server, j \in Key : \A d :
                (z # s \/ j # h) /\ Holds(z, j, d) => Holds(z, j, d)'
  <2>1. pending[s][1] = <<>>
    BY <1>0, <1>6, Zenon DEF Drained
  <2>2. Memcacheds /\ 1 \in Conn /\ pending' = pending /\ s \in Server
    BY <1>0, <1>3, Zenon
  <2> QED BY <1>10, <2>1, <2>2, StoreHolds, Zenon
<1>12. ASSUME NEW j \in Key, j # h PROVE KeepsPlace(j)
  <2>1. KeepsKey(j)
    BY <1>11, <1>12, Zenon DEF KeepsKey
  <2> QED BY <1>0, <2>1, KeyIsKept, Zenon
<1>13. Located(h, 0, {}, After(w, n1))'
  <2>1. ASSUME NEW z \in Server \ After(w, n1) PROVE Holds(z, h, 0)'
    BY <1>4, <1>5, <1>11, Zenon DEF Located
  <2>2. {z \in {} : ~Holds(z, h, 0)'} = {}
    BY Zenon
  <2>3. Cardinality({}) <= restarts'
    <3>1. restarts \in Nat
      BY <1>0 DEF Memcacheds
    <3> QED BY <1>0, <3>1, FS_EmptySet
  <2> QED BY <2>1, <2>2, <2>3, Zenon DEF Located
<1>14. DeleteInv(t, v, h)'
  BY <1>3, <1>7, <1>8, <1>9, <1>13, Zenon DEF DeleteInv, w
<1>15. KeyInv(t, v, h)'
  BY <1>1, <1>8, <1>9, <1>14, Zenon DEF KeyInv, Storing
<1>16. ListInv(t, v)'
  BY <1>1, <1>2, <1>8, <1>9, Zenon DEF ListInv, w
<1>17. Tidy'
  BY <1>0, <1>2, <1>3, <1>10, TidyStays, Zenon
<1> QED BY <1>0, <1>8, <1>9, <1>12, <1>15, <1>16, <1>17, ClientAck, Zenon

(* Every vbucket has a replica to be read.                                 *)
LEMMA SomeReplica ==
    ASSUME NEW t, NEW v, SurvivedBy(t, v), Inv, NEW k \in Key
    PROVE  Len(v.read[k]) > 0
<1> DEFINE w == Members(v.write[k])
<1>1. MaxRestarts \in Nat /\ MaxRestarts < Cardinality(w)
  BY BoundAssumption, Zenon DEF SurvivedBy
<1>2. v.read[k] \in Seq(Server) /\ w \subseteq Members(v.read[k])
  BY Setting, Zenon
<1>3. w # {}
  <2> HIDE DEF w
  <2> QED BY <1>1, FS_EmptySet
<1>4. DOMAIN v.read[k] # {}
  BY <1>2, <1>3, Zenon DEF Members
<1> QED BY <1>2, <1>4

(* A request is answered.                                                  *)
LEMMA FinishAck ==
    ASSUME NEW t, NEW v, SurvivedBy(t, v), Inv, AckInv(t, v),
           FinishRead(t) \/ FinishWrite(t) \/ FinishDelete(t),
           NEW h \in Key, req[t].key = h, NEW e \in 0..MaxChanges, req[t].data = e
    PROVE  AckInv(t, v)'
<1> DEFINE r == req[t]
           w == v.write[h]
           l == v.read[h]
<1>0. /\ Memcacheds /\ r \in Request /\ w \in Seq(Server) /\ l \in Seq(Server)
      /\ UNCHANGED memcached /\ UNCHANGED config /\ latest \in [Key -> 0..MaxChanges]
  BY Setting, Zenon DEF Inv, Clients, FinishRead, FinishWrite, FinishDelete
<1>1. req'[t].pc = "idle"
  <2>1. Idle.pc = "idle"
    BY Zenon DEF Idle
  <2>2. req'[t] = Idle
    BY ClientRequest, Zenon DEF FinishRead, FinishWrite, FinishDelete, Answer
  <2> QED BY <2>1, <2>2, Zenon
<1>2. Tidy' /\ \A j \in Key : KeepsPlace(j)
  BY <1>0, SameServers, Zenon DEF AckInv, Tidy, memcached
<1>3. ListInv(t, v)'
  <2>1. "idle" \notin {"read", "delete"} /\ "idle" # "write"
    BY Zenon
  <2> QED BY <1>1, <2>1, Zenon DEF ListInv
<1>4. /\ \A j \in Key : j # h => latest'[j] = latest[j]
      /\ latest' = latest \/ latest'[h] = e \/ latest'[h] = 0
  BY <1>0, Zenon DEF FinishRead, FinishWrite, FinishDelete
<1>5. IsFiniteSet(Members(w)) /\ Members(w) \in SUBSET Server
  BY PlaceSets, Zenon
<1>6. ASSUME Settled(v, h)' PROVE AckInv(t, v)'
  <2>1. "idle" # "read" /\ "idle" # "write" /\ "idle" # "delete"
    BY Zenon
  <2>2. KeyInv(t, v, h)'
    BY <1>1, <1>6, <2>1, Zenon DEF KeyInv, Storing
  <2> QED BY <1>0, <1>1, <1>2, <1>3, <1>4, <2>2, ClientAck, Zenon
<1>7. CASE latest' = latest /\ Settled(v, h)
  BY <1>2, <1>6, <1>7, SettledStays, Zenon
<1>8. CASE FinishRead(t)
  <2>1. r.pc = "read" /\ latest' = latest /\ "read" # "write" /\ "read" # "delete"
    BY <1>8, Zenon DEF FinishRead, ReadOver
  <2>2. Settled(v, h)
    BY <2>1, Zenon DEF AckInv, KeyInv, Storing
  <2> QED BY <1>7, <2>1, <2>2, Zenon
<1>9. CASE FinishWrite(t)
  <2>1. r.pc = "write" /\ WriteOver(r) /\ "write" # "delete" /\ "SUCCESS" \notin Contention \cup Failure
    BY <1>9, Zenon DEF FinishWrite, WriteOver, Contention, Failure
  <2>2. CASE r.rc = "SUCCESS"
    <3>1. latest'[h] = e
      BY <1>0, <1>9, <2>2, Zenon DEF FinishWrite
    <3>2. WriteInv(t, v, h) /\ r.list = w
      BY <2>1, <2>2, Zenon DEF AckInv, KeyInv, Storing, ListInv
    <3>3. r.sent = Len(w)
      <4>1. r.sent >= Len(w) /\ r.sent \in 1..Len(w)
        BY <2>1, <2>2, <3>2, Zenon DEF WriteOver, WriteInv
      <4> HIDE DEF w, r
      <4> QED BY <1>0, <4>1
    <3>4. First(w, Len(w)) = Members(w)
      BY <1>0, ListSets, Zenon
    <3>5. Located(h, e, Members(w), Members(w))
      BY <3>2, <3>3, <3>4, Zenon DEF WriteInv
    <3>6. Located(h, e, Members(w), Members(w))'
      BY <1>2, <1>5, <3>5, Zenon DEF KeepsPlace
    <3>7. Settled(v, h)'
      BY <3>1, <3>6, Zenon DEF Settled
    <3> QED BY <1>6, <3>7, Zenon
  <2>3. CASE r.rc # "SUCCESS"
    <3>1. latest' = latest
      BY <1>9, <2>3, Zenon DEF FinishWrite
    <3>2. Settled(v, h)
      BY <2>1, <2>3, Zenon DEF AckInv, KeyInv, Storing
    <3> QED BY <1>7, <3>1, <3>2, Zenon
  <2> QED BY <2>2, <2>3, Zenon
<1>10. CASE FinishDelete(t)
  <2>1. r.pc = "delete" /\ r.tries >= Len(r.list) /\ "write" # "delete"
    BY <1>10, Zenon DEF FinishDelete
  <2>2. DeleteInv(t, v, h) /\ r.list = l
    BY <2>1, Zenon DEF AckInv, KeyInv, Storing, ListInv
  <2>3. r.tries = Len(l) /\ r.tries > 0 /\ Len(l) \in 0..Len(l)
    <3>1. r.tries >= Len(l) /\ r.tries \in 0..Len(l)
      BY <2>1, <2>2, Zenon DEF DeleteInv
    <3>2. Len(l) > 0
      BY SomeReplica, Zenon
    <3> HIDE DEF l, r
    <3> QED BY <1>0, <3>1, <3>2
  <2>4. latest'[h] = 0
    <3>1. r.best # "TEMPORARY_FAILURE"
      BY <2>2, <2>3, Zenon DEF DeleteInv
    <3> QED BY <1>0, <1>10, <3>1, Zenon DEF FinishDelete
  <2>5. After(l, Len(l)) = {}
    BY <1>0, ListSets, Zenon
  <2>6. Located(h, 0, {}, {})
    BY <2>2, <2>3, <2>5, Zenon DEF DeleteInv
  <2>7. \A z \in Server : Holds(z, h, 0)'
    BY <1>2, <2>6, Zenon DEF Located, KeepsPlace
  <2>8. Located(h, 0, Members(w), Members(w))'
    <3>1. {z \in Members(w) : ~Holds(z, h, 0)'} = {}
      BY <1>5, <2>7, Zenon
    <3>2. Cardinality({}) <= restarts'
      <4>1. restarts' \in Nat
        BY <1>0 DEF Memcacheds, memcached
      <4> QED BY <4>1, FS_EmptySet
    <3> QED BY <1>5, <2>7, <3>1, <3>2, Zenon DEF Located
  <2>9. Settled(v, h)'
    BY <2>4, <2>8, Zenon DEF Settled
  <2> QED BY <1>6, <2>9, Zenon
<1> QED BY <1>8, <1>9, <1>10, Zenon

LEMMA AckStep ==
    ASSUME NEW t, NEW v, SurvivedBy(t, v), Inv, AckInv(t, v), [Next]_vars
    PROVE  AckInv(t, v)'
<1>1. /\ Thread = {t} /\ req[t].key \in Key /\ req[t].data \in 0..MaxChanges
      /\ req[t].tries \in Nat /\ req[t].sent \in Nat
  BY Setting, Zenon DEF SurvivedBy
<1>2. ASSUME NEW k \in Key, \/ StartRead(t, k) \/ StartDelete(t, k)
                            \/ \E oper \in Write : StartWrite(t, k, oper)
      PROVE  AckInv(t, v)'
  BY <1>2, StartAck, Zenon
<1>3. ASSUME ThreadStep(t) PROVE AckInv(t, v)'
  <2>1. CASE ReadReplica(t)
    BY <1>1, <2>1, ReadAck, Zenon
  <2>2. CASE WriteReplica(t)
    BY <1>1, <2>2, WriteAck, Zenon
  <2>3. CASE WriteBackup(t)
    BY <1>1, <2>3, BackupAck, Zenon
  <2>4. CASE DeleteReplica(t)
    BY <1>1, <2>4, DeleteAck, Zenon
  <2>5. CASE FinishRead(t) \/ FinishWrite(t) \/ FinishDelete(t)
    BY <1>1, <2>5, FinishAck, Zenon
  <2> QED BY <1>3, <2>1, <2>2, <2>3, <2>4, <2>5, Zenon DEF ThreadStep
<1>4. ASSUME \/ \E s \in Server : Restart(s) \/ \E c \in Conn : DeliverBackup(s, c)
             \/ new_view \/ new_view_done \/ TimePasses \/ UNCHANGED vars
      PROVE  AckInv(t, v)'
  BY <1>4, OutsideAck, Zenon
<1> QED BY <1>1, <1>2, <1>3, <1>4, Zenon DEF Next

LEMMA AckInit ==
    ASSUME NEW t, NEW v, SurvivedBy(t, v), Init PROVE AckInv(t, v)
<1>0. Inv /\ view = v /\ copying = NoView /\ t \in Thread /\ Conn = {1}
  BY InvInit, Setting, Zenon DEF Init, SurvivedBy
<1>1. /\ \A s \in Server, k \in Key : item[s][k] = NoItem
      /\ \A s \in Server : pending[s][1] = <<>>
      /\ \A k \in Key : latest[k] = 0
      /\ req[t] = Idle /\ restarts = 0
  BY <1>0, Zenon DEF Init
<1>2. NoItem.data = 0 /\ Idle.pc = "idle" /\ "idle" # "write"
      /\ "idle" # "read" /\ "idle" # "delete"
  BY Zenon DEF NoItem, Idle
<1>3. \A s \in Server, k \in Key : Holds(s, k, 0)
  BY <1>1, <1>2, EmptyQueue, Zenon DEF Holds
<1>4. ASSUME NEW k \in Key PROVE Settled(v, k)
  <2> DEFINE w == Members(v.write[k])
  <2>1. w \in SUBSET Server
    BY <1>0, PlaceSets, Zenon
  <2> HIDE DEF w
  <2>2. {s \in w : ~Holds(s, k, 0)} = {}
    BY <1>3, <2>1, Zenon
  <2>3. Cardinality({}) <= restarts
    BY <1>1, FS_EmptySet
  <2>4. Located(k, 0, w, w)
    BY <1>3, <2>1, <2>2, <2>3, Zenon DEF Located
  <2> QED BY <1>1, <2>4, Zenon DEF Settled, w
<1>5. \A k \in Key : KeyInv(t, v, k)
  BY <1>1, <1>2, <1>4, Zenon DEF KeyInv, Storing
<1>6. ListInv(t, v)
  BY <1>1, <1>2, Zenon DEF ListInv
<1> QED BY <1>0, <1>1, <1>5, <1>6, Zenon DEF AckInv

(***************************************************************************)
(* For one client and any servers, keys and replica lists: as long as      *)
(* fewer memcacheds have restarted than a vbucket has write replicas, a    *)
(* GET answers with the last write acknowledged, or KEY_NOT_FOUND after a  *)
(* delete, although the backup writes of write_data are not waited for:    *)
(* read_data sends its request after them on the same connection.          *)
(***************************************************************************)
THEOREM AcknowledgedIsRead == OneClientSurvives => (Spec => []AckedIsRead)
<1> SUFFICES ASSUME NEW t, NEW v, SurvivedBy(t, v) PROVE Spec => []AckedIsRead
  BY Zenon DEF OneClientSurvives
<1>1. Init => AckInv(t, v)
  BY AckInit, Zenon
<1>2. Inv /\ AckInv(t, v) /\ [Next]_vars => AckInv(t, v)'
  BY AckStep, Zenon
<1>3. Inv /\ AckInv(t, v) => AckedIsRead
  <2> SUFFICES ASSUME Inv, AckInv(t, v), ReadOver(req[t])
               PROVE  IF latest[req[t].key] = 0 THEN ReadStatus(req[t]) = "KEY_NOT_FOUND"
                      ELSE ReadStatus(req[t]) = "NO_ERROR" /\ req[t].data = latest[req[t].key]
    <3>1. \A u \in Thread : u = t
      BY Zenon DEF SurvivedBy
    <3> QED BY <3>1, Zenon DEF AckedIsRead
  <2> DEFINE r == req[t]
             k == r.key
  <2>1. r \in Request /\ k \in Key /\ v.read[k] \in Seq(Server)
    BY Setting, Zenon
  <2>2. r.pc = "read" /\ "read" # "write" /\ "read" # "delete"
    BY Zenon DEF ReadOver
  <2>3. ReadInv(t, v, k) /\ Settled(v, k) /\ r.list = v.read[k]
    BY <2>1, <2>2, Zenon DEF AckInv, KeyInv, Storing, ListInv
  <2>4. CASE r.rc = "SUCCESS"
    <3>1. latest[k] # 0 /\ r.data = latest[k]
      BY <2>3, <2>4, Zenon DEF ReadInv
    <3> QED BY <2>4, <3>1, Zenon DEF ReadStatus
  <2>5. CASE r.rc # "SUCCESS"
    <3>1. /\ ~MoreAttempts(r) /\ r.failed = 0 /\ r.tries \in 0..Len(r.list)
          /\ r.tries > 0 => r.rc = "NOTFOUND"
          /\ \A i \in 1..Len(v.read[k]) : i <= r.tries => Holds(v.read[k][i], k, 0)
      BY <2>3, <2>5, Zenon DEF ReadInv, ReadOver
    <3> HIDE DEF r
    <3>2. Len(r.list) \in Nat /\ r.tries <= Len(r.list)
      BY <2>1, <2>3, <3>1
    <3>3. r.tries = Len(r.list)
      BY <2>1, <3>1, <3>2, NextReplica, Zenon
    <3>4. \A i \in 1..Len(v.read[k]) : i <= Len(v.read[k])
      BY <2>3, <3>2
    <3>5. latest[k] = 0
      BY <2>1, <2>3, <3>1, <3>3, <3>4, NoneIsLeft, Zenon
    <3>6. Len(r.list) > 0
      BY <2>1, <2>3, SomeReplica, Zenon
    <3>7. 0 < Len(r.list)
      BY <3>2, <3>6, Zenon
    <3>8. ReadStatus(r) = "KEY_NOT_FOUND"
      BY <2>5, <3>1, <3>7, Zenon DEF ReadStatus
    <3> QED BY <3>5, <3>8, Zenon DEF r
  <2> QED BY <2>4, <2>5, Zenon
<1> QED BY <1>1, <1>2, <1>3, InvHolds, PTL DEF Spec
=============================================================================
