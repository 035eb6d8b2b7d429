-------------------------- MODULE TapBucketsProofs --------------------------
(***************************************************************************)
(* Proofs about module TapBuckets, for every set of keys and any number of *)
(* client operations and faults.                                           *)
(***************************************************************************)
EXTENDS TapBuckets, TLAPS

\* The times records may bear: those of the writes before the tap and of the
\* ones during it.
Window == (StartTime - 1)..(StartTime + MaxWrites)

\* The low 32 bits of these times do not straddle the sign bit, so that the
\* subtraction in tap_buckets_thread does not overflow.
NoOverflow == \A a, b \in Window : EarlierOutcomes(a, b) = {a < b}

\* Every record and message bears a time of the window.
TimeInv ==
    /\ clock \in StartTime..(StartTime + MaxWrites)
    /\ \A n \in Node : \A k \in Key : store[n][k] = None \/ store[n][k].time \in Window
    /\ \A i \in DOMAIN stream : stream[i].time \in Window
    /\ pc \in {"get", "add", "replace"} => msg.time \in Window
    /\ \A o \in pending : o.time \in Window

\* CAS ids are not used twice; so the record that still has the id the Get
\* returned is the record that the Get returned.
CasInv ==
    /\ \A k \in Key : Local(k).cas < next_cas
    /\ cas < next_cas
    /\ ReplaceAllowed => Local(msg.key).time < msg.time

Processing == pc \in {"get", "add", "replace"}

\* Client writes during the tap are later than all that was there before it, and
\* a delete on its way to its second replica is known to be one.
OpsInv ==
    /\ \A k \in Key : before[k] =< StartTime
    /\ \A o \in pending : StartTime < o.time /\ (o.op = "delete" => o.key \in erased)

\* While no client has deleted key k, whatever is in the tapped server, in its
\* dump or in the thread's hands under k is no older than what the server held
\* as the tap began; and when memcached will not store the thread's record
\* because the one of the Get has been replaced, a client has just written it.
FloorInv(k) ==
    /\ before[k] =< store["remote"][k].time
    /\ \A i \in DOMAIN stream : stream[i].key = k => before[k] =< stream[i].time
    /\ Processing /\ msg.key = k => before[k] =< msg.time
    /\ pc \in {"add", "replace"} /\ msg.key = k =>
           AddAllowed \/ ReplaceAllowed \/ before[k] =< Local(k).time

\* Where the record of key k is: local, or still to be sent, or on its way, or
\* in the thread's hands.
Accounted(k) ==
    \/ before[k] =< Local(k).time
    \/ k \in unsent
    \/ \E i \in DOMAIN stream : stream[i].key = k
    \/ Processing /\ msg.key = k

\* A tap goes well to the end only if it has seen the end of the dump.
EndInv ==
    /\ pc = "start" => ~success
    /\ success /\ ~tap_open /\ ~cut => unsent = {}
    /\ Succeeded => stream = <<>> /\ ~tap_open

\* No record the tap is for is lost sight of, unless the thread has reported a
\* failure, memcached has refused the record or a client has deleted it.
DumpInv ==
    /\ OpsInv
    /\ \A k \in Key \ erased : FloorInv(k)
    /\ \A k \in Key \ (erased \cup refused) :
           Wanted(k) /\ (pc = "start" \/ success) => Accounted(k)
    /\ EndInv

LEMMA WindowFacts ==
    /\ StartTime \in Window /\ StartTime - 1 \in Window
    /\ \A t \in Window : t \in Nat \ {0}
    /\ \A t \in StartTime..(StartTime + MaxWrites) : t \in Window
BY TimeAssumption DEF Window

\* The times in use lie between two of the instants, 2^32 ms apart, at which the
\* sign of the flags changes from positive to negative, and they span less than
\* 2^31 ms.
OneEpoch ==
    /\ \E q \in Int : Window \subseteq (2 * Half * q - Half)..(2 * Half * q + Half - 1)
    /\ MaxWrites + 2 =< Half

LEMMA NoMultipleBetween ==
    ASSUME NEW m \in Nat \ {0}, NEW k \in Int, -m < m * k, m * k < m
    PROVE  k = 0
<1>1. k >= 1 => m * k >= m
  OBVIOUS
<1>2. k =< -1 => m * k =< -m
  OBVIOUS
<1> QED
  BY <1>1, <1>2

LEMMA RemainderIsUnique ==
    ASSUME NEW m \in Nat \ {0}, NEW q \in Int, NEW r \in 0..(m - 1)
    PROVE  (m * q + r) % m = r
<1> DEFINE x == m * q + r
<1>1. x \in Int /\ m * q \in Int
  OBVIOUS
<1>2. x = m * q + r
  BY Zenon
<1> HIDE DEF x
<1>3. x = m * (x \div m) + (x % m) /\ x % m \in 0..(m - 1) /\ x \div m \in Int
  BY <1>1
<1>4. PICK d \in Int, e \in 0..(m - 1) : x = m * d + e /\ e = x % m
  BY <1>3, Zenon
<1>5. m * (q - d) = m * q - m * d /\ m * d \in Int
  OBVIOUS
<1>6. m * (q - d) = e - r
  BY <1>1, <1>2, <1>4, <1>5
<1>7. -m < m * (q - d) /\ m * (q - d) < m
  BY <1>6
<1>8. q - d = 0
  BY <1>7, NoMultipleBetween
<1>9. x % m = r
  BY <1>4, <1>6, <1>8
<1> QED
  BY <1>9, Zenon DEF x

\* (int32_t)flags is the time counted from the middle of its epoch.
LEMMA SignedCounts ==
    ASSUME NEW q \in Int, NEW d \in (-Half)..(Half - 1)
    PROVE  Signed(2 * Half * q + d) = d
<1> DEFINE m == 2 * Half
<1>0. m \in Nat \ {0} /\ m = Half + Half /\ Half \in Nat \ {0}
  BY TimeAssumption
<1>1. CASE d >= 0
  <2>1. d \in 0..(m - 1)
    BY <1>0, <1>1
  <2>2. (m * q + d) % m = d
    BY <1>0, <2>1, RemainderIsUnique, Zenon
  <2> QED
    BY <1>0, <1>1, <2>2 DEF Signed
<1>2. CASE d < 0
  <2>1. m + d \in 0..(m - 1) /\ m + d >= Half /\ (m + d) - m = d
    BY <1>0, <1>2
  <2>2. (m * (q - 1) + (m + d)) % m = m + d
    <3>1. q - 1 \in Int
      OBVIOUS
    <3> HIDE DEF m
    <3> QED BY <1>0, <2>1, <3>1, RemainderIsUnique, Zenon
  <2>3. m * (q - 1) + (m + d) = m * q + d
    <3>1. m * (q - 1) = m * q - m /\ m * q \in Int
      BY <1>0
    <3> HIDE DEF m
    <3> QED
      BY <1>0, <3>1
  <2>4. (m * q + d) % m = m + d
    BY <2>2, <2>3, Zenon
  <2> QED
    BY <1>0, <2>1, <2>4 DEF Signed
<1> QED
  BY <1>1, <1>2

\* Within one epoch the subtraction of signed flags in tap_buckets_thread does not
\* overflow and tells which of two records is the earlier.
THEOREM FlagsOrderTimes ==
    ASSUME OneEpoch
    PROVE  NoOverflow
<1>1. PICK q \in Int : Window \subseteq (2 * Half * q - Half)..(2 * Half * q + Half - 1)
  BY Zenon DEF OneEpoch
<1>2. PICK z \in Int : z = 2 * Half * q
  BY TimeAssumption
<1>3. ASSUME NEW t \in Window PROVE t \in Int /\ Signed(t) = t - z
  <2>1. t \in (z - Half)..(z + Half - 1) /\ t \in Int
    BY <1>1, <1>2
  <2>2. t - z \in (-Half)..(Half - 1) /\ z + (t - z) = t
    BY <2>1, TimeAssumption
  <2> QED
    BY <1>2, <2>1, <2>2, SignedCounts, Zenon
<1>4. ASSUME NEW a \in Window, NEW b \in Window PROVE EarlierOutcomes(a, b) = {a < b}
  <2>1. Signed(a) = a - z /\ Signed(b) = b - z /\ a \in Int /\ b \in Int
    BY <1>3, Zenon
  <2>2. Signed(a) - Signed(b) = a - b
    BY <2>1
  <2>3. a - b \in (-Half)..(Half - 1)
    BY TimeAssumption DEF Window, OneEpoch
  <2>4. (a - b < 0) = (a < b)
    BY <2>1
  <2> QED
    BY <2>2, <2>3, <2>4, Zenon DEF EarlierOutcomes
<1> QED
  BY <1>4, Zenon DEF NoOverflow

LEMMA InitInv == Init => TypeOK /\ TimeInv /\ CasInv
<1> SUFFICES ASSUME Init PROVE TypeOK /\ TimeInv /\ CasInv
  BY Zenon
<1>0. /\ next_cas = 2 /\ clock = StartTime /\ pending = {}
      /\ unsent = {k \in Key : store["remote"][k].time # 0}
      /\ stream = <<>> /\ tap_open = FALSE /\ local_open = FALSE
      /\ pc = "start" /\ msg = NoMessage /\ cas = 0 /\ success = FALSE
      /\ erased = {} /\ cut = FALSE /\ refused = {} /\ faults = 0
  BY Zenon DEF Init
<1>1. PICK times \in [Node -> [Key -> {0, StartTime - 1, StartTime}]] :
           /\ store = [n \in Node |-> [k \in Key |->
                          [time |-> times[n][k],
                           cas |-> IF n = "local" /\ times[n][k] # 0 THEN 1 ELSE 0]]]
           /\ before = times["remote"]
  BY Zenon DEF Init
<1>2. \A n \in Node : \A k \in Key :
          /\ times[n][k] \in {0, StartTime - 1, StartTime} /\ times[n][k] \in Nat
          /\ store[n][k].time = times[n][k]
          /\ store[n][k].cas \in {0, 1}
          /\ times[n][k] = 0 => store[n][k] = None
  BY <1>1, TimeAssumption DEF None
<1>3. TypeOK
  <2>1. store \in [Node -> [Key -> Record]]
    <3>1. ASSUME NEW n \in Node, NEW k \in Key
          PROVE  [time |-> times[n][k],
                  cas |-> IF n = "local" /\ times[n][k] # 0 THEN 1 ELSE 0] \in Record
      <4>1. 0 \in Nat /\ 1 \in Nat
        OBVIOUS
      <4> QED BY <1>2, <4>1, Zenon DEF Record
    <3> QED BY <1>1, <3>1, Zenon
  <2>2. before \in [Key -> Nat]
    BY <1>1, TimeAssumption DEF Node
  <2>3. stream \in Seq(Mutate)
    BY <1>0
  <2>4. faults \in 0..MaxFaults
    BY <1>0, TimeAssumption
  <2> QED
    <3>1. unsent \subseteq Key
      BY <1>0, Zenon
    <3>2. next_cas \in Nat \ {0} /\ clock \in Nat /\ cas \in Nat
      BY <1>0, TimeAssumption
    <3> QED
      BY <1>0, <2>1, <2>2, <2>3, <2>4, <3>1, <3>2, Zenon DEF TypeOK
<1>4. TimeInv
  <2>1. clock \in StartTime..(StartTime + MaxWrites)
    BY <1>0, TimeAssumption
  <2>2. \A n \in Node : \A k \in Key : store[n][k] = None \/ store[n][k].time \in Window
    BY <1>2, WindowFacts
  <2> QED
    BY <1>0, <2>1, <2>2 DEF TimeInv
<1>5. CasInv
  BY <1>0, <1>2 DEF CasInv, Local, ReplaceAllowed, Node
<1> QED
  BY <1>3, <1>4, <1>5, Zenon

\* A Set or Delete keeps the stores well formed.
LEMMA StoreType ==
    ASSUME TypeOK, TimeInv, NEW op \in {"set", "delete"}, NEW k \in Key,
           NEW time \in Window, NEW node \in Node, Store(op, k, time, node)
    PROVE  /\ store' \in [Node -> [Key -> Record]]
           /\ next_cas' \in Nat \ {0} /\ next_cas =< next_cas'
           /\ \A n \in Node : \A j \in Key :
                  store'[n][j] = None \/ store'[n][j].time \in Window
<1> USE DEF TypeOK, Record
<1>1. time \in Nat
  BY WindowFacts, Zenon
<1>2. None \in Record /\ [time |-> time, cas |-> IF node = "local" THEN next_cas ELSE 0] \in Record
  BY <1>1, Zenon DEF None
<1>3. next_cas' \in Nat \ {0} /\ next_cas =< next_cas'
  BY DEF Store
<1>4. PICK r \in Record : /\ store' = [store EXCEPT ![node][k] = r]
                          /\ r = None \/ r.time = time
  BY <1>2, Zenon DEF Store
<1>5. store' \in [Node -> [Key -> Record]]
  BY <1>4, Zenon
<1>6. \A n \in Node : \A j \in Key :
          store'[n][j] = IF n = node /\ j = k THEN r ELSE store[n][j]
  BY <1>4, Zenon
<1> QED
  BY <1>3, <1>4, <1>5, <1>6 DEF TimeInv

LEMMA StreamFacts ==
    ASSUME TypeOK, stream # <<>>
    PROVE  /\ Tail(stream) \in Seq(Mutate) /\ Head(stream) \in Mutate
           /\ Head(stream) = stream[1] /\ 1 \in DOMAIN stream
           /\ \A i \in DOMAIN Tail(stream) : i + 1 \in DOMAIN stream /\ Tail(stream)[i] = stream[i + 1]
BY DEF TypeOK

LEMMA NextTypeOK ==
    ASSUME TypeOK, TimeInv, [Next]_vars
    PROVE  TypeOK' /\ TimeInv'
<1> USE DEF thread, connection, clients
<1>0. Fault => faults' \in 0..MaxFaults
  BY TimeAssumption DEF Fault, TypeOK
<1>1. ASSUME NEW k \in Key, SendMutate(k) PROVE TypeOK' /\ TimeInv'
  <2>1. CASE store["remote"][k] = None
    BY <1>1, <2>1, Zenon DEF SendMutate, TypeOK, TimeInv
  <2>2. CASE store["remote"][k] # None
    <3> DEFINE m == [key |-> k, time |-> store["remote"][k].time]
    <3>1. m \in Mutate /\ m.time \in Window
      BY <2>2, Zenon DEF TypeOK, TimeInv, Node, Record, Mutate
    <3>2. stream' = Append(stream, m)
      BY <1>1, <2>2, Zenon DEF SendMutate
    <3> HIDE DEF m
    <3>3. stream' \in Seq(Mutate) /\ \A i \in DOMAIN stream' : stream'[i].time \in Window
      BY <3>1, <3>2 DEF TypeOK, TimeInv
    <3> QED
      BY <1>1, <3>3, Zenon DEF SendMutate, TypeOK, TimeInv
  <2> QED
    BY <2>1, <2>2, Zenon
<1>2. CASE CloseTap
  BY <1>2, Zenon DEF CloseTap, TypeOK, TimeInv
<1>3. CASE ServerExits
  BY <1>0, <1>3, Zenon DEF ServerExits, TypeOK, TimeInv
<1>4. CASE Connect
  BY <1>4, Zenon DEF Connect, TypeOK, TimeInv
<1>5. CASE ConnectFails
  BY <1>0, <1>5, Zenon DEF ConnectFails, TypeOK, TimeInv
<1>6. CASE SendTapFails
  BY <1>0, <1>6, Zenon DEF SendTapFails, TypeOK, TimeInv
<1>7. CASE RecvMutate
  BY <1>7, StreamFacts, Zenon DEF RecvMutate, TypeOK, TimeInv
<1>8. CASE RecvDisconnected
  BY <1>8, Zenon DEF RecvDisconnected, TypeOK, TimeInv
<1>9. CASE RecvError
  BY <1>0, <1>9, Zenon DEF RecvError, TypeOK, TimeInv
<1>10. CASE GetLocal
  <2>1. pc' \in {"add", "replace", "recv"} /\ cas' \in {cas, Local(msg.key).cas}
    BY <1>10, Zenon DEF GetLocal
  <2>2. msg \in Mutate /\ msg.key \in Key
    BY <1>10, Zenon DEF GetLocal, TypeOK, Mutate
  <2>3. cas' \in Nat
    BY <2>1, <2>2 DEF TypeOK, Local, Node, Record
  <2>4. /\ UNCHANGED <<store, next_cas, clients, connection, local_open, msg,
                       success, before, refused, faults>>
        /\ pc = "get"
    BY <1>10, Zenon DEF GetLocal
  <2> QED
    BY <2>1, <2>2, <2>3, <2>4, Zenon DEF TypeOK, TimeInv
<1>11. CASE GetLocalFails
  BY <1>0, <1>11, Zenon DEF GetLocalFails, TypeOK, TimeInv
<1>12. CASE AddOrReplace
  BY <1>12, StoreType, Zenon DEF AddOrReplace, TypeOK, TimeInv, Mutate, Node
<1>13. CASE StoreRefused
  BY <1>0, <1>13, Zenon DEF StoreRefused, TypeOK, TimeInv, Mutate
<1>14. CASE LocalLost
  <2>1. faults' \in 0..MaxFaults
    BY <1>0, <1>14, Zenon DEF LocalLost, TypeOK
  <2>2. /\ pc \in {"get", "add", "replace"} /\ pc' = "recv"
        /\ local_open' = FALSE /\ success' = FALSE
        /\ UNCHANGED <<clients, connection, msg, cas, before, refused>>
        /\ UNCHANGED <<store, next_cas>> \/ Store("set", msg.key, msg.time, "local")
    BY <1>14, Zenon DEF LocalLost
  <2>3. msg.key \in Key /\ msg.time \in Window
    BY <2>2, Zenon DEF TypeOK, TimeInv, Mutate
  <2>4. /\ store' \in [Node -> [Key -> Record]] /\ next_cas' \in Nat \ {0}
        /\ \A n \in Node : \A j \in Key :
                  store'[n][j] = None \/ store'[n][j].time \in Window
    <3>1. CASE UNCHANGED <<store, next_cas>>
      BY <3>1, Zenon DEF TypeOK, TimeInv
    <3>2. CASE Store("set", msg.key, msg.time, "local")
      BY <2>3, <3>2, StoreType, Zenon DEF Node
    <3> QED
      BY <2>2, <3>1, <3>2, Zenon
  <2> QED
    BY <2>1, <2>2, <2>4, Zenon DEF TypeOK, TimeInv
<1>15. ASSUME NEW op \in {"set", "delete"}, NEW k \in BucketKey \ TagKey,
              NEW node \in Node, ClientOp(op, k, node)
       PROVE  TypeOK' /\ TimeInv'
  <2>1. k \in Key /\ clock' \in StartTime..(StartTime + MaxWrites) /\ clock' \in Nat
    BY <1>15, KeyAssumption, TimeAssumption DEF ClientOp, TimeInv
  <2>2. clock' \in Window
    BY <2>1, WindowFacts, Zenon
  <2>3. PICK time : time = clock'
    BY Zenon
  <2>4. Store(op, k, time, node)
    BY <1>15, <2>3, Zenon DEF ClientOp
  <2>5. /\ store' \in [Node -> [Key -> Record]] /\ next_cas' \in Nat \ {0}
        /\ \A n \in Node : \A j \in Key :
                  store'[n][j] = None \/ store'[n][j].time \in Window
    BY <2>1, <2>2, <2>3, <2>4, StoreType, Zenon
  <2>6. [op |-> op, key |-> k, time |-> clock', at |-> Other(node)] \in Operation
    BY <2>1, Zenon DEF Operation, Other, Node
  <2>7. pending' \subseteq Operation /\ \A o \in pending' : o.time \in Window
    BY <1>15, <2>2, <2>6 DEF ClientOp, TypeOK, TimeInv
  <2> QED
    BY <1>15, <2>1, <2>5, <2>7, Zenon DEF ClientOp, TypeOK, TimeInv
<1>16. ASSUME NEW o \in pending, ClientOpReachesOther(o) PROVE TypeOK' /\ TimeInv'
  <2>1. /\ o.op \in {"set", "delete"} /\ o.key \in Key /\ o.at \in Node
        /\ o.time \in Window /\ Store(o.op, o.key, o.time, o.at)
    BY <1>16, Zenon DEF ClientOpReachesOther, TypeOK, TimeInv, Operation
  <2>2. /\ store' \in [Node -> [Key -> Record]] /\ next_cas' \in Nat \ {0}
        /\ \A n \in Node : \A j \in Key :
                  store'[n][j] = None \/ store'[n][j].time \in Window
    BY <2>1, StoreType, Zenon
  <2>3. pending' \subseteq Operation /\ \A p \in pending' : p.time \in Window
    BY <1>16, Zenon DEF ClientOpReachesOther, TypeOK, TimeInv
  <2> QED
    BY <1>16, <2>2, <2>3, Zenon DEF ClientOpReachesOther, TypeOK, TimeInv
<1>17. CASE UNCHANGED vars
  BY <1>17, Zenon DEF vars, TypeOK, TimeInv
<1> QED
  BY <1>1, <1>2, <1>3, <1>4, <1>5, <1>6, <1>7, <1>8, <1>9, <1>10, <1>11, <1>12,
     <1>13, <1>14, <1>15, <1>16, <1>17, Zenon
     DEF Next, TapStep, ServerStep

\* A Set of the local memcached gives the record an id that was never used.
LEMMA StoreCas ==
    ASSUME TypeOK, CasInv, NEW op \in {"set", "delete"}, NEW k \in Key, NEW time,
           NEW node \in Node, Store(op, k, time, node)
    PROVE  \A j \in Key :
               /\ Local(j)'.cas < next_cas'
               /\ \/ Local(j)' = Local(j)
                  \/ j = k /\ Local(j)' = None
                  \/ j = k /\ Local(j)'.cas = next_cas /\ Local(j)'.time = time
<1> USE DEF Local, Node
<1>1. PICK r : /\ store' = [store EXCEPT ![node][k] = r]
               /\ \/ r = None /\ next_cas' = next_cas
                  \/ /\ node = "local" /\ r = [time |-> time, cas |-> next_cas]
                     /\ next_cas' = next_cas + 1
                  \/ node = "remote" /\ next_cas' = next_cas
  BY Zenon DEF Store
<1>2. \A j \in Key : Local(j)' = IF node = "local" /\ j = k THEN r ELSE Local(j)
  BY <1>1, Zenon DEF TypeOK
<1>3. next_cas \in Nat \ {0} /\ next_cas =< next_cas'
  BY <1>1 DEF TypeOK
<1>4. \A j \in Key : Local(j).cas \in Nat /\ Local(j).cas < next_cas
  BY Zenon DEF TypeOK, CasInv, Record
<1> HIDE DEF Local
<1>5. None.cas = 0
  BY Zenon DEF None
<1>6. CASE node = "local" /\ r = None
  BY <1>1, <1>2, <1>3, <1>4, <1>5, <1>6
<1>7. CASE node = "local" /\ r = [time |-> time, cas |-> next_cas] /\ next_cas' = next_cas + 1
  BY <1>2, <1>3, <1>4, <1>7
<1>8. CASE node = "remote"
  <2>1. next_cas' = next_cas
    BY <1>1, <1>8, Zenon
  <2> QED
    BY <1>2, <1>4, <1>8, <2>1, Zenon
<1> QED
  BY <1>1, <1>6, <1>7, <1>8, Zenon

LEMMA NextCasInv ==
    ASSUME NoOverflow, TypeOK, TimeInv, CasInv, [Next]_vars
    PROVE  CasInv'
<1> USE DEF thread, connection, clients
<1>1. ASSUME UNCHANGED <<store, next_cas, cas>>, pc' # "replace" \/ UNCHANGED <<pc, msg>>
      PROVE  CasInv'
  BY <1>1, Zenon DEF CasInv, ReplaceAllowed, Local
<1>2. ASSUME NEW op \in {"set", "delete"}, NEW k \in Key, NEW time, NEW node \in Node,
             Store(op, k, time, node), UNCHANGED cas,
             pc' # "replace" \/ UNCHANGED <<pc, msg>>
      PROVE  CasInv'
  <2>1. \A j \in Key :
               /\ Local(j)'.cas < next_cas'
               /\ \/ Local(j)' = Local(j)
                  \/ j = k /\ Local(j)' = None
                  \/ j = k /\ Local(j)'.cas = next_cas /\ Local(j)'.time = time
    BY <1>2, StoreCas, Zenon
  <2>2. cas' < next_cas' /\ cas < next_cas /\ cas \in Nat
    BY <1>2 DEF CasInv, TypeOK, Store
  <2>3. ASSUME ReplaceAllowed' PROVE (Local(msg.key).time < msg.time)'
    <3>1. pc = "replace" /\ msg' = msg /\ msg \in Mutate /\ msg.key \in Key
      BY <1>2, <2>3, Zenon DEF ReplaceAllowed, TypeOK, Mutate
    <3>2. Local(msg.key)' = Local(msg.key)
      BY <1>2, <2>1, <2>2, <2>3, <3>1 DEF ReplaceAllowed, TypeOK
    <3>3. ReplaceAllowed
      BY <1>2, <2>3, <3>1, <3>2, Zenon DEF ReplaceAllowed
    <3> QED
      BY <3>1, <3>2, <3>3, Zenon DEF CasInv
  <2> QED
    BY <2>1, <2>2, <2>3, Zenon DEF CasInv
<1>3. CASE ServerStep \/ ServerExits
  BY <1>1, <1>3, Zenon DEF ServerStep, SendMutate, CloseTap, ServerExits
<1>4. CASE Connect \/ ConnectFails \/ SendTapFails
  BY <1>1, <1>4, Zenon DEF Connect, ConnectFails, SendTapFails
<1>5. CASE RecvMutate \/ RecvDisconnected \/ RecvError
  BY <1>1, <1>5, Zenon DEF RecvMutate, RecvDisconnected, RecvError
<1>6. CASE GetLocal
  <2>1. UNCHANGED <<store, next_cas, msg>> /\ pc = "get"
    BY <1>6, Zenon DEF GetLocal
  <2>2. msg.key \in Key /\ msg.time \in Window
    BY <2>1, Zenon DEF TypeOK, TimeInv, Mutate
  <2>3. CASE pc' # "replace"
    BY <1>1, <1>6, <2>1, <2>3, Zenon DEF GetLocal
  <2>4. CASE pc' = "replace"
    <3>1. /\ Local(msg.key) # None /\ cas' = Local(msg.key).cas
          /\ TRUE \in EarlierOutcomes(Local(msg.key).time, msg.time)
      BY <1>6, <2>4, Zenon DEF GetLocal
    <3>2. Local(msg.key).time \in Window
      BY <2>2, <3>1, Zenon DEF TimeInv, Local, Node
    <3>3. Local(msg.key).time < msg.time
      BY <2>2, <3>1, <3>2, Zenon DEF NoOverflow
    <3> QED
      BY <2>1, <2>2, <3>1, <3>3, Zenon DEF CasInv, Local
  <2> QED
    BY <2>3, <2>4, Zenon
<1>7. CASE GetLocalFails \/ StoreRefused
  BY <1>1, <1>7, Zenon DEF GetLocalFails, StoreRefused
<1>8. CASE AddOrReplace \/ LocalLost
  <2>1. /\ pc \in {"get", "add", "replace"} /\ pc' = "recv" /\ cas' = cas
        /\ UNCHANGED <<store, next_cas>> \/ Store("set", msg.key, msg.time, "local")
    BY <1>8, Zenon DEF AddOrReplace, LocalLost
  <2>2. msg.key \in Key
    BY <2>1, Zenon DEF TypeOK, Mutate
  <2> QED
    BY <1>1, <1>2, <2>1, <2>2, Zenon DEF Node
<1>9. ASSUME NEW op \in {"set", "delete"}, NEW k \in BucketKey \ TagKey,
             NEW node \in Node, ClientOp(op, k, node)
      PROVE  CasInv'
  <2>1. PICK time : time = clock'
    BY Zenon
  <2> QED
    BY <1>2, <1>9, <2>1, KeyAssumption, Zenon DEF ClientOp
<1>10. ASSUME NEW o \in pending, ClientOpReachesOther(o) PROVE CasInv'
  BY <1>2, <1>10, Zenon DEF ClientOpReachesOther, TypeOK, Operation
<1>11. CASE UNCHANGED vars
  BY <1>1, <1>11, Zenon DEF vars
<1> QED
  BY <1>3, <1>4, <1>5, <1>6, <1>7, <1>8, <1>9, <1>10, <1>11, Zenon DEF Next, TapStep

\* What a Set or Delete changes: the one record, and a Set gives it its time.
LEMMA StoreTimes ==
    ASSUME TypeOK, NEW op \in {"set", "delete"}, NEW k \in Key, NEW time,
           NEW node \in Node, Store(op, k, time, node)
    PROVE  \A n \in Node : \A j \in Key :
               \/ store'[n][j] = store[n][j]
               \/ n = node /\ j = k /\ (op = "set" => store'[n][j].time = time)
<1> DEFINE r == IF op = "set"
                THEN [time |-> time, cas |-> IF node = "local" THEN next_cas ELSE 0] ELSE None
<1>1. store' = [store EXCEPT ![node][k] = r] /\ (op = "set" => r.time = time)
  BY Zenon DEF Store
<1> HIDE DEF r
<1>2. \A n \in Node : \A j \in Key :
          store'[n][j] = IF n = node /\ j = k THEN r ELSE store[n][j]
  BY <1>1, Zenon DEF TypeOK
<1> QED
  BY <1>1, <1>2

\* Times are numbers.
LEMMA TimesAreNumbers ==
    ASSUME TypeOK
    PROVE  \A k \in Key : /\ before[k] \in Nat
                          /\ Local(k).time \in Nat
                          /\ store["remote"][k].time \in Nat
BY Zenon DEF TypeOK, Local, Node, Record

LEMMA InitDumpInv == Init => DumpInv
<1> SUFFICES ASSUME Init PROVE DumpInv
  BY Zenon
<1>0. /\ pending = {} /\ stream = <<>> /\ pc = "start" /\ success = FALSE
      /\ unsent = {k \in Key : store["remote"][k].time # 0}
  BY Zenon DEF Init
<1>1. PICK times \in [Node -> [Key -> {0, StartTime - 1, StartTime}]] :
           /\ store = [n \in Node |-> [k \in Key |->
                          [time |-> times[n][k],
                           cas |-> IF n = "local" /\ times[n][k] # 0 THEN 1 ELSE 0]]]
           /\ before = times["remote"]
  BY Zenon DEF Init
<1>2. \A k \in Key : /\ before[k] \in {0, StartTime - 1, StartTime}
                     /\ store["remote"][k].time = before[k]
                     /\ Local(k).time \in {0, StartTime - 1, StartTime}
  BY <1>1, Zenon DEF Node, Local
<1>3. \A t \in {0, StartTime - 1, StartTime} : t \in Nat /\ t =< StartTime /\ t =< t /\ 0 =< t
  BY TimeAssumption
<1>4. ASSUME NEW k \in Key PROVE FloorInv(k) /\ Accounted(k)
  <2>1. before[k] =< before[k] /\ (before[k] # 0 \/ before[k] =< Local(k).time)
    BY <1>2, <1>3, Zenon
  <2> QED
    BY <1>0, <1>2, <2>1 DEF FloorInv, Accounted, Processing
<1>5. OpsInv /\ EndInv
  BY <1>0, <1>2, <1>3, Zenon DEF OpsInv, EndInv, Succeeded
<1> QED
  BY <1>4, <1>5, Zenon DEF DumpInv

\* The tapped server's steps.
LEMMA ServerDumpInv ==
    ASSUME TypeOK, DumpInv, ServerStep \/ ServerExits
    PROVE  DumpInv'
<1> USE DEF thread, connection, clients
<1>1. ASSUME NEW k \in Key, SendMutate(k) PROVE DumpInv'
  <2> DEFINE m == [key |-> k, time |-> store["remote"][k].time]
  <2>0. /\ tap_open /\ unsent' = unsent \ {k}
        /\ stream' = IF store["remote"][k] = None THEN stream ELSE Append(stream, m)
        /\ UNCHANGED <<store, pc, msg, cas, success, cut, tap_open, before, refused,
                       erased, pending>>
    BY <1>1, Zenon DEF SendMutate
  <2>1. m.key = k /\ m.time = store["remote"][k].time
    BY Zenon
  <2> HIDE DEF m
  <2>2. /\ \A i \in DOMAIN stream : i \in DOMAIN stream' /\ stream'[i] = stream[i]
        /\ \A i \in DOMAIN stream' :
               stream'[i] = m \/ (i \in DOMAIN stream /\ stream'[i] = stream[i])
        /\ store["remote"][k] # None => \E i \in DOMAIN stream' : stream'[i] = m
    <3>1. CASE store["remote"][k] = None
      BY <2>0, <3>1, Zenon
    <3>2. CASE store["remote"][k] # None
      <4>1. stream' = Append(stream, m) /\ stream \in Seq(Mutate)
        BY <2>0, <3>2, Zenon DEF TypeOK
      <4>2. m \in Mutate
        BY TimesAreNumbers, Zenon DEF m, Mutate
      <4>3. /\ Len(stream) \in Nat /\ DOMAIN stream = 1..Len(stream)
            /\ DOMAIN stream' = 1..(Len(stream) + 1) /\ stream'[Len(stream) + 1] = m
            /\ \A i \in 1..Len(stream) : stream'[i] = stream[i]
        BY <4>1, <4>2
      <4> QED
        BY <4>3
    <3> QED
      BY <3>1, <3>2, Zenon
  <2>3. store["remote"][k] = None /\ FloorInv(k) => before[k] =< Local(k).time
    BY TimesAreNumbers DEF FloorInv, None
  <2>4. ASSUME NEW j \in Key \ erased PROVE FloorInv(j)'
    <3>1. FloorInv(j)
      BY Zenon DEF DumpInv
    <3>2. \A i \in DOMAIN stream' : stream'[i].key = j => before[j] =< stream'[i].time
      BY <2>1, <2>2, <3>1, Zenon DEF FloorInv
    <3> QED
      BY <2>0, <3>1, <3>2, Zenon DEF FloorInv, Processing, AddAllowed, ReplaceAllowed, Local
  <2>5. ASSUME NEW j \in Key \ (erased \cup refused), Accounted(j) PROVE Accounted(j)'
    <3>1. CASE j # k
      BY <2>0, <2>2, <2>5, <3>1, Zenon DEF Accounted, Processing, Local
    <3>2. CASE j = k
      <4>1. FloorInv(k)
        BY <3>2, Zenon DEF DumpInv
      <4> QED
        BY <2>0, <2>1, <2>2, <2>3, <3>2, <4>1, Zenon DEF Accounted, Local
    <3> QED
      BY <3>1, <3>2, Zenon
  <2> QED
    BY <2>0, <2>4, <2>5, Zenon DEF DumpInv, OpsInv, EndInv, Succeeded
<1>2. CASE CloseTap \/ ServerExits
  <2>0. /\ tap_open /\ ~tap_open' /\ (unsent = {} \/ cut')
        /\ UNCHANGED <<store, stream, unsent, pc, msg, cas, success, before, refused,
                       erased, pending>>
    BY <1>2, Zenon DEF CloseTap, ServerExits
  <2>1. \A k : (FloorInv(k) => FloorInv(k)') /\ (Accounted(k) => Accounted(k)')
    BY <2>0, Zenon DEF FloorInv, Accounted, Processing, AddAllowed, ReplaceAllowed, Local
  <2> QED
    BY <2>0, <2>1, Zenon DEF DumpInv, OpsInv, EndInv, Succeeded
<1> QED
  BY <1>1, <1>2, Zenon DEF ServerStep

\* The thread's steps, up to the choice between Add and Replace.
LEMMA RecvDumpInv ==
    ASSUME TypeOK, DumpInv,
           Connect \/ ConnectFails \/ SendTapFails
               \/ RecvMutate \/ RecvDisconnected \/ RecvError
    PROVE  DumpInv'
<1> USE DEF thread, connection, clients
<1>1. CASE Connect \/ ConnectFails \/ SendTapFails \/ RecvDisconnected \/ RecvError
  <2>0. /\ pc \in {"start", "recv"} /\ pc' \in {"recv", "done"}
        /\ success' => pc = "start" \/ success
        /\ success' /\ ~tap_open' /\ ~cut' => success /\ ~tap_open /\ ~cut
        /\ pc' = "done" /\ success' => success /\ (pc = "recv" => stream = <<>> /\ ~tap_open')
        /\ UNCHANGED <<store, stream, unsent, before, refused, erased, pending>>
    BY <1>1 DEF Connect, ConnectFails, SendTapFails, RecvDisconnected, RecvError
  <2>1. ~Processing /\ ~Processing' /\ pc' \notin {"add", "replace"} /\ pc' # "start"
    BY <2>0, Zenon DEF Processing
  <2>2. \A k : (FloorInv(k) => FloorInv(k)') /\ (Accounted(k) => Accounted(k)')
    BY <2>0, <2>1, Zenon DEF FloorInv, Accounted, Local
  <2> QED
    BY <2>0, <2>1, <2>2, Zenon DEF DumpInv, OpsInv, EndInv, Succeeded
<1>2. CASE RecvMutate
  <2>0. /\ pc = "recv" /\ stream # <<>> /\ stream' = Tail(stream)
        /\ IF Wanted(Head(stream).key) THEN pc' = "get" /\ msg' = Head(stream)
                                       ELSE pc' = pc /\ msg' = msg
        /\ UNCHANGED <<store, unsent, success, cut, tap_open, before, refused, erased, pending>>
    BY <1>2, Zenon DEF RecvMutate
  <2>1. /\ \A i \in DOMAIN stream' : \E n \in DOMAIN stream : stream'[i] = stream[n]
        /\ \A n \in DOMAIN stream :
               stream[n] = Head(stream) \/ \E i \in DOMAIN stream' : stream'[i] = stream[n]
        /\ \E n \in DOMAIN stream : stream[n] = Head(stream)
    <3>1. stream \in Seq(Mutate) /\ stream # <<>> /\ stream' = Tail(stream)
      BY <2>0, Zenon DEF TypeOK
    <3>2. ASSUME NEW n \in DOMAIN stream, n # 1
          PROVE  n - 1 \in DOMAIN stream' /\ stream'[n - 1] = stream[n]
      BY <3>1, <3>2
    <3>3. 1 \in DOMAIN stream /\ stream[1] = Head(stream)
      BY <3>1
    <3>4. \A i \in DOMAIN stream' : i + 1 \in DOMAIN stream /\ stream'[i] = stream[i + 1]
      BY <3>1
    <3> QED
      BY <3>2, <3>3, <3>4, Zenon
  <2>2. ~Processing /\ pc' \notin {"add", "replace", "start", "done"} /\ pc \notin {"start", "done"}
    BY <2>0, Zenon DEF Processing
  <2>3. ASSUME NEW k \in Key, FloorInv(k) PROVE FloorInv(k)'
    <3>1. \A n \in DOMAIN stream : stream[n].key = k => before[k] =< stream[n].time
      BY <2>3, Zenon DEF FloorInv
    <3>2. \A i \in DOMAIN stream' : stream'[i].key = k => before[k] =< stream'[i].time
      <4>1. ASSUME NEW i \in DOMAIN stream'
            PROVE  stream'[i].key = k => before[k] =< stream'[i].time
        <5>1. PICK n \in DOMAIN stream : stream'[i] = stream[n]
          BY <2>1, Zenon
        <5> QED BY <3>1, <5>1, Zenon
      <4> QED BY <4>1, Zenon
    <3>3. Head(stream).key = k => before[k] =< Head(stream).time
      BY <2>1, <3>1, Zenon
    <3>4. Processing' => msg' = Head(stream)
      BY <2>0, <2>2, Zenon DEF Processing
    <3> QED
      BY <2>0, <2>2, <2>3, <3>2, <3>3, <3>4, Zenon DEF FloorInv
  <2>4. ASSUME NEW k \in Key, Wanted(k), Accounted(k) PROVE Accounted(k)'
    <3>1. CASE \E n \in DOMAIN stream : stream[n].key = k
      <4>1. CASE Head(stream).key = k
        <5>1. pc' = "get" /\ msg' = Head(stream)
          BY <2>0, <2>4, <4>1
        <5> QED
          BY <4>1, <5>1, Zenon DEF Accounted, Processing
      <4>2. CASE Head(stream).key # k
        BY <2>1, <3>1, <4>2, Zenon DEF Accounted
      <4> QED
        BY <4>1, <4>2, Zenon
    <3>2. CASE ~\E n \in DOMAIN stream : stream[n].key = k
      BY <2>0, <2>2, <2>4, <3>2, Zenon DEF Accounted, Local
    <3> QED
      BY <3>1, <3>2, Zenon
  <2> QED
    BY <2>0, <2>2, <2>3, <2>4, Zenon DEF DumpInv, OpsInv, EndInv, Succeeded
<1> QED
  BY <1>1, <1>2, Zenon

\* The thread's steps with the local memcached.
LEMMA LocalDumpInv ==
    ASSUME NoOverflow, TypeOK, TimeInv, DumpInv,
           GetLocal \/ GetLocalFails \/ AddOrReplace \/ StoreRefused \/ LocalLost
    PROVE  DumpInv'
<1> USE DEF thread, connection, clients
<1>0. /\ Processing /\ msg.key \in Key /\ msg.time \in Window
      /\ pc \notin {"start", "done"} /\ pc' \notin {"start", "done"}
      /\ success' => success
      /\ UNCHANGED <<stream, unsent, cut, tap_open, before, erased, pending, msg>>
  <2>1. pc \in {"get", "add", "replace"} /\ pc' \in {"add", "replace", "recv"}
    BY Zenon DEF GetLocal, GetLocalFails, AddOrReplace, StoreRefused, LocalLost
  <2>2. success' => success
    BY Zenon DEF GetLocal, GetLocalFails, AddOrReplace, StoreRefused, LocalLost
  <2>3. UNCHANGED <<stream, unsent, cut, tap_open, before, erased, pending, msg>>
    BY Zenon DEF GetLocal, GetLocalFails, AddOrReplace, StoreRefused, LocalLost
  <2> QED
    BY <2>1, <2>2, <2>3, Zenon DEF TypeOK, TimeInv, Processing, Mutate
<1>1. OpsInv' /\ EndInv'
  BY <1>0, Zenon DEF DumpInv, OpsInv, EndInv, Succeeded
<1>2. \A k \in Key \ erased : FloorInv(k)
  BY Zenon DEF DumpInv
<1>3. CASE GetLocal
  <2>0. UNCHANGED <<store, refused, success>>
    BY <1>3, Zenon DEF GetLocal
  <2>1. \/ pc' = "add" /\ AddAllowed'
        \/ pc' = "replace" /\ ReplaceAllowed'
        \/ pc' = "recv" /\ msg.time =< Local(msg.key).time
    <3>1. CASE Local(msg.key) = None
      BY <1>0, <1>3, <2>0, <3>1, Zenon DEF GetLocal, AddAllowed, Local
    <3>2. CASE Local(msg.key) # None
      <4>1. Local(msg.key).time \in Window
        BY <1>0, <3>2, Zenon DEF TimeInv, Local, Node
      <4>2. EarlierOutcomes(Local(msg.key).time, msg.time) = {Local(msg.key).time < msg.time}
        BY <1>0, <4>1, Zenon DEF NoOverflow
      <4>3. IF Local(msg.key).time < msg.time
            THEN pc' = "replace" /\ cas' = Local(msg.key).cas ELSE pc' = "recv"
        BY <1>3, <3>2, <4>2, Zenon DEF GetLocal
      <4>4. Local(msg.key).time < msg.time \/ msg.time =< Local(msg.key).time
        BY <1>0, <4>1, WindowFacts
      <4>5. Local(msg.key)' = Local(msg.key) /\ msg' = msg
        BY <1>0, <2>0, Zenon DEF Local
      <4> QED
        BY <3>2, <4>3, <4>4, <4>5, Zenon DEF ReplaceAllowed
    <3> QED
      BY <3>1, <3>2, Zenon
  <2>2. ASSUME NEW k \in Key \ erased PROVE FloorInv(k)'
    BY <1>0, <1>2, <2>0, <2>1, Zenon DEF FloorInv
  <2>3. ASSUME NEW k \in Key \ erased, Accounted(k) PROVE Accounted(k)'
    <3>1. CASE k = msg.key /\ pc' = "recv"
      <4>1. before[k] =< msg.time /\ msg.time =< Local(k).time
        BY <1>0, <1>2, <2>1, <3>1, Zenon DEF FloorInv
      <4>2. before[k] \in Nat /\ msg.time \in Nat /\ Local(k).time \in Nat
        BY <1>0, TimesAreNumbers, WindowFacts, Zenon
      <4>3. before[k] =< Local(k).time
        BY <4>1, <4>2
      <4> QED
        BY <1>0, <2>0, <4>3, Zenon DEF Accounted, Local
    <3>2. CASE k # msg.key \/ Processing'
      BY <1>0, <2>0, <2>3, <3>2, Zenon DEF Accounted, Local
    <3> QED
      BY <2>1, <3>1, <3>2, Zenon DEF Processing
  <2> QED
    BY <1>0, <1>1, <2>0, <2>2, <2>3, Zenon DEF DumpInv
<1>4. CASE GetLocalFails \/ LocalLost
  <2>0. /\ success' = FALSE /\ pc' = "recv" /\ refused' = refused
        /\ UNCHANGED store \/ Store("set", msg.key, msg.time, "local")
    BY <1>4, Zenon DEF GetLocalFails, LocalLost
  <2>1. \A k \in Key : store'["remote"][k] = store["remote"][k]
    BY <1>0, <2>0, StoreTimes DEF Node
  <2>2. ASSUME NEW k \in Key \ erased PROVE FloorInv(k)'
    BY <1>0, <1>2, <2>0, <2>1, Zenon DEF FloorInv, Processing
  <2> QED
    BY <1>0, <1>1, <2>0, <2>2, Zenon DEF DumpInv
<1>5. CASE StoreRefused
  <2>0. /\ pc' = "recv" /\ refused' = refused \cup {msg.key}
        /\ UNCHANGED <<store, success>>
    BY <1>5, Zenon DEF StoreRefused
  <2>1. ASSUME NEW k \in Key \ erased PROVE FloorInv(k)'
    BY <1>0, <1>2, <2>0, Zenon DEF FloorInv, Processing
  <2>2. ASSUME NEW k \in Key \ erased, k # msg.key, Accounted(k) PROVE Accounted(k)'
    BY <1>0, <2>0, <2>2, Zenon DEF Accounted, Local
  <2> QED
    BY <1>0, <1>1, <2>0, <2>1, <2>2, Zenon DEF DumpInv
<1>6. CASE AddOrReplace
  <2>0. /\ pc \in {"add", "replace"} /\ pc' = "recv" /\ UNCHANGED <<refused, success>>
        /\ IF AddAllowed \/ ReplaceAllowed THEN Store("set", msg.key, msg.time, "local")
                                            ELSE UNCHANGED store
    BY <1>6, Zenon DEF AddOrReplace
  <2>1. \A k \in Key : /\ store'["remote"][k] = store["remote"][k]
                       /\ k # msg.key => Local(k)' = Local(k)
    BY <1>0, <2>0, StoreTimes DEF Node, Local
  <2>2. AddAllowed \/ ReplaceAllowed => Local(msg.key)'.time = msg.time
    <3>1. ASSUME Store("set", msg.key, msg.time, "local")
          PROVE  Local(msg.key)'.time = msg.time
      <4>1. store' = [store EXCEPT !["local"][msg.key] = [time |-> msg.time, cas |-> next_cas]]
        BY <3>1, Zenon DEF Store
      <4> QED
        BY <1>0, <4>1, Zenon DEF Local, TypeOK, Node
    <3> QED
      BY <2>0, <3>1, Zenon
  <2>3. ASSUME NEW k \in Key \ erased PROVE FloorInv(k)'
    BY <1>0, <1>2, <2>0, <2>1, Zenon DEF FloorInv, Processing
  <2>4. ASSUME NEW k \in Key \ erased, Accounted(k) PROVE Accounted(k)'
    <3>1. CASE k = msg.key
      <4>1. FloorInv(k)
        BY <1>2, Zenon
      <4>2. CASE AddAllowed \/ ReplaceAllowed
        BY <1>0, <2>2, <3>1, <4>1, <4>2, Zenon DEF FloorInv, Accounted
      <4>3. CASE ~(AddAllowed \/ ReplaceAllowed)
        BY <1>0, <2>0, <3>1, <4>1, <4>3, Zenon DEF FloorInv, Accounted, Local
      <4> QED
        BY <4>2, <4>3, Zenon
    <3>2. CASE k # msg.key
      BY <1>0, <2>1, <2>4, <3>2, Zenon DEF Accounted
    <3> QED
      BY <3>1, <3>2, Zenon
  <2> QED
    BY <1>0, <1>1, <2>0, <2>3, <2>4, Zenon DEF DumpInv
<1> QED
  BY <1>3, <1>4, <1>5, <1>6, Zenon

\* What a client writes during the tap is later than anything before it, so it
\* makes up for the record of the dump.
LEMMA ClientDumpInv ==
    ASSUME TypeOK, DumpInv, NEW op \in {"set", "delete"}, NEW k \in Key,
           NEW time \in Nat, StartTime < time, NEW node \in Node, Store(op, k, time, node),
           op = "delete" => k \in erased', erased \subseteq erased', OpsInv',
           UNCHANGED <<connection, thread, before, refused>>
    PROVE  DumpInv'
<1> USE DEF thread, connection
<1>1. before[k] =< time
  <2>1. before[k] =< StartTime /\ before[k] \in Nat
    BY TimesAreNumbers, Zenon DEF DumpInv, OpsInv
  <2> QED
    BY <2>1, TimeAssumption
<1>2. \A n \in Node : \A j \in Key \ erased' :
          store'[n][j] = store[n][j] \/ before[j] =< store'[n][j].time
  BY <1>1, StoreTimes
<1>3. "local" \in Node /\ "remote" \in Node
  BY Zenon DEF Node
<1>4. ASSUME NEW j \in Key \ erased' PROVE FloorInv(j)'
  <2>1. FloorInv(j)
    BY Zenon DEF DumpInv
  <2>2. UNCHANGED <<before, stream, pc, msg, cas>>
    BY Zenon
  <2>3. store'["remote"][j] = store["remote"][j] \/ before[j] =< store'["remote"][j].time
    BY <1>2, <1>3, Zenon
  <2>4. Local(j)' = Local(j) \/ before[j] =< Local(j)'.time
    BY <1>2, <1>3, Zenon DEF Local
  <2>5. Local(j)' = Local(j) /\ msg.key = j =>
            (AddAllowed => AddAllowed') /\ (ReplaceAllowed => ReplaceAllowed')
    BY <2>2, Zenon DEF AddAllowed, ReplaceAllowed
  <2> QED
    BY <2>1, <2>2, <2>3, <2>4, <2>5, Zenon DEF FloorInv, Processing
<1>5. ASSUME NEW j \in Key \ erased', Accounted(j) PROVE Accounted(j)'
  <2>1. Local(j)' = Local(j) \/ before[j] =< Local(j)'.time
    BY <1>2, <1>3, Zenon DEF Local
  <2> QED
    BY <1>5, <2>1, Zenon DEF Accounted, Processing
<1>6. EndInv'
  BY Zenon DEF DumpInv, EndInv, Succeeded
<1> QED
  BY <1>4, <1>5, <1>6, Zenon DEF DumpInv

LEMMA NextDumpInv ==
    ASSUME NoOverflow, TypeOK, TimeInv, DumpInv, [Next]_vars
    PROVE  DumpInv'
<1>1. CASE TapStep
  BY <1>1, RecvDumpInv, LocalDumpInv, Zenon DEF TapStep
<1>2. CASE ServerStep \/ ServerExits
  BY <1>2, ServerDumpInv, Zenon
<1>3. ASSUME NEW op \in {"set", "delete"}, NEW k \in BucketKey \ TagKey,
             NEW node \in Node, ClientOp(op, k, node)
      PROVE  DumpInv'
  <2>1. PICK time : time = clock'
    BY Zenon
  <2>2. /\ Store(op, k, time, node) /\ UNCHANGED <<connection, thread, before, refused>>
        /\ pending' = pending \cup {[op |-> op, key |-> k, time |-> time, at |-> Other(node)]}
        /\ erased' = IF op = "delete" THEN erased \cup {k} ELSE erased
    BY <1>3, <2>1, Zenon DEF ClientOp
  <2>3. k \in Key /\ time \in Nat /\ StartTime < time
    BY <1>3, <2>1, KeyAssumption, TimeAssumption DEF ClientOp, TimeInv
  <2>4. OpsInv'
    BY <2>2, <2>3 DEF DumpInv, OpsInv
  <2>5. erased \subseteq erased' /\ (op = "delete" => k \in erased')
    BY <2>2, Zenon
  <2> QED
    BY <2>2, <2>3, <2>4, <2>5, ClientDumpInv, Zenon
<1>4. ASSUME NEW o \in pending, ClientOpReachesOther(o) PROVE DumpInv'
  <2>1. /\ Store(o.op, o.key, o.time, o.at) /\ pending' = pending \ {o}
        /\ UNCHANGED <<erased, connection, thread, before, refused>>
    BY <1>4, Zenon DEF ClientOpReachesOther
  <2>2. o.op \in {"set", "delete"} /\ o.key \in Key /\ o.time \in Nat /\ o.at \in Node
    BY Zenon DEF TypeOK, Operation
  <2>3. StartTime < o.time /\ (o.op = "delete" => o.key \in erased') /\ OpsInv'
    BY <2>1, Zenon DEF DumpInv, OpsInv
  <2> QED
    BY <2>1, <2>2, <2>3, ClientDumpInv, Zenon
<1>5. CASE UNCHANGED vars
  BY <1>5, Zenon DEF vars, thread, connection, clients, DumpInv, OpsInv, FloorInv, Accounted,
         EndInv, Succeeded, Processing, AddAllowed, ReplaceAllowed, Local
<1> QED
  BY <1>1, <1>2, <1>3, <1>4, <1>5, Zenon DEF Next

\* Every variable of module TapBuckets keeps its type, the bound on the times
\* of records included.
THEOREM TypeCorrect == Spec => []TypeOK
<1>1. TypeOK /\ TimeInv /\ [Next]_vars => (TypeOK /\ TimeInv)'
  BY NextTypeOK, Zenon
<1> QED
  BY <1>1, InitInv, PTL DEF Spec

\* As long as the comparison of flags orders the times in use, the
\* thread never puts an older record in place of a newer one, whatever clients
\* write or delete between its Get and its Add or Replace.
THEOREM TapKeepsNewest ==
    ASSUME NoOverflow
    PROVE  Spec => TapNeverGoesBack
<1>1. TypeOK /\ TimeInv /\ [Next]_vars => (TypeOK /\ TimeInv)'
  BY NextTypeOK, Zenon
<1>2. TypeOK /\ TimeInv /\ CasInv /\ [Next]_vars => CasInv'
  BY NextCasInv, Zenon
<1>3. TypeOK /\ TimeInv /\ CasInv /\ [Next]_vars =>
          [\A k \in Key : TapStores(k) => Local(k).time < Local(k)'.time]_vars
  <2> SUFFICES ASSUME TypeOK, TimeInv, CasInv, [Next]_vars,
                      NEW k \in Key, pc' # pc, Local(k)' # Local(k)
               PROVE  Local(k).time < Local(k)'.time
    BY Zenon DEF TapStores
  <2> USE DEF thread, connection, clients
  <2>1. AddOrReplace \/ LocalLost
    BY Zenon DEF Next, TapStep, ServerStep, vars, SendMutate, CloseTap, ServerExits,
           Connect, ConnectFails, SendTapFails, RecvMutate, RecvDisconnected,
           RecvError, GetLocal, GetLocalFails, StoreRefused, ClientOp,
           ClientOpReachesOther, Local
  <2>2. /\ AddAllowed \/ ReplaceAllowed
        /\ Store("set", msg.key, msg.time, "local")
        /\ pc \in {"add", "replace"}
    BY <2>1, Zenon DEF AddOrReplace, LocalLost, AddAllowed, ReplaceAllowed, Local
  <2>3. msg.key \in Key /\ msg.time \in Window /\ msg.time \in Nat \ {0}
    BY <2>2, WindowFacts, Zenon DEF TypeOK, TimeInv, Mutate
  <2>4. k = msg.key /\ Local(k)'.time = msg.time
    <3>1. store' = [store EXCEPT !["local"][msg.key] = [time |-> msg.time, cas |-> next_cas]]
      BY <2>2, Zenon DEF Store
    <3> QED
      BY <2>3, <3>1, Zenon DEF Local, TypeOK, Node
  <2>5. CASE AddAllowed
    BY <2>3, <2>4, <2>5 DEF AddAllowed, None
  <2>6. CASE ReplaceAllowed
    BY <2>4, <2>6, Zenon DEF CasInv
  <2> QED
    BY <2>2, <2>5, <2>6, Zenon
<1> QED
  BY <1>1, <1>2, <1>3, InitInv, PTL DEF Spec, TapNeverGoesBack

\* As long as the comparison of flags orders the times in use (FlagsOrderTimes: as
\* it does within one epoch), a tap that succeeds has lost no record: whatever
\* clients write or delete meanwhile, on either server, and whichever records the
\* thread skips, every record the tapped server held as the tap began has reached
\* the local memcached, or a later one has, if the whole dump was sent and memcached
\* stored what it got.
THEOREM NoRecordIsLost ==
    ASSUME NoOverflow
    PROVE  Spec => []NoRecordLost
<1>1. TypeOK /\ TimeInv /\ [Next]_vars => (TypeOK /\ TimeInv)'
  BY NextTypeOK, Zenon
<1>2. TypeOK /\ TimeInv /\ DumpInv /\ [Next]_vars => DumpInv'
  BY NextDumpInv, Zenon
<1>3. DumpInv => NoRecordLost
  <2> SUFFICES ASSUME DumpInv, Succeeded, ~cut, NEW k \in Key \ (refused \cup erased), Wanted(k)
               PROVE  before[k] =< Local(k).time
    BY Zenon DEF NoRecordLost, Streamed
  <2>1. Accounted(k)
    BY Zenon DEF DumpInv, Succeeded
  <2>2. unsent = {} /\ DOMAIN stream = {} /\ ~Processing
    BY DEF DumpInv, EndInv, Succeeded, Processing
  <2> QED
    BY <2>1, <2>2, Zenon DEF Accounted
<1> QED
  BY <1>1, <1>2, <1>3, InitInv, InitDumpInv, PTL DEF Spec
=============================================================================
