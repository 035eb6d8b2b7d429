----------------------------- MODULE TapBuckets -----------------------------
(***************************************************************************)
(* Astaire::tap_buckets_thread: one thread streams the records of some     *)
(* vbuckets from another memcached into the local one while clients go on  *)
(* reading and writing both.                                               *)
(*                                                                         *)
(* A record is the time of the client write that made it and the CAS id    *)
(* the local memcached gave it.  All the thread sees of the time is the    *)
(* flags field, the low 32 bits of a millisecond clock.                    *)
(***************************************************************************)
EXTENDS Integers, Sequences

CONSTANTS
    Key,        \* the keys of the tapped server
    BucketKey,  \* those whose vbucket is in tap_data->buckets
    TagKey,     \* those that begin with ASTAIRE_KEY_PREFIX
    Half,       \* 2^31: half the range of the flags field
    StartTime,  \* the time of the latest write before the tap
    MaxWrites,  \* bound: client operations during the tap
    MaxFaults   \* bound: connections lost and requests refused

ASSUME KeyAssumption == BucketKey \subseteq Key /\ TagKey \subseteq Key
ASSUME TimeAssumption ==
    /\ Half \in Nat \ {0}
    /\ StartTime \in Nat \ {0, 1}
    /\ MaxWrites \in Nat
    /\ MaxFaults \in Nat

None == [time |-> 0, cas |-> 0]     \* no record under the key
Node == {"local", "remote"}
Other(node) == CHOOSE n \in Node : n # node
NoMessage == <<>>

VARIABLES
    store,      \* per memcached: the records it holds
    next_cas,   \* the next CAS id of the local memcached
    clock,      \* the time of the latest client operation
    pending,    \* client operations on their way to their second replica
    unsent,     \* keys the tapped server has still to look at for its dump
    stream,     \* TAP_MUTATE messages on their way to the thread
    tap_open,   \* whether the tapped server may still send on the connection
    local_open, \* whether local_conn is usable
    pc,         \* where the thread is
    msg,        \* the TAP_MUTATE being processed
    cas,        \* the CAS id for the Replace
    success,    \* tap_data->success
    before,     \* history: what the tapped server held as the tap began
    erased,     \* history: keys clients have deleted since then
    cut,        \* history: the dump ended before the server had sent it all
    refused,    \* history: keys memcached refused to store for the thread
    faults

thread == <<local_open, pc, msg, cas, success>>
connection == <<unsent, stream, tap_open, cut>>
clients == <<clock, pending, erased>>
vars == <<store, next_cas, clients, connection, thread, before, refused, faults>>

Record == [time : Nat, cas : Nat]
Mutate == [key : Key, time : Nat]
Operation == [op : {"set", "delete"}, key : Key, time : Nat, at : Node]

TypeOK ==
    /\ store \in [Node -> [Key -> Record]]
    /\ next_cas \in Nat \ {0}
    /\ clock \in Nat
    /\ pending \subseteq Operation
    /\ unsent \subseteq Key
    /\ stream \in Seq(Mutate)
    /\ tap_open \in BOOLEAN /\ local_open \in BOOLEAN
    /\ pc \in {"start", "recv", "get", "add", "replace", "done"}
    /\ msg \in Mutate \cup {NoMessage}
    /\ pc \in {"get", "add", "replace"} => msg \in Mutate
    /\ cas \in Nat
    /\ success \in BOOLEAN
    /\ before \in [Key -> Nat]
    /\ erased \subseteq Key
    /\ cut \in BOOLEAN
    /\ refused \subseteq Key
    /\ faults \in 0..MaxFaults

Init ==
    /\ \E times \in [Node -> [Key -> {0, StartTime - 1, StartTime}]] :
           /\ store = [n \in Node |-> [k \in Key |->
                          [time |-> times[n][k],
                           cas |-> IF n = "local" /\ times[n][k] # 0 THEN 1 ELSE 0]]]
           /\ before = times["remote"]
    /\ next_cas = 2
    /\ clock = StartTime
    /\ pending = {}
    /\ unsent = {k \in Key : store["remote"][k].time # 0}
    /\ stream = <<>>
    /\ tap_open = FALSE /\ local_open = FALSE
    /\ pc = "start"
    /\ msg = NoMessage
    /\ cas = 0
    /\ success = FALSE
    /\ erased = {} /\ cut = FALSE /\ refused = {}
    /\ faults = 0

Fault == faults < MaxFaults /\ faults' = faults + 1
-----------------------------------------------------------------------------
\* (int32_t)flags for a record written at time t
Signed(t) == LET flags == t % (2 * Half)
             IN  IF flags < Half THEN flags ELSE flags - 2 * Half

\* Mutant: the flags are compared unsigned.
EarlierOutcomes_unsigned(a, b) == {a % (2 * Half) < b % (2 * Half)}

\* The values (int32_t)a - (int32_t)b < 0 may have.  When the difference is
\* not an int32_t its computation is undefined: wrapping and comparing the
\* operands directly, as compilers do, give opposite answers.
EarlierOutcomes(a, b) ==
    LET difference == Signed(a) - Signed(b)
    IN  IF difference \in -Half..(Half - 1) THEN {difference < 0} ELSE BOOLEAN

\* A memcached does a Set or a Delete.  The local one numbers its records.
Store(op, k, time, node) ==
    LET record == [time |-> time, cas |-> IF node = "local" THEN next_cas ELSE 0]
    IN  /\ store' = [store EXCEPT ![node][k] = IF op = "set" THEN record ELSE None]
        /\ next_cas' = IF op = "set" /\ node = "local" THEN next_cas + 1 ELSE next_cas

Local(k) == store["local"][k]
-----------------------------------------------------------------------------
\* The tapped server.

SendMutate(k) ==
    /\ tap_open /\ k \in unsent
    /\ unsent' = unsent \ {k}
    /\ stream' = IF store["remote"][k] = None THEN stream
                 ELSE Append(stream, [key |-> k, time |-> store["remote"][k].time])
    /\ UNCHANGED <<store, next_cas, clients, tap_open, cut, thread, before,
                   refused, faults>>

\* A dump ends with the server closing the connection.
CloseTap ==
    /\ tap_open /\ unsent = {}
    /\ tap_open' = FALSE
    /\ UNCHANGED <<store, next_cas, clients, unsent, stream, cut, thread,
                   before, refused, faults>>

\* So does the exit of the server's process in the middle of one.
ServerExits ==
    /\ tap_open
    /\ Fault
    /\ tap_open' = FALSE
    /\ cut' = (unsent # {})
    /\ UNCHANGED <<store, next_cas, clients, unsent, stream, thread, before, refused>>
-----------------------------------------------------------------------------
\* The thread.

Connect ==
    /\ pc = "start"
    /\ pc' = "recv"
    /\ local_open' = TRUE /\ tap_open' = TRUE
    /\ success' = TRUE
    /\ UNCHANGED <<store, next_cas, clients, unsent, stream, cut, msg, cas,
                   before, refused, faults>>

\* Neither connection is worth a retry: the thread returns.
ConnectFails ==
    /\ pc = "start"
    /\ Fault
    /\ pc' = "done"
    /\ UNCHANGED <<store, next_cas, clients, connection, local_open, msg, cas,
                   success, before, refused>>

\* tap_conn.send fails and closes tap_conn.  Its result is ignored.
SendTapFails ==
    /\ pc = "start"
    /\ Fault
    /\ pc' = "recv"
    /\ local_open' = TRUE
    /\ success' = TRUE
    /\ cut' = TRUE
    /\ UNCHANGED <<store, next_cas, clients, unsent, stream, tap_open, msg,
                   cas, before, refused>>

\* A record of another vbucket, or the tapped server's own tag, is discarded.
Wanted(k) == k \in BucketKey /\ k \notin TagKey

RecvMutate ==
    /\ pc = "recv" /\ stream # <<>>
    /\ stream' = Tail(stream)
    /\ IF Wanted(Head(stream).key)
       THEN pc' = "get" /\ msg' = Head(stream)
       ELSE UNCHANGED <<pc, msg>>
    /\ UNCHANGED <<store, next_cas, clients, unsent, tap_open, cut, local_open,
                   cas, success, before, refused, faults>>

\* Mutant: finished is not set.
RecvDisconnected_goes_on ==
    pc = "recv" /\ stream = <<>> /\ ~tap_open /\ UNCHANGED vars

\* DISCONNECTED: the tap is over, and success is as it was.
RecvDisconnected ==
    /\ pc = "recv" /\ stream = <<>> /\ ~tap_open
    /\ pc' = "done"
    /\ UNCHANGED <<store, next_cas, clients, connection, local_open, msg, cas,
                   success, before, refused, faults>>

\* ERROR (a timeout included), or a message that is not a TAP_MUTATE.
RecvError ==
    /\ pc = "recv"
    /\ Fault
    /\ pc' = "done"
    /\ success' = FALSE
    /\ UNCHANGED <<store, next_cas, clients, connection, local_open, msg, cas,
                   before, refused>>

\* The Get from the local memcached decides between Add, Replace and neither.
GetLocal ==
    /\ pc = "get" /\ local_open
    /\ IF Local(msg.key) = None
       THEN pc' = "add" /\ UNCHANGED cas
       ELSE \E earlier \in EarlierOutcomes(Local(msg.key).time, msg.time) :
                IF earlier
                THEN pc' = "replace" /\ cas' = Local(msg.key).cas
                ELSE pc' = "recv" /\ UNCHANGED cas
    /\ UNCHANGED <<store, next_cas, clients, connection, local_open, msg,
                   success, before, refused, faults>>

\* An unexpected message or result code in answer to the Get.
GetLocalFails ==
    /\ pc = "get" /\ local_open
    /\ Fault
    /\ pc' = "recv"
    /\ success' = FALSE
    /\ UNCHANGED <<store, next_cas, clients, connection, local_open, msg, cas,
                   before, refused>>

\* Mutant: Replace without the CAS id.
ReplaceAllowed_no_cas == pc = "replace" /\ Local(msg.key) # None

\* memcached's test before it stores the record.
AddAllowed == pc = "add" /\ Local(msg.key) = None
ReplaceAllowed == /\ pc = "replace"
                  /\ Local(msg.key) # None
                  /\ Local(msg.key).cas = cas

\* The Add or Replace, and its response, whose status is not looked at.
AddOrReplace ==
    /\ pc \in {"add", "replace"} /\ local_open
    /\ pc' = "recv"
    /\ IF AddAllowed \/ ReplaceAllowed
       THEN Store("set", msg.key, msg.time, "local")
       ELSE UNCHANGED <<store, next_cas>>
    /\ UNCHANGED <<clients, connection, local_open, msg, cas, success, before,
                   refused, faults>>

\* memcached refuses to store the record, being out of memory say.
StoreRefused ==
    /\ pc \in {"add", "replace"} /\ local_open
    /\ AddAllowed \/ ReplaceAllowed
    /\ Fault
    /\ pc' = "recv"
    /\ refused' = refused \cup {msg.key}
    /\ UNCHANGED <<store, next_cas, clients, connection, local_open, msg, cas,
                   success, before>>

\* local_conn is lost, maybe after memcached acted on the request.  The thread
\* goes on to drain the tap, and fails again on every record it wants.
LocalLost ==
    /\ pc \in {"get", "add", "replace"}
    /\ IF local_open THEN Fault ELSE UNCHANGED faults
    /\ \/ UNCHANGED <<store, next_cas>>
       \/ /\ local_open /\ (AddAllowed \/ ReplaceAllowed)
          /\ Store("set", msg.key, msg.time, "local")
    /\ local_open' = FALSE
    /\ success' = FALSE
    /\ pc' = "recv"
    /\ UNCHANGED <<clients, connection, msg, cas, before, refused>>

TapStep ==
    \/ Connect \/ ConnectFails \/ SendTapFails
    \/ RecvMutate \/ RecvDisconnected \/ RecvError
    \/ GetLocal \/ GetLocalFails
    \/ AddOrReplace \/ StoreRefused \/ LocalLost
-----------------------------------------------------------------------------
\* Clients (external): a write goes to one replica and then to the other.  All
\* the keys are keys of a vbucket that has both nodes among its replicas.

ClientOp(op, k, node) ==
    /\ clock < StartTime + MaxWrites
    /\ clock' = clock + 1
    /\ Store(op, k, clock', node)
    /\ pending' = pending \cup {[op |-> op, key |-> k, time |-> clock', at |-> Other(node)]}
    /\ erased' = IF op = "delete" THEN erased \cup {k} ELSE erased
    /\ UNCHANGED <<connection, thread, before, refused, faults>>

ClientOpReachesOther(o) ==
    /\ o \in pending
    /\ pending' = pending \ {o}
    /\ Store(o.op, o.key, o.time, o.at)
    /\ UNCHANGED <<clock, erased, connection, thread, before, refused, faults>>

ServerStep == (\E k \in Key : SendMutate(k)) \/ CloseTap

Next ==
    \/ TapStep
    \/ ServerStep
    \/ ServerExits
    \/ \E op \in {"set", "delete"}, k \in BucketKey \ TagKey, node \in Node :
           ClientOp(op, k, node)
    \/ \E o \in pending : ClientOpReachesOther(o)

Spec == Init /\ [][Next]_vars

\* The thread runs, and the tapped server does the dump it was asked for: if
\* it stalls, the thread's recv times out, which is RecvError.
Fairness == WF_vars(TapStep) /\ WF_vars(ServerStep)

FairSpec == Spec /\ Fairness
-----------------------------------------------------------------------------
\* Every record the tapped server held as the tap began, of the vbuckets asked
\* for and not in exempt or deleted since, is local, or a later one is.
Streamed(exempt) ==
    \A k \in Key \ (exempt \cup erased) :
        Wanted(k) => before[k] =< Local(k).time

Succeeded == pc = "done" /\ success

\* A step of the thread (clients leave pc alone) that changes what the local
\* memcached has under key k.
TapStores(k) == pc' # pc /\ Local(k)' # Local(k)

\* A tap that succeeds has lost no record, whatever clients did meanwhile, if
\* the server sent the whole dump and memcached stored what it was given.
NoRecordLost == Succeeded /\ ~cut => Streamed(refused)

\* Add, and Replace with the CAS id of the Get, never put an older record in
\* place of a newer one, even when a client writes after the Get.
TapNeverGoesBack ==
    [][\A k \in Key : TapStores(k) => Local(k).time < Local(k)'.time]_vars

\* The thread returns, so that the control thread's pthread_join does.
TapEnds == <>(pc = "done")

\* astaire.cpp:598 on a tap that reported success: "Tap successful. Its buckets
\* have now been successfully streamed."  With no Add or Replace refused, that
\* would need the server to have sent its whole dump.
SuccessMeansAllSent == Succeeded /\ refused = {} => Streamed({})
=============================================================================
