-------------------------- MODULE MemcachedBackend --------------------------
(***************************************************************************)
(* MemcachedBackend with the ProxyServer handlers that call it: connection *)
(* threads read, write and delete records on the replicas of a vbucket     *)
(* through a pool of connections, while the configuration may change.      *)
(*                                                                         *)
(* A thread serves one client, one request at a time.  Every key stands    *)
(* for a vbucket of its own.  The data of a record is the number of the    *)
(* write that made it; 0 stands for no record.                             *)
(***************************************************************************)
EXTENDS Naturals, Sequences, FiniteSets

CONSTANTS
    Server, Thread, Key,
    View,           \* the views MemcachedStoreView can compute
    MaxChanges,     \* bound: writes and deletes the clients ask for
    MaxErrors,      \* bound: requests that libmemcached reports as failed
    MaxRestarts     \* bound: memcached restarts, each of which loses its records

ReplicaMap == [Key -> Seq(Server)]

(***************************************************************************)
(* What the code takes from MemcachedStoreView: delete_data relies on the  *)
(* read replicas being a superset of the write replicas.                   *)
(***************************************************************************)
ASSUME ViewAssumption ==
    \A v \in View, k \in Key :
        /\ v.read \in ReplicaMap /\ v.write \in ReplicaMap
        /\ {v.write[k][i] : i \in DOMAIN v.write[k]}
               \subseteq {v.read[k][i] : i \in DOMAIN v.read[k]}
ASSUME BoundAssumption ==
    /\ MaxChanges \in Nat /\ MaxErrors \in Nat /\ MaxRestarts \in Nat
    /\ IsFiniteSet(Key) /\ Key # {}       \* there is a fixed number of vbuckets

Conn == 1..Cardinality(Thread)     \* pooled connections to each server
Write == {"ADD", "SET", "REPLACE"}
Contention == {"NOTFOUND", "NOTSTORED", "DATA_EXISTS"}
Failure == {"CONNECTION_FAILURE", "ERROR"}
NoItem == [data |-> 0, cas |-> 0]
NoView == [read |-> <<>>, write |-> <<>>]

VARIABLES
    item,           \* per server and key: the record memcached holds
    casid,          \* per server: the last CAS id it gave out
    pending,        \* per server and connection: no-reply sets not yet processed
    view,           \* _read_replicas and _write_replicas
    copying,        \* the view new_view is copying in, under _view_lock
    req,            \* per thread: the local variables of the handler
    seen,           \* per thread: what its client's last successful GET gave
    comm_state,     \* _vbucket_comm_state, TRUE for FAILED
    fail_count,     \* _vbucket_comm_fail_count
    alarm,          \* whether the vbucket alarm is set
    due,            \* current_time_ms() > _next_vbucket_alarm_update
    changes, errors, restarts,
    latest          \* history: per key, the data of the last write acknowledged,
                    \* or 0 after a delete

memcached == <<item, casid, pending, restarts>>
config == <<view, copying>>
comms == <<comm_state, fail_count, alarm, due>>
vars == <<memcached, config, comms, req, seen, latest, changes, errors>>

Idle == [pc |-> "idle", oper |-> "GET", key |-> CHOOSE k \in Key : TRUE,
         list |-> <<>>, tries |-> 0, rc |-> "ERROR", data |-> 0, cas |-> 0,
         not_found |-> FALSE, failed |-> 0, sent |-> 0,
         best |-> "TEMPORARY_FAILURE", answered |-> FALSE]

Init ==
    /\ item = [s \in Server |-> [k \in Key |-> NoItem]]
    /\ casid = [s \in Server |-> 0]
    /\ pending = [s \in Server |-> [c \in Conn |-> <<>>]]
    /\ view \in View /\ copying = NoView
    /\ req = [t \in Thread |-> Idle]
    /\ seen = [t \in Thread |-> [key |-> Idle.key, data |-> 0, cas |-> 0]]
    /\ comm_state = [k \in Key |-> FALSE]
    /\ fail_count = 0
    /\ alarm \in BOOLEAN
    /\ due = TRUE
    /\ changes = 0 /\ errors = 0 /\ restarts = 0
    /\ latest = [k \in Key |-> 0]

-----------------------------------------------------------------------------
(***************************************************************************)
(* The configuration.  new_view copies the view under the write lock, but  *)
(* no reader takes the lock: a list read during the copy may have elements *)
(* of both views.                                                          *)
(***************************************************************************)
new_view ==
    /\ copying = NoView
    /\ \E v \in View \ {view} : copying' = v
    /\ UNCHANGED <<memcached, view, comms, req, seen, latest, changes, errors>>

new_view_done ==
    /\ copying # NoView
    /\ view' = copying /\ copying' = NoView
    /\ UNCHANGED <<memcached, comms, req, seen, latest, changes, errors>>

Torn(old, new) ==
    UNION {{list \in [1..n -> Server] :
                \A i \in 1..n : \/ i <= Len(old) /\ list[i] = old[i]
                                \/ i <= Len(new) /\ list[i] = new[i]}
           : n \in {Len(old), Len(new)}}

(* The lists a thread can get for a key, by the kind of operation.         *)
get_replica_addresses(k, kind) ==
    IF copying = NoView THEN {view[kind][k]}
                        ELSE Torn(view[kind][k], copying[kind][k])

-----------------------------------------------------------------------------
(***************************************************************************)
(* memcached and libmemcached, as the backend uses them.  A request goes   *)
(* over any connection of the pool and waits for what was sent on it       *)
(* before.                                                                 *)
(***************************************************************************)
Drained(s) == \E c \in Conn : pending[s][c] = <<>>

Put(s, k, data) ==
    /\ casid' = [casid EXCEPT ![s] = @ + 1]
    /\ item' = [item EXCEPT ![s][k] = [data |-> data, cas |-> casid[s] + 1]]

Drop(s, k) == item' = [item EXCEPT ![s][k] = NoItem] /\ UNCHANGED casid

(* Mutant: a REPLACE never passes its CAS id on.                           *)
StoreAnswer_no_cas(s, r) ==
    IF r.oper = "ADD" /\ item[s][r.key] # NoItem THEN "DATA_EXISTS"
    ELSE IF r.oper = "REPLACE" /\ item[s][r.key] = NoItem THEN "NOTFOUND"
    ELSE "SUCCESS"

(* What memcached answers to a store request.                              *)
StoreAnswer(s, r) ==
    LET old == item[s][r.key]
    IN  CASE r.oper = "ADD" -> IF old = NoItem THEN "SUCCESS" ELSE "DATA_EXISTS"
          [] r.oper = "SET" -> "SUCCESS"
          [] r.oper = "REPLACE" ->
                IF old = NoItem THEN "NOTFOUND"
                ELSE IF r.cas \in {0, old.cas} THEN "SUCCESS" ELSE "DATA_EXISTS"

Fails == errors < MaxErrors /\ errors' = errors + 1

DeliverBackup(s, c) ==
    /\ pending[s][c] # <<>>
    /\ LET m == Head(pending[s][c]) IN Put(s, m.key, m.data)
    /\ pending' = [pending EXCEPT ![s][c] = Tail(@)]
    /\ UNCHANGED <<restarts, config, comms, req, seen, latest, changes, errors>>

Restart(s) ==
    /\ restarts < MaxRestarts
    /\ restarts' = restarts + 1
    /\ item' = [item EXCEPT ![s] = [k \in Key |-> NoItem]]
    /\ casid' = [casid EXCEPT ![s] = 0]
    /\ pending' = [pending EXCEPT ![s] = [c \in Conn |-> <<>>]]
    /\ UNCHANGED <<config, comms, req, seen, latest, changes, errors>>

TimePasses ==
    /\ ~due
    /\ due' = TRUE
    /\ UNCHANGED <<memcached, config, comm_state, fail_count, alarm,
                   req, seen, latest, changes, errors>>

-----------------------------------------------------------------------------
(* Mutant: the count changes although the state does not.                  *)
update_vbucket_comm_state_recounts(k, failed) ==
    /\ comm_state' = [comm_state EXCEPT ![k] = failed]
    /\ fail_count' = IF failed THEN fail_count + 1
                     ELSE IF fail_count > 0 THEN fail_count - 1 ELSE fail_count
    /\ alarm' = IF due THEN fail_count' # 0 ELSE alarm
    /\ due' = FALSE

(* Mutant: the alarm is only updated when the state has changed.           *)
update_vbucket_comm_state_on_change(k, failed) ==
    /\ comm_state' = [comm_state EXCEPT ![k] = failed]
    /\ fail_count' = IF comm_state[k] = failed THEN fail_count
                     ELSE IF failed THEN fail_count + 1 ELSE fail_count - 1
    /\ alarm' = IF due /\ comm_state[k] # failed THEN fail_count' # 0 ELSE alarm
    /\ due' = (due /\ comm_state[k] = failed)

(***************************************************************************)
(* update_vbucket_comm_state, all of it under _vbucket_comm_lock.          *)
(***************************************************************************)
update_vbucket_comm_state(k, failed) ==
    /\ comm_state' = [comm_state EXCEPT ![k] = failed]
    /\ fail_count' = IF comm_state[k] = failed THEN fail_count
                     ELSE IF failed THEN fail_count + 1
                     ELSE IF fail_count > 0 THEN fail_count - 1 ELSE fail_count
    /\ alarm' = IF due THEN fail_count' # 0 ELSE alarm
    /\ due' = FALSE

(***************************************************************************)
(* The loops over the replicas that read_data and write_data share.  A     *)
(* sole replica is tried a second time if the first try could not connect. *)
(***************************************************************************)
Attempts(r) == IF Len(r.list) = 1 THEN 2 ELSE Len(r.list)
Replica(r) == IF Len(r.list) = 1 THEN r.list[1] ELSE r.list[r.tries + 1]

MoreAttempts(r) ==
    /\ r.tries < Attempts(r)
    /\ Len(r.list) = 1 /\ r.tries = 1 => r.rc = "CONNECTION_FAILURE"

(* The answer goes to the client and the thread waits for the next request. *)
Answer(t) == req' = [req EXCEPT ![t] = Idle]

(***************************************************************************)
(* handle_get and read_data.                                               *)
(***************************************************************************)
StartRead(t, k) ==
    /\ req[t].pc = "idle"
    /\ \E list \in get_replica_addresses(k, "read") :
            req' = [req EXCEPT ![t] = [Idle EXCEPT !.pc = "read", !.key = k, !.list = list]]
    /\ UNCHANGED <<memcached, config, comms, seen, latest, changes, errors>>

(* The answer of one replica: data, no record, or an error.                *)
get_from_replica(t) ==
    LET r == req[t]
        found == item[Replica(r)][r.key]
    IN  \/ /\ Drained(Replica(r)) /\ found # NoItem
           /\ req' = [req EXCEPT ![t] = [r EXCEPT !.tries = @ + 1, !.rc = "SUCCESS",
                        !.data = found.data, !.cas = found.cas, !.answered = TRUE]]
           /\ UNCHANGED errors
        \/ /\ Drained(Replica(r)) /\ found = NoItem
           /\ req' = [req EXCEPT ![t] = [r EXCEPT !.tries = @ + 1, !.rc = "NOTFOUND",
                        !.cas = 0, !.not_found = TRUE, !.answered = TRUE]]
           /\ UNCHANGED errors
        \/ /\ Fails
           /\ \E rc \in Failure :
                req' = [req EXCEPT ![t] = [r EXCEPT !.tries = @ + 1, !.rc = rc,
                            !.cas = 0, !.failed = @ + 1]]

ReadReplica(t) ==
    /\ req[t].pc = "read" /\ req[t].rc # "SUCCESS"
    /\ MoreAttempts(req[t])
    /\ get_from_replica(t)
    /\ UNCHANGED <<memcached, config, comms, seen, latest, changes>>

(* Mutant: one failed replica is enough for a failure.                     *)
ReadStatus_any_failed(r) ==
    IF r.rc = "SUCCESS" THEN "NO_ERROR"
    ELSE IF r.failed = 0 THEN "KEY_NOT_FOUND" ELSE "TEMPORARY_FAILURE"

(* The status of a read whose loop is over.                                *)
ReadStatus(r) ==
    IF r.rc = "SUCCESS" THEN "NO_ERROR"
    ELSE IF r.failed < Len(r.list) THEN "KEY_NOT_FOUND" ELSE "TEMPORARY_FAILURE"

(* Mutant: the loop ends with the first replica that answers.              *)
ReadOver_first(r) ==
    r.pc = "read" /\ (r.rc \in {"SUCCESS", "NOTFOUND"} \/ ~MoreAttempts(r))

ReadOver(r) == r.pc = "read" /\ (r.rc = "SUCCESS" \/ ~MoreAttempts(r))

ReturnedCas(r) == IF r.not_found THEN 0 ELSE r.cas

FinishRead(t) ==
    LET r == req[t] IN
    /\ ReadOver(r)
    /\ update_vbucket_comm_state(r.key, ReadStatus(r) = "TEMPORARY_FAILURE")
    /\ Answer(t)
    /\ seen' = IF ReadStatus(r) = "NO_ERROR"
               THEN [seen EXCEPT ![t] = [key |-> r.key, data |-> r.data,
                                          cas |-> ReturnedCas(r)]]
               ELSE seen
    /\ UNCHANGED <<memcached, config, latest, changes, errors>>

(***************************************************************************)
(* handle_set_add_replace and write_data.  A client sends with REPLACE     *)
(* either no CAS id or the one its last GET of the key gave; write_data    *)
(* does not look at the CAS id of an ADD or a SET.                         *)
(***************************************************************************)
StartWrite(t, k, oper) ==
    /\ req[t].pc = "idle"
    /\ changes < MaxChanges
    /\ changes' = changes + 1
    /\ \E list \in get_replica_addresses(k, "write"),
          id \in {0} \cup (IF oper = "REPLACE" /\ seen[t].key = k THEN {seen[t].cas} ELSE {}) :
            req' = [req EXCEPT ![t] = [Idle EXCEPT !.pc = "write", !.oper = oper, !.key = k,
                        !.list = list, !.data = changes + 1, !.cas = id]]
    /\ UNCHANGED <<memcached, config, comms, seen, latest, errors>>

(* The conditional write to one replica.  When libmemcached reports an     *)
(* error the write may still have been made.                               *)
WriteReplica(t) ==
    LET r == req[t]
        s == Replica(r)
    IN  /\ r.pc = "write" /\ r.rc \in Failure
        /\ MoreAttempts(r)
        /\ \/ /\ Drained(s)
              /\ req' = [req EXCEPT ![t] = [r EXCEPT !.tries = @ + 1,
                            !.rc = StoreAnswer(s, r), !.answered = TRUE,
                            !.sent = IF Len(r.list) = 1 THEN 1 ELSE r.tries + 1]]
              /\ IF StoreAnswer(s, r) = "SUCCESS" THEN Put(s, r.key, r.data)
                                                   ELSE UNCHANGED <<item, casid>>
              /\ UNCHANGED errors
           \/ /\ Fails
              /\ \E rc \in Failure :
                    req' = [req EXCEPT ![t] = [r EXCEPT !.tries = @ + 1, !.rc = rc]]
              /\ \/ UNCHANGED <<item, casid>>
                 \/ StoreAnswer(s, r) = "SUCCESS" /\ Put(s, r.key, r.data)
        /\ UNCHANGED <<pending, restarts, config, comms, seen, latest, changes>>

(* After a success: the unconditional, no-reply write to the next replica. *)
WriteBackup(t) ==
    LET r == req[t] IN
    /\ r.pc = "write" /\ r.rc = "SUCCESS" /\ r.sent < Len(r.list)
    /\ req' = [req EXCEPT ![t].sent = @ + 1]
    /\ \/ /\ \E c \in Conn :
                pending' = [pending EXCEPT ![r.list[r.sent + 1]][c] =
                                Append(@, [key |-> r.key, data |-> r.data])]
          /\ UNCHANGED errors
       \/ Fails /\ UNCHANGED pending
    /\ UNCHANGED <<item, casid, restarts, config, comms, seen, latest, changes>>

WriteStatus(r) ==
    CASE r.rc = "SUCCESS" -> "NO_ERROR"
      [] r.rc = "NOTFOUND" -> "KEY_NOT_FOUND"
      [] r.rc = "DATA_EXISTS" -> "KEY_EXISTS"
      [] r.rc = "NOTSTORED" -> "ITEM_NOT_STORED"
      [] OTHER -> "TEMPORARY_FAILURE"

WriteOver(r) ==
    /\ r.pc = "write"
    /\ \/ r.rc = "SUCCESS" /\ r.sent >= Len(r.list)
       \/ r.rc \in Contention
       \/ r.rc \in Failure /\ ~MoreAttempts(r)

FinishWrite(t) ==
    LET r == req[t] IN
    /\ WriteOver(r)
    /\ update_vbucket_comm_state(r.key, WriteStatus(r) = "TEMPORARY_FAILURE")
    /\ Answer(t)
    /\ latest' = IF r.rc = "SUCCESS" THEN [latest EXCEPT ![r.key] = r.data] ELSE latest
    /\ UNCHANGED <<memcached, config, seen, changes, errors>>

(***************************************************************************)
(* handle_delete and delete_data: every read replica is tried once and the *)
(* best status kept.  It leaves the vbucket communication state alone.     *)
(***************************************************************************)
StartDelete(t, k) ==
    /\ req[t].pc = "idle"
    /\ changes < MaxChanges
    /\ changes' = changes + 1
    /\ \E list \in get_replica_addresses(k, "read") :
            req' = [req EXCEPT ![t] = [Idle EXCEPT !.pc = "delete", !.oper = "DELETE",
                        !.key = k, !.list = list]]
    /\ UNCHANGED <<memcached, config, comms, seen, latest, errors>>

(* best_status after one more replica has answered.                        *)
Best(r, rc) ==
    IF rc = "SUCCESS" THEN "NO_ERROR"
    ELSE IF r.best = "NO_ERROR" THEN r.best
    ELSE IF rc = "NOTFOUND" THEN "KEY_NOT_FOUND" ELSE "TEMPORARY_FAILURE"

DeleteReplica(t) ==
    LET r == req[t]
        s == r.list[r.tries + 1]
        rc == IF item[s][r.key] = NoItem THEN "NOTFOUND" ELSE "SUCCESS"
    IN  /\ r.pc = "delete" /\ r.tries < Len(r.list)
        /\ \/ /\ Drained(s)
              /\ Drop(s, r.key)
              /\ req' = [req EXCEPT ![t] = [r EXCEPT !.tries = @ + 1, !.best = Best(r, rc),
                                                    !.answered = TRUE]]
              /\ UNCHANGED errors
           \/ /\ Fails
              /\ Drop(s, r.key) \/ UNCHANGED <<item, casid>>
              /\ req' = [req EXCEPT ![t] = [r EXCEPT !.tries = @ + 1, !.best = Best(r, "ERROR")]]
        /\ UNCHANGED <<pending, restarts, config, comms, seen, latest, changes>>

FinishDelete(t) ==
    LET r == req[t] IN
    /\ r.pc = "delete" /\ r.tries >= Len(r.list)
    /\ Answer(t)
    /\ latest' = IF r.best = "TEMPORARY_FAILURE" THEN latest
                                                 ELSE [latest EXCEPT ![r.key] = 0]
    /\ UNCHANGED <<memcached, config, comms, seen, changes, errors>>

-----------------------------------------------------------------------------
ThreadStep(t) ==
    \/ ReadReplica(t) \/ FinishRead(t)
    \/ WriteReplica(t) \/ WriteBackup(t) \/ FinishWrite(t)
    \/ DeleteReplica(t) \/ FinishDelete(t)

Next ==
    \/ \E t \in Thread, k \in Key :
            \/ StartRead(t, k) \/ StartDelete(t, k)
            \/ \E oper \in Write : StartWrite(t, k, oper)
    \/ \E t \in Thread : ThreadStep(t)
    \/ \E s \in Server : Restart(s) \/ \E c \in Conn : DeliverBackup(s, c)
    \/ new_view \/ new_view_done \/ TimePasses

Spec == Init /\ [][Next]_vars

(***************************************************************************)
(* Threads and servers go on, new_view returns, time passes, and clients   *)
(* keep reading every key: the alarm is only looked at when a read or a    *)
(* write ends.                                                             *)
(***************************************************************************)
FairSpec ==
    /\ Spec
    /\ \A t \in Thread : WF_vars(ThreadStep(t))
    /\ \A s \in Server, c \in Conn : WF_vars(DeliverBackup(s, c))
    /\ WF_vars(TimePasses) /\ WF_vars(new_view_done)
    /\ \A k \in Key : SF_vars(\E t \in Thread : StartRead(t, k))

-----------------------------------------------------------------------------
Statuses == {"NO_ERROR", "KEY_NOT_FOUND", "KEY_EXISTS", "ITEM_NOT_STORED",
             "TEMPORARY_FAILURE"}
Request == [pc : {"idle", "read", "write", "delete"}, oper : Write \cup {"GET", "DELETE"},
            key : Key, list : Seq(Server), tries : Nat,
            rc : Contention \cup Failure \cup {"SUCCESS"}, data : 0..MaxChanges, cas : Nat,
            not_found : BOOLEAN, failed : Nat, sent : Nat, best : Statuses,
            answered : BOOLEAN]

(* The variables have the shape the class and its callers give them.       *)
TypeOK ==
    /\ item \in [Server -> [Key -> [data : 0..MaxChanges, cas : Nat]]]
    /\ casid \in [Server -> Nat]
    /\ pending \in [Server -> [Conn -> Seq([key : Key, data : 1..MaxChanges])]]
    /\ view \in View /\ copying \in View \cup {NoView}
    /\ req \in [Thread -> Request]
    /\ seen \in [Thread -> [key : Key, data : 0..MaxChanges, cas : Nat]]
    /\ comm_state \in [Key -> BOOLEAN] /\ fail_count \in 0..Cardinality(Key)
    /\ alarm \in BOOLEAN /\ due \in BOOLEAN
    /\ changes \in 0..MaxChanges /\ errors \in 0..MaxErrors /\ restarts \in 0..MaxRestarts
    /\ latest \in [Key -> 0..MaxChanges]

(***************************************************************************)
(* With one client, no request that fails, and as long as fewer memcacheds *)
(* have restarted than there are replicas, a GET answers with the last     *)
(* write acknowledged, or KEY_NOT_FOUND after a delete: read_data goes on  *)
(* past a replica that has lost the record, write_data reaches every       *)
(* replica after the first and delete_data every read replica.             *)
(***************************************************************************)
AckedIsRead ==
    \A t \in Thread :
        LET r == req[t] IN
        ReadOver(r) =>
            IF latest[r.key] = 0 THEN ReadStatus(r) = "KEY_NOT_FOUND"
            ELSE ReadStatus(r) = "NO_ERROR" /\ r.data = latest[r.key]

(***************************************************************************)
(* With no failure of the servers, read-modify-write is atomic whatever    *)
(* the threads interleave: the record a REPLACE with a CAS id overwrites   *)
(* is the one its client read (write_data's memcached_cas_vb with the CAS  *)
(* id that read_data returned).                                            *)
(***************************************************************************)
NoLostUpdate ==
    [][\A t \in Thread :
        LET r == req[t] IN
        r.pc = "write" /\ r.oper = "REPLACE" /\ r.cas # 0
            /\ r.rc \in Failure /\ req'[t].rc = "SUCCESS"
        => item[Replica(r)][r.key].data = seen[t].data]_vars

(***************************************************************************)
(* A vbucket with two replicas or more is reported as failing, to the      *)
(* client and to the alarm, only by an operation no replica answered, and  *)
(* an operation that no replica answered is always so reported.            *)
(***************************************************************************)
FailureMeansNoAnswer ==
    \A t \in Thread :
        LET r == req[t] IN
        /\ ReadOver(r) => (ReadStatus(r) = "TEMPORARY_FAILURE") = ~r.answered
        /\ WriteOver(r) => (WriteStatus(r) = "TEMPORARY_FAILURE") = ~r.answered

(* _vbucket_comm_fail_count is the number of FAILED vbuckets, whatever     *)
(* order the threads update_vbucket_comm_state in.                         *)
FailCountIsExact == fail_count = Cardinality({k \in Key : comm_state[k]})

(***************************************************************************)
(* Once servers answer again and every vbucket has replicas for good, the  *)
(* vbucket alarm is cleared and stays so, although it is updated at most   *)
(* every _update_period_ms.                                                *)
(***************************************************************************)
AlarmIsCleared ==
    <>[](\A k \in Key : view.read[k] # <<>> /\ view.write[k] # <<>>)
        => <>[](fail_count = 0 /\ ~alarm)

(***************************************************************************)
(* What read_data says of its last two branches: it answers NOT_FOUND if   *)
(* at least one replica did, and a failure if all replicas failed.         *)
(***************************************************************************)
NotFoundIsReported ==
    \A t \in Thread :
        ReadOver(req[t]) /\ req[t].not_found => ReadStatus(req[t]) # "TEMPORARY_FAILURE"
=============================================================================
