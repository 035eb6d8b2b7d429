----------------------------- MODULE Statistics -----------------------------
(***************************************************************************)
(* AstaireGlobalStatistics and AstairePerConnectionStatistics: the control *)
(* thread, the tap threads and the refresh thread change and report the    *)
(* statistics of a resync.                                                 *)
(*                                                                         *)
(* The global statistics are atomics without a lock.  Every change is      *)
(* followed by refresh(), whose loads, compare-exchange and report are     *)
(* separate steps here, so reports can overtake each other.  total stands  *)
(* for the gauge total_buckets; count stands for the three counters, which *)
(* are changed and reported alike.  The collated bandwidth is left out.    *)
(*                                                                         *)
(* The per-connection statistics are under one lock.  A ConnectionRecord   *)
(* is named by the tap thread it is for.                                   *)
(***************************************************************************)
EXTENDS Naturals

CONSTANTS
    Tap,            \* the tap threads of a resync
    Buckets,        \* the numbers of buckets a resync may have to stream; not 0, as
                    \* calculate_worklist lists only vbuckets that have a source
    MaxKeys,        \* bound: records the taps of a resync stream
    MaxResyncs,     \* bound: resyncs
    MaxPeriods      \* bound: how often _target_period_us passes

ASSUME StatisticsAssumption ==
    /\ Buckets \subseteq Nat \ {0}
    /\ MaxKeys \in Nat /\ MaxResyncs \in Nat /\ MaxPeriods \in Nat
    /\ Tap \cap {"control", "refresher", "free"} = {}

Control == "control"
Refresher == "refresher"
Thread == Tap \cup {Control, Refresher}

VARIABLES
    total, count,   \* _total_buckets; _resynced_keys_count and its like
    timestamp,      \* _timestamp_us, in periods
    now,            \* the clock, in periods
    lvc,            \* the last astaire_global report
    local,          \* per thread: where it is, and refresh()'s local variables
    stage,          \* where the control thread is in do_resync, or main in the
                    \* destructors
    terminated,     \* _terminated
    lock,           \* the holder of the per-connection lock, or "free"
    connections,    \* _connections
    conn_lvc,       \* the last astaire_connections report
    keys, resyncs,
    owed, reported, \* history: the largest count whose thread left reporting it
                    \* to another; the largest count reported
    overtaken       \* history: the total last reported was loaded before it was
                    \* changed, and reported after

global == <<total, count, timestamp>>
conns == <<lock, connections, conn_lvc>>
history == <<owed, reported, overtaken>>
statvars == <<global, now, lvc, local, stage, terminated, conns, keys, resyncs, history>>

Blank(pc) == [pc |-> pc, ts |-> 0, total |-> 0, count |-> 0, next |-> "conn"]
NoReport == [total |-> 0, count |-> 0]

(***************************************************************************)
(* The constructors have run: everything is zero and has been reported.    *)
(* The refresh thread waits for its condition variable.                    *)
(***************************************************************************)
Init ==
    /\ total = 0 /\ count = 0 /\ timestamp = 0 /\ now = 0
    /\ lvc = NoReport
    /\ local = [t \in Thread |-> Blank(IF t = Refresher THEN "wait" ELSE "off")]
    /\ stage = "rest"
    /\ terminated = FALSE
    /\ lock = "free" /\ connections = {} /\ conn_lvc = {}
    /\ keys = 0 /\ resyncs = 0
    /\ owed = 0 /\ reported = 0 /\ overtaken = FALSE

PeriodPasses ==
    /\ now < MaxPeriods
    /\ now' = now + 1
    /\ UNCHANGED <<global, lvc, local, stage, terminated, conns, keys, resyncs, history>>

-----------------------------------------------------------------------------
(***************************************************************************)
(* AstaireGlobalStatistics::refresh(force), called by thread t, which goes *)
(* on at Return.  The control thread changes a gauge and resets, and the   *)
(* refresh thread reports: these force it.  The tap threads count, and go  *)
(* on at local[t].next.                                                    *)
(***************************************************************************)
Call(t) == [local EXCEPT ![t] = Blank("load")]

(* Mutant: changing a gauge does not force a refresh.                      *)
Forced_thread(t) == t = Refresher

Forced(t) == t \in {Control, Refresher}

Return(t) ==
    [local EXCEPT ![t] = Blank(CASE t = Refresher -> "loop"
                                 [] t = Control -> "off"
                                 [] OTHER -> local[t].next)]

LoadTimestamp(t) ==
    /\ local[t].pc = "load"
    /\ local' = [local EXCEPT ![t].pc = "claim", ![t].ts = timestamp]
    /\ UNCHANGED <<global, now, lvc, stage, terminated, conns, keys, resyncs, history>>

(* Mutant: the branch that handles the tick does not call refreshed().     *)
ClaimTick_unreported(t) ==
    LET r == local[t]
        over == now > r.ts
        won == over /\ timestamp = r.ts
    IN  /\ r.pc = "claim"
        /\ timestamp' = IF won THEN now ELSE timestamp
        /\ local' = IF ~won /\ Forced(t)
                    THEN [local EXCEPT ![t] = [Blank("total") EXCEPT !.next = r.next]]
                    ELSE Return(t)
        /\ owed' = IF over /\ ~won /\ ~Forced(t) /\ r.count > owed THEN r.count ELSE owed
        /\ UNCHANGED <<total, count, now, lvc, stage, terminated, conns, keys, resyncs,
                       reported, overtaken>>

(***************************************************************************)
(* The condition of refresh: a period is over and this thread is the one   *)
(* to move the timestamp on.  Otherwise only a forced refresh reports.     *)
(* Until then r.count is what the thread made of the counter itself.  The  *)
(* clock is read in this step: a period that passes between the reading    *)
(* and the compare-exchange could as well pass after it.                   *)
(***************************************************************************)
ClaimTick(t) ==
    LET r == local[t]
        over == now > r.ts
        won == over /\ timestamp = r.ts
    IN  /\ r.pc = "claim"
        /\ timestamp' = IF won THEN now ELSE timestamp
        /\ local' = IF won \/ Forced(t)
                    THEN [local EXCEPT ![t] = [Blank("total") EXCEPT !.next = r.next]]
                    ELSE Return(t)
        /\ owed' = IF over /\ ~won /\ ~Forced(t) /\ r.count > owed THEN r.count ELSE owed
        /\ UNCHANGED <<total, count, now, lvc, stage, terminated, conns, keys, resyncs,
                       reported, overtaken>>

(* refreshed(): the values are loaded one by one and then reported.        *)
LoadTotal(t) ==
    /\ local[t].pc = "total"
    /\ local' = [local EXCEPT ![t].pc = "count", ![t].total = total]
    /\ UNCHANGED <<global, now, lvc, stage, terminated, conns, keys, resyncs, history>>

LoadCount(t) ==
    /\ local[t].pc = "count"
    /\ local' = [local EXCEPT ![t].pc = "report", ![t].count = count]
    /\ UNCHANGED <<global, now, lvc, stage, terminated, conns, keys, resyncs, history>>

Report(t) ==
    /\ local[t].pc = "report"
    /\ lvc' = [total |-> local[t].total, count |-> local[t].count]
    /\ reported' = IF local[t].count > reported THEN local[t].count ELSE reported
    /\ overtaken' = (local[t].total # total)
    /\ local' = Return(t)
    /\ UNCHANGED <<global, now, stage, terminated, conns, keys, resyncs, owed>>

refresh(t) ==
    \/ LoadTimestamp(t) \/ ClaimTick(t)
    \/ LoadTotal(t) \/ LoadCount(t) \/ Report(t)

-----------------------------------------------------------------------------
(***************************************************************************)
(* The refresh thread: the timed wait ends after a second, or earlier, and *)
(* a refresh is forced.  It holds _refresh_mutex whenever it does not wait.*)
(***************************************************************************)
(* Mutant: the thread only reports when it has been signalled.             *)
thread_func_signalled ==
    /\ \/ /\ local[Refresher].pc = "wait" /\ terminated
          /\ local' = Call(Refresher)
       \/ /\ local[Refresher].pc = "loop"
          /\ local' = [local EXCEPT ![Refresher] =
                           Blank(IF terminated THEN "exited" ELSE "wait")]
    /\ UNCHANGED <<global, now, lvc, stage, terminated, conns, keys, resyncs, history>>

(* Mutant: the loop does not look at _terminated.                          *)
thread_func_endless ==
    /\ \/ /\ local[Refresher].pc = "wait"
          /\ local' = Call(Refresher)
       \/ /\ local[Refresher].pc = "loop"
          /\ local' = [local EXCEPT ![Refresher] = Blank("wait")]
    /\ UNCHANGED <<global, now, lvc, stage, terminated, conns, keys, resyncs, history>>

thread_func ==
    /\ \/ /\ local[Refresher].pc = "wait"
          /\ local' = Call(Refresher)
       \/ /\ local[Refresher].pc = "loop"
          /\ local' = [local EXCEPT ![Refresher] =
                           Blank(IF terminated THEN "exited" ELSE "wait")]
    /\ UNCHANGED <<global, now, lvc, stage, terminated, conns, keys, resyncs, history>>

-----------------------------------------------------------------------------
(***************************************************************************)
(* The control thread, in do_resync.  It only goes on when its refresh has *)
(* returned.                                                               *)
(***************************************************************************)
At(s) == stage = s /\ local[Control].pc = "off"

set_total_buckets ==
    /\ At("rest") /\ resyncs < MaxResyncs
    /\ resyncs' = resyncs + 1
    /\ \E n \in Buckets : total' = n
    /\ stage' = "work"
    /\ local' = Call(Control)
    /\ UNCHANGED <<count, timestamp, now, lvc, terminated, conns, keys, history>>

(***************************************************************************)
(* perform_single_tap adds a connection and starts its thread.  The new    *)
(* record forces a report from its constructor, before add_connection has  *)
(* put it into _connections.                                               *)
(***************************************************************************)
add_connection(t) ==
    /\ At("work") /\ lock = "free"
    /\ local[t].pc = "off" /\ t \notin connections
    /\ conn_lvc' = connections
    /\ connections' = connections \cup {t}
    /\ local' = [local EXCEPT ![t] = Blank("run")]
    /\ UNCHANGED <<global, now, lvc, stage, terminated, lock, keys, resyncs, history>>

complete_single_tap(t) ==
    /\ At("work") /\ local[t].pc \in {"ended", "failed"}
    /\ local' = [local EXCEPT ![t] = Blank("off")]
    /\ UNCHANGED <<global, now, lvc, stage, terminated, conns, keys, resyncs, history>>

(* Mutant: the taps are not joined before the statistics are reset.        *)
WorklistProcessed_unjoined ==
    /\ At("work")
    /\ stage' = "reset"
    /\ UNCHANGED <<global, now, lvc, local, terminated, conns, keys, resyncs, history>>

WorklistProcessed ==
    /\ At("work") /\ \A t \in Tap : local[t].pc = "off"
    /\ stage' = "reset"
    /\ UNCHANGED <<global, now, lvc, local, terminated, conns, keys, resyncs, history>>

(* AstaireGlobalStatistics::reset, store by store; then the refresh.       *)
reset ==
    /\ \/ /\ At("reset")
          /\ timestamp' = now /\ stage' = "reset_total"
          /\ UNCHANGED <<total, count, local, keys, history>>
       \/ /\ At("reset_total")
          /\ total' = 0 /\ stage' = "reset_count"
          /\ UNCHANGED <<count, timestamp, local, keys, history>>
       \/ /\ At("reset_count")
          /\ count' = 0 /\ stage' = "reset_conns"
          /\ local' = Call(Control)
          /\ keys' = 0 /\ owed' = 0 /\ reported' = 0
          /\ UNCHANGED <<total, timestamp, overtaken>>
    /\ UNCHANGED <<now, lvc, terminated, conns, resyncs>>

(* AstairePerConnectionStatistics::reset, called without the lock.         *)
reset_conns ==
    /\ At("reset_conns")
    /\ connections' = {} /\ conn_lvc' = {}
    /\ stage' = "rest"
    /\ UNCHANGED <<global, now, lvc, local, terminated, lock, keys, resyncs, history>>

-----------------------------------------------------------------------------
(***************************************************************************)
(* A tap thread: per record a counter and then, under the lock, the        *)
(* record's own statistics, whose refresh reports when a period is over.   *)
(* When it has succeeded it counts the buckets and sets, under the lock,   *)
(* the gauge resynced_bucket_count of its connection.                      *)
(***************************************************************************)
Count(t, next) ==
    /\ local[t].pc = "run"
    /\ count' = count + 1
    /\ local' = [local EXCEPT ![t] = [pc |-> "load", ts |-> 0, total |-> 0,
                                     count |-> count + 1, next |-> next]]
    /\ UNCHANGED <<total, timestamp, now, lvc, stage, terminated, conns, resyncs, history>>

increment_resynced_keys_count(t) ==
    /\ Count(t, "conn") /\ keys < MaxKeys
    /\ keys' = keys + 1

increment_resynced_bucket_count(t) == Count(t, "end") /\ UNCHANGED keys

LockConn(t) ==
    /\ local[t].pc = "conn" /\ lock = "free"
    /\ lock' = t
    /\ local' = [local EXCEPT ![t] = Blank("update")]
    /\ UNCHANGED <<global, now, lvc, stage, terminated, connections, conn_lvc, keys,
                   resyncs, history>>

UpdateConn(t) ==
    /\ local[t].pc = "update"
    /\ conn_lvc' \in {conn_lvc, connections}
    /\ lock' = "free"
    /\ local' = [local EXCEPT ![t] = Blank("run")]
    /\ UNCHANGED <<global, now, lvc, stage, terminated, connections, keys, resyncs, history>>

TapEnds(t) ==
    /\ local[t].pc = "end" /\ lock = "free"
    /\ conn_lvc' = connections
    /\ local' = [local EXCEPT ![t] = Blank("ended")]
    /\ UNCHANGED <<global, now, lvc, stage, terminated, lock, connections, keys, resyncs,
                   history>>

(* A tap fails, at once when it could not be given a thread.               *)
TapFails(t) ==
    /\ local[t].pc = "run"
    /\ local' = [local EXCEPT ![t] = Blank("failed")]
    /\ UNCHANGED <<global, now, lvc, stage, terminated, conns, keys, resyncs, history>>

-----------------------------------------------------------------------------
(***************************************************************************)
(* main deletes the statistics: ~AstairePerConnectionStatistics is another *)
(* reset, and ~AstaireGlobalStatistics ends the refresh thread.  Deleting  *)
(* them under a resync is module Astaire's; here the control thread rests. *)
(***************************************************************************)
DeleteStatistics ==
    /\ At("rest") /\ local[Refresher].pc = "wait"
    /\ terminated' = TRUE
    /\ stage' = "deleting"
    /\ connections' = {} /\ conn_lvc' = {}
    /\ UNCHANGED <<global, now, lvc, local, lock, keys, resyncs, history>>

JoinRefresher ==
    /\ At("deleting") /\ local[Refresher].pc = "exited"
    /\ stage' = "deleted"
    /\ UNCHANGED <<global, now, lvc, local, terminated, conns, keys, resyncs, history>>

ControlStep ==
    \/ set_total_buckets \/ WorklistProcessed \/ reset \/ reset_conns
    \/ DeleteStatistics \/ JoinRefresher
    \/ refresh(Control)
    \/ \E t \in Tap : add_connection(t) \/ complete_single_tap(t)

RefresherStep == thread_func \/ refresh(Refresher)

TapStep(t) ==
    \/ increment_resynced_keys_count(t) \/ increment_resynced_bucket_count(t) \/ refresh(t)
    \/ LockConn(t) \/ UpdateConn(t) \/ TapEnds(t) \/ TapFails(t)

StatNext ==
    \/ PeriodPasses \/ ControlStep \/ RefresherStep
    \/ \E t \in Tap : TapStep(t)

(***************************************************************************)
(* The refresh thread and main go on, and so does a refresh once called.   *)
(* Nothing says that a tap ends: it may wait for its server for ever.      *)
(***************************************************************************)
StatFairness ==
    /\ WF_statvars(RefresherStep)
    /\ WF_statvars(JoinRefresher)
    /\ WF_statvars(refresh(Control))

-----------------------------------------------------------------------------
PC == {"off", "wait", "loop", "exited", "run", "ended", "failed", "load", "claim", "total",
       "count", "report", "conn", "update", "end"}
Local == [pc : PC, ts : 0..MaxPeriods, total : Buckets \cup {0}, count : Nat,
          next : {"conn", "end"}]

StatTypeOK ==
    /\ total \in Buckets \cup {0} /\ count \in Nat
    /\ timestamp \in 0..MaxPeriods /\ now \in 0..MaxPeriods
    /\ lvc \in [total : Buckets \cup {0}, count : Nat]
    /\ local \in [Thread -> Local]
    /\ stage \in {"rest", "work", "reset", "reset_total", "reset_count", "reset_conns",
                  "deleting", "deleted"}
    /\ terminated \in BOOLEAN
    /\ lock \in Tap \cup {"free"} /\ connections \subseteq Tap /\ conn_lvc \subseteq Tap
    /\ keys \in 0..MaxKeys /\ resyncs \in 0..MaxResyncs
    /\ owed \in Nat /\ reported \in Nat /\ overtaken \in BOOLEAN

(***************************************************************************)
(* "If we fail the CAS, someone else has just handled this tick and we can *)
(* leave the reporting to them": a count whose thread lost the race for    *)
(* the tick has been reported, or is about to be by a thread that has not  *)
(* yet loaded the counter, or loaded it late enough.  Counts start anew    *)
(* with the reset that ends a resync; a report of an earlier resync that   *)
(* comes out after it is taken for one of the new counts.                  *)
(***************************************************************************)
LostTickIsReported ==
    \/ owed <= reported
    \/ \E t \in Thread : \/ local[t].pc \in {"total", "count"}
                         \/ local[t].pc = "report" /\ local[t].count >= owed

(***************************************************************************)
(* do_resync deletes the ConnectionRecords without taking the lock: no tap *)
(* thread is using its record, or will, when it does.                      *)
(***************************************************************************)
RecordsOutliveTaps ==
    \A t \in Tap : local[t].pc # "off" => t \in connections

(***************************************************************************)
(* Whatever reports overtook each other, and even if a tap hangs, the      *)
(* refresh thread has the current values reported in the end.              *)
(***************************************************************************)
ReportsSettle == <>[](lvc = [total |-> total, count |-> count])

(* The destructor ends the refresh thread and returns.                     *)
DestructorReturns == stage = "deleting" ~> stage = "deleted"
=============================================================================
