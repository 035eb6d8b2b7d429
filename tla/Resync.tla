------------------------------- MODULE Resync -------------------------------
(***************************************************************************)
(* One resync of the local memcached: Astaire::do_resync and, under it,    *)
(* process_worklist with its rounds of concurrent tap threads.             *)
(*                                                                         *)
(* The control thread runs do_resync from beginning to end, so its steps   *)
(* are ordered by the state they test; the tap threads it starts in a      *)
(* round run concurrently with it and with each other.  What a tap thread  *)
(* does with the records it receives is module TapBuckets; here a thread   *)
(* ends with tap_data->success true or false.                              *)
(***************************************************************************)
EXTENDS Worklist

CONSTANT Views   \* the cluster views a resync may be run with

ASSUME ViewsAssumption == \A view \in Views : IsView(view)

VARIABLES
    resyncing,              \* process_worklist is on the control thread's stack
    owl,                    \* the outstanding work list
    unstreamed_buckets,
    taps,                   \* the TapList of the current round
    to_start,               \* servers of taps not yet given a thread
    tap_handles,            \* threads to join, in the order they were created
    thread,                 \* per server: its tap thread and thread data
    connections,            \* number of records in _per_conn_stats
    total_buckets,          \* _global_stats gauges
    resynced_bucket_count,
    alarm,                  \* the resync-in-progress alarm, as last reported
    report,                 \* how the last resync was logged
    source,                 \* history: the work list as first calculated
    log                     \* history: <<vbucket, server, outcome>> of each tap

stats == <<connections, total_buckets, resynced_bucket_count>>
round == <<owl, taps, to_start, tap_handles, thread>>
history == <<source, log>>
vars == <<resyncing, round, unstreamed_buckets, stats, alarm, report, history>>

NoThread == [state |-> "none", buckets |-> {}, conn_stats |-> 0]
NoMap == [v \in {} |-> {}]

Outcome == {"ok", "failed", "dropped"}

TypeOK ==
    /\ resyncing \in BOOLEAN
    /\ DOMAIN owl \subseteq VBucket
    /\ \A v \in DOMAIN owl : owl[v] \subseteq Nat \X Server
    /\ unstreamed_buckets \subseteq VBucket
    /\ DOMAIN taps \subseteq Server
    /\ \A s \in DOMAIN taps : taps[s] \subseteq VBucket
    /\ to_start \subseteq Server
    /\ tap_handles \in Seq(Server)
    /\ thread \in [Server -> [state : {"none", "running", "ok", "failed"},
                              buckets : SUBSET VBucket, conn_stats : Nat]]
    /\ connections \in Nat
    /\ total_buckets \in Nat
    /\ resynced_bucket_count \in Nat
    /\ alarm \in {"unknown", "set", "clear"}
    /\ report \in {"none", "ok", "failed"}
    /\ DOMAIN source \subseteq VBucket
    /\ \A v \in DOMAIN source : source[v] \subseteq Nat \X Server
    /\ log \subseteq VBucket \X Server \X Outcome

Init ==
    /\ resyncing = FALSE
    /\ owl = NoMap
    /\ unstreamed_buckets = {}
    /\ taps = NoMap
    /\ to_start = {}
    /\ tap_handles = <<>>
    /\ thread = [s \in Server |-> NoThread]
    /\ connections = 0
    /\ total_buckets = 0
    /\ resynced_bucket_count = 0
    /\ alarm = "unknown"
    /\ report = "none"
    /\ source = NoMap
    /\ log = {}

-----------------------------------------------------------------------------
\* do_resync up to the loop of process_worklist.  With an empty work list
\* do_resync returns at once and changes nothing.
do_resync(view, full_resync) ==
    LET worklist == calculate_worklist(view, full_resync)
    IN  /\ ~resyncing
        /\ DOMAIN worklist # {}
        /\ resyncing' = TRUE
        /\ owl' = worklist
        /\ unstreamed_buckets' = DOMAIN worklist
        /\ total_buckets' = owl_total_buckets(worklist)
        /\ alarm' = "set"
        /\ report' = "none"
        /\ source' = worklist
        /\ log' = {}
        /\ UNCHANGED <<taps, to_start, tap_handles, thread, connections,
                       resynced_bucket_count>>

RoundOver == to_start = {} /\ tap_handles = <<>>

\* The head of the while loop: the taps of the next round.
NextRound ==
    /\ resyncing
    /\ RoundOver
    /\ ~owl_empty(owl)
    /\ taps' = calculate_taps(owl)
    /\ owl' = owl_after_taps(owl)
    /\ to_start' = DOMAIN taps'
    /\ UNCHANGED <<resyncing, unstreamed_buckets, tap_handles, thread, stats,
                   alarm, report, history>>

\* A tap thread is created: it gets its own copy of the bucket list and a
\* statistics record of its own.
perform_single_tap(s) ==
    /\ s \in to_start
    /\ to_start' = to_start \ {s}
    /\ connections' = connections + 1
    /\ thread' = [thread EXCEPT ![s] = [state |-> "running",
                                        buckets |-> taps[s],
                                        conn_stats |-> connections']]
    /\ tap_handles' = Append(tap_handles, s)
    /\ UNCHANGED <<resyncing, owl, taps, unstreamed_buckets, total_buckets,
                   resynced_bucket_count, alarm, report, history>>

\* pthread_create fails: the statistics record stays, there is no thread to
\* join, and the server stays in the rest of the work list.
perform_single_tap_fails(s) ==
    /\ s \in to_start
    /\ to_start' = to_start \ {s}
    /\ connections' = connections + 1
    /\ log' = log \cup {<<v, s, "dropped">> : v \in taps[s]}
    /\ UNCHANGED <<resyncing, owl, taps, tap_handles, thread, source,
                   unstreamed_buckets, total_buckets, resynced_bucket_count,
                   alarm, report>>

\* The last steps of a tap thread.
tap_buckets_thread(s, success) ==
    /\ thread[s].state = "running"
    /\ thread' = [thread EXCEPT ![s].state = IF success THEN "ok" ELSE "failed"]
    /\ resynced_bucket_count' = IF success
                                THEN resynced_bucket_count + Cardinality(thread[s].buckets)
                                ELSE resynced_bucket_count
    /\ UNCHANGED <<resyncing, owl, taps, to_start, tap_handles,
                   unstreamed_buckets, connections, total_buckets, alarm,
                   report, history>>

\* Mutant: the buckets count as streamed before the outcome is looked at.
complete_single_tap_optimistic ==
    /\ to_start = {}
    /\ tap_handles # <<>>
    /\ LET server == Head(tap_handles)
           ended == thread[server].state
       IN  /\ ended \in {"ok", "failed"}
           /\ tap_handles' = Tail(tap_handles)
           /\ thread' = [thread EXCEPT ![server] = NoThread]
           /\ log' = log \cup {<<v, server, ended>> : v \in taps[server]}
           /\ unstreamed_buckets' = unstreamed_buckets \ taps[server]
           /\ owl' = IF ended = "ok" THEN owl ELSE blacklist_server(owl, server)
    /\ UNCHANGED <<resyncing, taps, to_start, stats, alarm, report, source>>

\* pthread_join returns the first handle's thread data, which is then freed.
complete_single_tap ==
    /\ to_start = {}
    /\ tap_handles # <<>>
    /\ LET server == Head(tap_handles)
           ended == thread[server].state
       IN  /\ ended \in {"ok", "failed"}
           /\ tap_handles' = Tail(tap_handles)
           /\ thread' = [thread EXCEPT ![server] = NoThread]
           /\ log' = log \cup {<<v, server, ended>> : v \in taps[server]}
           /\ IF ended = "ok"
              THEN /\ unstreamed_buckets' = unstreamed_buckets \ taps[server]
                   /\ UNCHANGED owl
              ELSE /\ owl' = blacklist_server(owl, server)
                   /\ UNCHANGED unstreamed_buckets
    /\ UNCHANGED <<resyncing, taps, to_start, stats, alarm, report, source>>

\* Mutant: do_resync tidies up while the last round's threads run.
FinishResync_early ==
    /\ resyncing
    /\ to_start = {}
    /\ owl_empty(owl)
    /\ report' = IF unstreamed_buckets = {} THEN "ok" ELSE "failed"
    /\ resyncing' = FALSE
    /\ alarm' = "clear"
    /\ total_buckets' = 0 /\ resynced_bucket_count' = 0 /\ connections' = 0
    /\ UNCHANGED <<round, unstreamed_buckets, history>>

\* process_worklist returns and do_resync tidies up.
FinishResync ==
    /\ resyncing
    /\ RoundOver
    /\ owl_empty(owl)
    /\ resyncing' = FALSE
    /\ report' = IF unstreamed_buckets = {} THEN "ok" ELSE "failed"
    /\ alarm' = "clear"
    /\ total_buckets' = 0
    /\ resynced_bucket_count' = 0
    /\ connections' = 0
    /\ owl' = NoMap
    /\ taps' = NoMap
    /\ unstreamed_buckets' = {}
    /\ UNCHANGED <<to_start, tap_handles, thread, history>>

ControlStep ==
    \/ NextRound
    \/ \E s \in Server : perform_single_tap(s) \/ perform_single_tap_fails(s)
    \/ complete_single_tap
    \/ FinishResync

Next ==
    \/ \E view \in Views, full_resync \in BOOLEAN : do_resync(view, full_resync)
    \/ ControlStep
    \/ \E s \in Server, success \in BOOLEAN : tap_buckets_thread(s, success)

Spec == Init /\ [][Next]_vars

\* The control thread runs, and a tap ends: every recv of a tap thread has a
\* ten second timeout and a TAP dump sends finitely many records.
FairSpec ==
    /\ Spec
    /\ WF_vars(ControlStep)
    /\ \A s \in Server :
           WF_vars(\E success \in BOOLEAN : tap_buckets_thread(s, success))
-----------------------------------------------------------------------------
Blacklisted == {s \in Server : \E v \in VBucket : <<v, s, "failed">> \in log}

\* The replica's turn for vbucket v is over, one way or another.
Settled(v, s) ==
    \/ s \in Blacklisted
    \/ \E how \in Outcome : <<v, s, how>> \in log

Tapping(v, s) == thread[s].state # "none" /\ v \in thread[s].buckets

Finished == ~resyncing /\ report # "none"

\* astaire.cpp:549-553: the replicas of a vbucket are tapped one after the
\* other.  No two tap threads ever stream the same vbucket at the same time.
OneTapPerBucket ==
    \A s, t \in Server : \A v \in VBucket :
        Tapping(v, s) /\ Tapping(v, t) => s = t

\* The primary goes first and each backup follows in the order of the list: a
\* replica is tapped only once every replica before it has been dealt with.
InTurn ==
    \A v \in DOMAIN source : \A e, f \in source[v] :
        /\ e[1] < f[1]
        /\ Tapping(v, f[2]) \/ (\E how \in Outcome : <<v, f[2], how>> \in log)
        => Settled(v, e[2])

\* blacklist_server holds for the rest of the resync: a server whose tap
\* failed is neither being tapped nor due to be.
BlacklistHolds ==
    \A s \in Blacklisted :
        /\ thread[s].state = "none"
        /\ s \notin to_start
        /\ \A v \in DOMAIN owl : \A e \in owl[v] : e[2] # s

\* No replica is forgotten: when a resync is over, each replica of each
\* vbucket of its work list has had its turn or failed in an earlier one.
AllReplicasTried ==
    Finished => \A v \in DOMAIN source : \A e \in source[v] : Settled(v, e[2])

\* The resync is logged as failed (astaire.cpp:614-622) exactly when some
\* vbucket was not streamed from any of its replicas.
ReportIsTruthful ==
    Finished =>
        (report = "ok" <=>
             \A v \in DOMAIN source : \E e \in source[v] : <<v, e[2], "ok">> \in log)

\* The progress statistics make sense to an operator: the number of buckets
\* resynced never passes the number needing resync, which is zero when idle.
ProgressBounded ==
    /\ resynced_bucket_count =< total_buckets
    /\ ~resyncing => total_buckets = 0

\* _per_conn_stats->reset() deletes the connection records: it never does so
\* while a tap thread still holds a pointer to one.
ConnStatsAlive ==
    \A s \in Server : thread[s].state # "none" => thread[s].conn_stats \in 1..connections

\* The vbuckets with a replica still to be tapped or joined.
Todo ==
    LET unjoined == {tap_handles[i] : i \in DOMAIN tap_handles}
    IN  {v \in DOMAIN owl : owl[v] # {}} \cup UNION {taps[s] : s \in to_start \cup unjoined}

Abstract == INSTANCE BucketResync WITH todo <- Todo

\* The taps and rounds implement a resync as its caller sees it: a vbucket that
\* has been dealt with does not come back, and process_worklist returns, and
\* the alarm is cleared, only when none is left in the work list or in a tap.
ImplementsBucketResync == Abstract!Spec

\* process_worklist terminates: each round takes one replica off every list.
ResyncTerminates == resyncing ~> ~resyncing
=============================================================================
