------------------------------ MODULE Astaire -------------------------------
(***************************************************************************)
(* The Astaire object: the control thread's loop, the SIGHUP and SIGUSR1   *)
(* handlers, construction and destruction, and the tag by which Astaire    *)
(* recognises that the local memcached has restarted.                      *)
(*                                                                         *)
(* The control thread holds _lock everywhere but in pthread_cond_timedwait *)
(* and before its first step, so each handler, which holds the lock for    *)
(* the whole of its body, is one step taken while the lock is free.  The   *)
(* control thread's own steps end at its requests to the local memcached,  *)
(* where a restart of memcached can come between.                          *)
(*                                                                         *)
(* A resync is seen here vbucket by vbucket; module Resync has the taps.   *)
(***************************************************************************)
EXTENDS Worklist

CONSTANTS
    Config,         \* the contents cluster_settings takes on, in order
    MaxFaults,      \* bound: crashes, restarts, failed requests and reads
    InitTag         \* bound: whether memcached may be tagged at the outset

ControlPoint == {"created", "top", "untag", "poll", "plan", "stream", "tag",
                 "wait", "exited"}

\* Configuration 0 is the view no configuration has been loaded into.
ViewOf(c) == IF c = 0 THEN EmptyView ELSE Config[c]

\* The vbuckets the local node is to hold, and those it already held.
Own(c) == LET target == target_replicas(ViewOf(c))
          IN  {v \in DOMAIN target : is_in_vector(target[v], Self)}
Have(c) == {v \in Own(c) : is_in_vector(At(ViewOf(c).current, v), Self)}

ASSUME ConfigAssumption ==
    /\ Len(Config) \in Nat \ {0}
    /\ DOMAIN Config = 1..Len(Config)
    /\ \A c \in DOMAIN Config : IsView(Config[c])
\* The resize procedure of README.md: what a node currently holds is what it
\* was to hold under the configuration before.
ASSUME ResizeAssumption ==
    \A c \in 1..(Len(Config) - 1) : Have(c + 1) \subseteq Own(c)
ASSUME BoundsAssumption ==
    /\ MaxFaults \in Nat
    /\ InitTag \subseteq BOOLEAN

VARIABLES
    main,       \* main thread: constructor, running, SIGTERM, destructor
    control,    \* where the control thread is in its loop
    hup, usr1,  \* whether an updater thread is waiting to run its handler
    quiet,      \* history: SIGTERM came when there was nothing to do, and
                \* nothing has turned up since
    terminated, view_updated, full_resync_requested,    \* the members
    signalled,  \* _cv has been signalled since the control thread waited
    view,       \* the configuration loaded into _view
    resync, full_resync,    \* locals of control_thread
    todo,       \* vbuckets of the work list not dealt with yet
    laps,       \* history: resyncs since the control thread last waited
    alarm,      \* the resync-in-progress alarm, as last reported
    config,     \* the contents of cluster_settings
    up, tag,    \* the local memcached: running, holding the tag record
    settled,    \* history: vbuckets whose records it was given, or which were
                \* logged as failed, since it last started
    trusted,    \* history: the last poll to find the tag missing was made
                \* with a configuration loaded, since memcached last started
    faults

process == <<main, hup, usr1, quiet>>
flags == <<terminated, view_updated, full_resync_requested>>
locals == <<resync, full_resync, todo, laps>>
memcached == <<up, tag, settled, trusted>>
vars == <<process, control, flags, signalled, view, locals, alarm, config,
          memcached, faults>>

TypeOK ==
    /\ main \in {"ctor", "running", "stopping", "dtor", "join", "gone"}
    /\ control \in ControlPoint
    /\ hup \in BOOLEAN /\ usr1 \in BOOLEAN /\ quiet \in BOOLEAN
    /\ terminated \in BOOLEAN
    /\ view_updated \in BOOLEAN
    /\ full_resync_requested \in BOOLEAN
    /\ signalled \in BOOLEAN
    /\ view \in 0..Len(Config)
    /\ resync \in BOOLEAN /\ full_resync \in BOOLEAN
    /\ todo \subseteq VBucket
    /\ laps \in Nat
    /\ control # "stream" => todo = {}
    /\ alarm \in {"unknown", "set", "clear"}
    /\ config \in 1..Len(Config)
    /\ up \in BOOLEAN /\ tag \in BOOLEAN /\ trusted \in BOOLEAN
    /\ settled \subseteq VBucket
    /\ faults \in 0..MaxFaults

\* What the constructor sets up before it starts the control thread.
NewProcess ==
    /\ main' = "ctor"
    /\ control' = "created"
    /\ hup' = FALSE /\ usr1' = FALSE /\ quiet' = FALSE
    /\ terminated' = FALSE
    /\ view_updated' = FALSE
    /\ full_resync_requested' = FALSE
    /\ signalled' = FALSE
    /\ view' = 0
    /\ resync' = FALSE /\ full_resync' = FALSE
    /\ todo' = {} /\ laps' = 0

Init ==
    /\ main = "ctor"
    /\ control = "created"
    /\ hup = FALSE /\ usr1 = FALSE /\ quiet = FALSE
    /\ terminated = FALSE
    /\ view_updated = FALSE
    /\ full_resync_requested = FALSE
    /\ signalled = FALSE
    /\ view = 0
    /\ resync = FALSE /\ full_resync = FALSE
    /\ todo = {} /\ laps = 0
    /\ alarm = "unknown"
    /\ config = 1
    /\ up = TRUE
    /\ tag \in InitTag
    /\ settled = IF tag THEN Own(1) ELSE {}
    /\ trusted = tag
    /\ faults = 0

Fault == faults < MaxFaults /\ faults' = faults + 1
NoFault == UNCHANGED faults

\* Mutant: the handlers do not take _lock.
LockFree_unlocked == TRUE

\* _lock is held by nobody between the steps of this model.
LockFree == control \in {"created", "wait", "exited"}

\* Mutant: the signal is left out.
Signal_none == UNCHANGED signalled

\* pthread_cond_signal(&_cv): it is lost unless the control thread waits.
Signal == signalled' = (control = "wait")
-----------------------------------------------------------------------------
\* Signal handlers, construction and destruction.

\* read_config, then _view->update.
update_view == view' = config /\ view_updated' = TRUE /\ NoFault
update_view_fails == UNCHANGED <<view, view_updated>> /\ Fault

reload_config ==
    /\ LockFree
    /\ \/ update_view /\ Signal
       \/ update_view_fails /\ UNCHANGED signalled
    /\ UNCHANGED <<control, terminated, full_resync_requested, locals, alarm,
                   config, memcached>>

trigger_full_resync ==
    /\ LockFree
    /\ update_view \/ update_view_fails
    /\ full_resync_requested' = TRUE
    /\ Signal
    /\ UNCHANGED <<control, terminated, locals, alarm, config, memcached>>

\* The constructor runs reload_config itself, once the control thread exists.
FirstReload ==
    /\ main = "ctor"
    /\ reload_config
    /\ main' = "running"
    /\ UNCHANGED <<hup, usr1, quiet>>

\* A signal wakes an updater thread, which then needs the lock.
Sighup ==
    /\ main \in {"running", "stopping"} /\ ~hup
    /\ hup' = TRUE
    /\ quiet' = FALSE
    /\ UNCHANGED <<main, usr1, control, flags, signalled, view, locals, alarm,
                   config, memcached, faults>>

Sigusr1 ==
    /\ main \in {"running", "stopping"} /\ ~usr1
    /\ usr1' = TRUE
    /\ quiet' = FALSE
    /\ UNCHANGED <<main, hup, control, flags, signalled, view, locals, alarm,
                   config, memcached, faults>>

HandleHup == hup /\ reload_config /\ hup' = FALSE /\ UNCHANGED <<main, usr1, quiet>>
HandleUsr1 ==
    usr1 /\ trigger_full_resync /\ usr1' = FALSE /\ UNCHANGED <<main, hup, quiet>>

\* SIGTERM: resync_main frees the statistics, and only then does it delete the
\* Astaire object, whose control thread still runs.
Shutdown ==
    /\ main = "running"
    /\ main' = "stopping"
    /\ quiet' = /\ control = "wait" /\ tag
                /\ ~view_updated /\ ~full_resync_requested
                /\ ~hup /\ ~usr1
    /\ UNCHANGED <<hup, usr1, control, flags, signalled, view, locals, alarm,
                   config, memcached, faults>>

DeleteAstaire ==
    /\ main = "stopping"
    /\ main' = "dtor"
    /\ UNCHANGED quiet
    /\ UNCHANGED <<hup, usr1, control, flags, signalled, view, locals, alarm,
                   config, memcached, faults>>

\* Mutant: the destructor only signals the condition variable.
Terminate_signals_only ==
    /\ main = "dtor" /\ ~hup /\ ~usr1
    /\ LockFree
    /\ Signal
    /\ main' = "join"
    /\ UNCHANGED <<hup, usr1, quiet, control, flags, view, locals, alarm,
                   config, memcached, faults>>

\* The destructor, once both updater threads have stopped.
Terminate ==
    /\ main = "dtor" /\ ~hup /\ ~usr1
    /\ LockFree
    /\ terminated' = TRUE
    /\ Signal
    /\ main' = "join"
    /\ UNCHANGED <<hup, usr1, quiet, control, view_updated,
                   full_resync_requested, view, locals, alarm, config,
                   memcached, faults>>

JoinControl ==
    /\ main = "join" /\ control = "exited"
    /\ main' = "gone"
    /\ UNCHANGED <<hup, usr1, quiet, control, flags, signalled, view, locals, alarm,
                   config, memcached, faults>>

\* The process dies, or is started again after a shutdown.
Crash ==
    /\ main # "gone"
    /\ NewProcess
    /\ Fault
    /\ trusted' = (trusted /\ tag)
    /\ UNCHANGED <<alarm, config, up, tag, settled>>

\* resync_main gives up before it creates anything: the pid file is locked or
\* cluster_settings cannot be read.
StartRefused ==
    /\ main = "gone"
    /\ Fault
    /\ UNCHANGED <<process, control, flags, signalled, view, locals, alarm,
                   config, memcached>>

Start ==
    /\ main = "gone"
    /\ NewProcess
    /\ trusted' = (trusted /\ tag)
    /\ UNCHANGED <<alarm, config, up, tag, settled, faults>>
-----------------------------------------------------------------------------
\* The control thread.

LockAndLoop ==
    /\ control = "created"
    /\ control' = "top"
    /\ UNCHANGED <<process, flags, signalled, view, locals, alarm, config,
                   memcached, faults>>

\* Mutant: the triggers are not reset.
CheckTriggers_kept ==
    /\ control = "top" /\ ~terminated
    /\ resync' = (view_updated \/ full_resync_requested)
    /\ full_resync' = full_resync_requested
    /\ control' = IF full_resync_requested THEN "untag" ELSE "poll"
    /\ UNCHANGED <<process, flags, signalled, view, todo, laps, alarm, config,
                   memcached, faults>>

\* Mutant: only a requested full resync is a trigger.
CheckTriggers_full_only ==
    /\ control = "top" /\ ~terminated
    /\ resync' = full_resync_requested
    /\ full_resync' = full_resync_requested
    /\ view_updated' = FALSE
    /\ full_resync_requested' = FALSE
    /\ control' = IF full_resync_requested THEN "untag" ELSE "poll"
    /\ UNCHANGED <<process, terminated, signalled, view, todo, laps, alarm,
                   config, memcached, faults>>

\* while (!_terminated): collect the triggers.
CheckTriggers ==
    /\ control = "top" /\ ~terminated
    /\ resync' = (view_updated \/ full_resync_requested)
    /\ full_resync' = full_resync_requested
    /\ view_updated' = FALSE
    /\ full_resync_requested' = FALSE
    /\ control' = IF full_resync_requested THEN "untag" ELSE "poll"
    /\ UNCHANGED <<process, terminated, signalled, view, todo, laps, alarm,
                   config, memcached, faults>>

ExitLoop ==
    /\ control = "top" /\ terminated
    /\ control' = "exited"
    /\ UNCHANGED <<process, flags, signalled, view, locals, alarm, config,
                   memcached, faults>>

\* local_req_rsp fails when memcached is down, and may fail when it is up: no
\* connection, a timeout or an unexpected response.
RequestFails == IF up THEN Fault ELSE NoFault

\* The result of the DELETE is ignored.  A request that failed may or may not
\* have reached memcached.
untag_local_memcached ==
    /\ control = "untag"
    /\ \/ up /\ tag' = FALSE /\ NoFault
       \/ RequestFails /\ tag' \in {tag, FALSE}
    /\ control' = "poll"
    /\ UNCHANGED <<process, flags, signalled, view, locals, alarm, config, up,
                   settled, trusted>>

\* Mutant: OUT_OF_DATE starts a resync, but not a full one.
poll_local_memcached_minimal(result) ==
    /\ control = "poll"
    /\ \/ result = "UP_TO_DATE" /\ up /\ tag /\ NoFault
       \/ result = "OUT_OF_DATE" /\ up /\ ~tag /\ NoFault
       \/ result = "ERROR" /\ RequestFails
    /\ trusted' = IF result = "OUT_OF_DATE" THEN view # 0 ELSE trusted
    /\ resync' = (resync \/ result = "OUT_OF_DATE")
    /\ IF resync'
       THEN control' = "plan" /\ UNCHANGED <<signalled, alarm, laps>>
       ELSE control' = "wait" /\ signalled' = FALSE /\ alarm' = "clear" /\ laps' = 0
    /\ UNCHANGED <<process, flags, view, full_resync, todo, config, up, tag, settled>>

\* Mutant: a missing tag is taken for an error.
poll_local_memcached_no_tag(result) ==
    /\ control = "poll"
    /\ IF result = "UP_TO_DATE" THEN up /\ tag /\ NoFault ELSE result = "ERROR" /\ RequestFails
    /\ IF resync
       THEN control' = "plan" /\ UNCHANGED <<signalled, alarm, laps>>
       ELSE control' = "wait" /\ signalled' = FALSE /\ alarm' = "clear" /\ laps' = 0
    /\ UNCHANGED <<process, flags, view, resync, full_resync, todo, config, memcached>>

\* Mutant: a failed poll is taken for a missing tag.
poll_local_memcached_error(result) ==
    /\ control = "poll"
    /\ \/ result = "UP_TO_DATE" /\ up /\ tag /\ NoFault
       \/ result = "OUT_OF_DATE" /\ up /\ ~tag /\ NoFault
       \/ result = "ERROR" /\ RequestFails
    /\ trusted' = IF result = "OUT_OF_DATE" THEN view # 0 ELSE trusted
    /\ resync' = (resync \/ result # "UP_TO_DATE")
    /\ full_resync' = (full_resync \/ result # "UP_TO_DATE")
    /\ IF resync'
       THEN control' = "plan" /\ UNCHANGED <<signalled, alarm, laps>>
       ELSE control' = "wait" /\ signalled' = FALSE /\ alarm' = "clear" /\ laps' = 0
    /\ UNCHANGED <<process, flags, view, todo, config, up, tag, settled>>

\* Mutant: the loop goes round without waiting on _cv.
poll_local_memcached_no_wait(result) ==
    /\ control = "poll"
    /\ \/ result = "UP_TO_DATE" /\ up /\ tag /\ NoFault
       \/ result = "OUT_OF_DATE" /\ up /\ ~tag /\ NoFault
       \/ result = "ERROR" /\ RequestFails
    /\ trusted' = IF result = "OUT_OF_DATE" THEN view # 0 ELSE trusted
    /\ resync' = (resync \/ result = "OUT_OF_DATE")
    /\ full_resync' = (full_resync \/ result = "OUT_OF_DATE")
    /\ IF resync'
       THEN control' = "plan" /\ UNCHANGED <<signalled, alarm, laps>>
       ELSE control' = "top" /\ UNCHANGED signalled /\ alarm' = "clear" /\ laps' = 0
    /\ UNCHANGED <<process, flags, view, todo, config, up, tag, settled>>

\* Mutant: the alarm is cleared by do_resync only.
poll_local_memcached_alarm_left(result) ==
    /\ control = "poll"
    /\ \/ result = "UP_TO_DATE" /\ up /\ tag /\ NoFault
       \/ result = "OUT_OF_DATE" /\ up /\ ~tag /\ NoFault
       \/ result = "ERROR" /\ RequestFails
    /\ trusted' = IF result = "OUT_OF_DATE" THEN view # 0 ELSE trusted
    /\ resync' = (resync \/ result = "OUT_OF_DATE")
    /\ full_resync' = (full_resync \/ result = "OUT_OF_DATE")
    /\ IF resync'
       THEN control' = "plan" /\ UNCHANGED <<signalled, laps>>
       ELSE control' = "wait" /\ signalled' = FALSE /\ laps' = 0
    /\ UNCHANGED <<process, flags, view, todo, alarm, config, up, tag, settled>>

\* A GET of the tag, and what the loop makes of the answer.
poll_local_memcached(result) ==
    /\ control = "poll"
    /\ \/ result = "UP_TO_DATE" /\ up /\ tag /\ NoFault
       \/ result = "OUT_OF_DATE" /\ up /\ ~tag /\ NoFault
       \/ result = "ERROR" /\ RequestFails
    /\ trusted' = IF result = "OUT_OF_DATE" THEN view # 0 ELSE trusted
    /\ resync' = (resync \/ result = "OUT_OF_DATE")
    /\ full_resync' = (full_resync \/ result = "OUT_OF_DATE")
    /\ IF resync'
       THEN control' = "plan" /\ UNCHANGED <<signalled, alarm, laps>>
       ELSE control' = "wait" /\ signalled' = FALSE /\ alarm' = "clear" /\ laps' = 0
    /\ UNCHANGED <<process, flags, view, todo, config, up, tag, settled>>

\* do_resync calculates its work list.  Vbuckets that have to be fetched but
\* have no replica to be fetched from are settled there and then.
StartResync ==
    LET worklist == DOMAIN calculate_worklist(ViewOf(view), full_resync)
        wanted == IF full_resync THEN Own(view) ELSE Own(view) \ Have(view)
    IN  /\ control = "plan"
        /\ todo' = worklist
        /\ laps' = laps + 1
        /\ IF worklist = {}
           THEN control' = "tag" /\ UNCHANGED alarm
           ELSE control' = "stream" /\ alarm' = "set"
        /\ settled' = IF up THEN settled \cup (wanted \ worklist) ELSE settled
        /\ UNCHANGED <<process, flags, signalled, view, resync, full_resync,
                       config, up, tag, trusted, faults>>

\* A vbucket's last tap ends: its records are in the local memcached, or the
\* vbucket is among those the resync is logged as having failed.
StreamBucket(v) ==
    /\ control = "stream" /\ v \in todo
    /\ todo' = todo \ {v}
    /\ settled' = IF up THEN settled \cup {v} ELSE settled
    /\ UNCHANGED <<process, control, flags, signalled, view, resync,
                   full_resync, laps, alarm, config, up, tag, trusted, faults>>

FinishResync ==
    /\ control = "stream" /\ todo = {}
    /\ control' = "tag"
    /\ alarm' = "clear"
    /\ UNCHANGED <<process, flags, signalled, view, locals, config, memcached,
                   faults>>

\* The tag is set even if the resync failed.  The result is ignored.
tag_local_memcached ==
    /\ control = "tag"
    /\ \/ up /\ tag' = TRUE /\ NoFault
       \/ RequestFails /\ tag' \in {tag, up}
    /\ control' = "top"
    /\ UNCHANGED <<process, flags, signalled, view, locals, alarm, config, up,
                   settled, trusted>>

\* pthread_cond_timedwait returns: signalled, or ten seconds have passed.
WakeUp ==
    /\ control = "wait"
    /\ control' = "top"
    /\ UNCHANGED <<process, flags, signalled, view, locals, alarm, config,
                   memcached, faults>>

ControlStep ==
    \/ LockAndLoop
    \/ CheckTriggers
    \/ ExitLoop
    \/ untag_local_memcached
    \/ \E result \in {"UP_TO_DATE", "OUT_OF_DATE", "ERROR"} :
           poll_local_memcached(result)
    \/ StartResync
    \/ \E v \in VBucket : StreamBucket(v)
    \/ FinishResync
    \/ tag_local_memcached
    \/ WakeUp
-----------------------------------------------------------------------------
\* The environment.

\* memcached exits and loses all its records, the tag among them.
MemcachedExits ==
    /\ up
    /\ up' = FALSE
    /\ tag' = FALSE
    /\ settled' = {}
    /\ trusted' = FALSE
    /\ quiet' = FALSE
    /\ Fault
    /\ UNCHANGED <<main, hup, usr1, control, flags, signalled, view, locals,
                   alarm, config>>

MemcachedStarts ==
    /\ ~up
    /\ up' = TRUE
    /\ UNCHANGED <<process, control, flags, signalled, view, locals, alarm,
                   config, tag, settled, trusted, faults>>

\* The operator edits cluster_settings, having waited for the resync of the
\* contents before to complete (README.md).
EditConfig ==
    /\ config < Len(Config)
    /\ main = "running" /\ control = "wait"
    /\ view = config /\ ~view_updated
    /\ config' = config + 1
    /\ UNCHANGED <<process, control, flags, signalled, view, locals, alarm,
                   memcached, faults>>

Next ==
    \/ FirstReload
    \/ Sighup \/ HandleHup
    \/ Sigusr1 \/ HandleUsr1
    \/ Shutdown \/ DeleteAstaire \/ Terminate \/ JoinControl
    \/ Crash \/ Start \/ StartRefused
    \/ ControlStep
    \/ MemcachedExits \/ MemcachedStarts
    \/ EditConfig

Spec == Init /\ [][Next]_vars

\* Threads run.  A thread that wants _lock gets it some time that the control
\* thread waits: it waits for ten seconds unless another handler signals it.
\* monit restarts memcached.
FairSpec ==
    /\ Spec
    /\ WF_vars(ControlStep)
    /\ WF_vars(FirstReload)
    /\ WF_vars(DeleteAstaire)
    /\ SF_vars(HandleHup)
    /\ SF_vars(HandleUsr1)
    /\ SF_vars(Terminate)
    /\ WF_vars(JoinControl)
    /\ WF_vars(MemcachedStarts)
-----------------------------------------------------------------------------
Idle == control = "wait" /\ ~view_updated

\* The tag keeps its promise (astaire.cpp:783-787) whenever the poll that last
\* found it missing was made with a configuration loaded and memcached has not
\* restarted since: at rest, a tagged memcached then has had every vbucket it
\* should hold streamed to it since it started.
TrustedTagMeansUpToDate ==
    Idle /\ tag /\ trusted => Own(view) \subseteq settled

\* What the comment on poll_local_memcached says without qualification: "If
\* the tag is present it means that memcached has not restarted since the last
\* resync and therefore is up-to-date."
TagMeansUpToDate ==
    Idle /\ tag => Own(view) \subseteq settled

\* The condition variable protocol loses no wakeup: if the control thread
\* waits while there is something for it to do, it has been signalled.
NoLostWakeup ==
    /\ control = "wait"
    /\ view_updated \/ full_resync_requested \/ terminated
    => signalled

\* resync_main.cpp:297-300 frees the statistics before the control thread that
\* uses them is joined.  If SIGTERM finds the control thread waiting, memcached
\* tagged and no signal being handled, and neither a signal nor a restart of
\* memcached follows, no resync is there to use them: not even when the polls
\* the control thread makes in between fail.
QuietShutdown ==
    main \in {"stopping", "dtor", "join"} /\ quiet => control # "stream"

\* The loop does not resync over and over while handlers wait for _lock: every
\* resync after the first since the control thread last waited has been paid
\* for by a failed request or a restart of memcached, then or earlier.
ResyncsNotRepeated == laps =< faults + 1

\* The lock does what astaire.hpp:43-47 says it is for: no reload changes the
\* view between the planning of a resync and the tag that ends it.
ViewFixedDuringResync ==
    [][(control \in {"plan", "stream", "tag"} /\ main' # "ctor") => view' = view]_vars

\* A handler blocked on the lock by a running resync gets to run: the control
\* thread does not go from resync to resync for ever.
HandlersRun ==
    /\ hup ~> ~hup
    /\ usr1 ~> ~usr1

\* SIGTERM ends the process: the destructor gets the lock and its join returns.
ShutdownCompletes == main = "stopping" ~> main \in {"gone", "ctor"}

\* A configuration that was loaded is acted upon: a resync is started with it
\* unless the process ends first.
ReloadLeadsToResync ==
    view_updated ~> control = "plan" \/ terminated \/ main = "ctor"

\* A restarted memcached is noticed even if nothing signals the control thread:
\* it gets a full resync, unless the resync of a reload tags it first because
\* the poll between the two failed.
UntaggedIsResynced ==
    control = "wait" /\ ~tag ~>
        (control = "plan" /\ full_resync) \/ tag \/ terminated \/ main = "ctor"

\* The resync alarm does not stay raised while there is an Astaire process, not
\* even when the one before crashed in the middle of a resync.
AlarmClears == alarm = "set" ~> alarm = "clear" \/ main = "gone"
=============================================================================
