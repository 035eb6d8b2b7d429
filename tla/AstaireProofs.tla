---------------------------- MODULE AstaireProofs ---------------------------
(***************************************************************************)
(* Proofs about module Astaire, for every cluster, sequence of             *)
(* configurations and number of faults.                                    *)
(***************************************************************************)
EXTENDS Astaire, TLAPS

\* Whatever configuration is loaded, the view is well formed, so the vbuckets
\* that calculate_worklist takes from its target replicas are vbuckets.
LEMMA TargetBuckets ==
    ASSUME NEW c \in 0..Len(Config)
    PROVE  DOMAIN target_replicas(ViewOf(c)) \subseteq VBucket
<1>1. IsView(ViewOf(c))
  <2>1. CASE c = 0
    BY <2>1, Zenon DEF ViewOf, EmptyView, IsView, IsReplicaMap
  <2>2. CASE c # 0
    <3>1. c \in 1..Len(Config)
      BY <2>2, ConfigAssumption
    <3> QED
      BY <2>2, <3>1, ConfigAssumption, Zenon DEF ViewOf
  <2> QED
    BY <2>1, <2>2, Zenon
<1> QED
  BY <1>1, Zenon DEF target_replicas, IsView, IsReplicaMap

LEMMA WorklistBuckets ==
    ASSUME NEW c \in 0..Len(Config), NEW full
    PROVE  DOMAIN calculate_worklist(ViewOf(c), full) \subseteq VBucket
BY TargetBuckets, Zenon DEF calculate_worklist

LEMMA OwnBuckets ==
    ASSUME NEW c \in 0..Len(Config)
    PROVE  Own(c) \subseteq VBucket
BY TargetBuckets, Zenon DEF Own
-----------------------------------------------------------------------------
\* Every variable of module Astaire keeps its type, and there is a work list
\* only while do_resync is streaming one.
THEOREM TypeCorrect == Spec => []TypeOK
<1>1. Init => TypeOK
  <2> SUFFICES ASSUME Init PROVE TypeOK
    BY Zenon
  <2>1. 1 \in 1..Len(Config) /\ 0 \in 0..Len(Config) /\ 0 \in 0..MaxFaults
    BY ConfigAssumption, BoundsAssumption
  <2>2. Own(1) \subseteq VBucket
    BY <2>1, OwnBuckets, ConfigAssumption
  <2>3. tag \in BOOLEAN /\ settled \subseteq VBucket
    BY <2>2, BoundsAssumption, Zenon DEF Init
  <2> QED
    BY <2>1, <2>3, Zenon DEF Init, TypeOK, ControlPoint
<1>2. TypeOK /\ [Next]_vars => TypeOK'
  <2> SUFFICES ASSUME TypeOK, [Next]_vars PROVE TypeOK'
    BY Zenon
  <2> USE DEF TypeOK, ControlPoint, process, flags, locals, memcached
  <2>1. ASSUME Fault \/ NoFault \/ RequestFails PROVE faults' \in 0..MaxFaults
    BY <2>1, BoundsAssumption DEF Fault, NoFault, RequestFails
  <2>2. view \in 0..Len(Config) /\ config \in 0..Len(Config) /\ 0 \in 0..Len(Config)
    BY ConfigAssumption
  <2>3. ASSUME update_view \/ update_view_fails
        PROVE  /\ view' \in 0..Len(Config)
               /\ view_updated' \in BOOLEAN
               /\ faults' \in 0..MaxFaults
    BY <2>1, <2>2, <2>3, Zenon DEF update_view, update_view_fails
  <2>4. ASSUME reload_config,
               main' \in {"ctor", "running", "stopping", "dtor", "join", "gone"},
               hup' \in BOOLEAN, usr1' \in BOOLEAN, UNCHANGED quiet
        PROVE  TypeOK'
    <3>1. signalled' \in BOOLEAN /\ (update_view \/ update_view_fails)
      BY <2>4, Zenon DEF reload_config, Signal
    <3> QED
      BY <2>3, <2>4, <3>1 DEF reload_config
  <2>5. CASE FirstReload
    BY <2>4, <2>5, Zenon DEF FirstReload
  <2>6. CASE Sighup
    <3>1. hup' \in BOOLEAN /\ quiet' \in BOOLEAN
      BY <2>6, Zenon DEF Sighup
    <3>2. UNCHANGED <<main, usr1, control, flags, signalled, view, locals, alarm, config,
                      memcached, faults>>
      BY <2>6, Zenon DEF Sighup
    <3> QED
      BY <3>1, <3>2
  <2>7. CASE HandleHup
    BY <2>4, <2>7, Zenon DEF HandleHup
  <2>8. CASE Sigusr1
    <3>1. usr1' \in BOOLEAN /\ quiet' \in BOOLEAN
      BY <2>8, Zenon DEF Sigusr1
    <3>2. UNCHANGED <<main, hup, control, flags, signalled, view, locals, alarm, config,
                      memcached, faults>>
      BY <2>8, Zenon DEF Sigusr1
    <3> QED
      BY <3>1, <3>2
  <2>9. CASE HandleUsr1
    <3>1. signalled' \in BOOLEAN /\ (update_view \/ update_view_fails)
      BY <2>9, Zenon DEF HandleUsr1, trigger_full_resync, Signal
    <3>2. full_resync_requested' \in BOOLEAN /\ usr1' \in BOOLEAN
      BY <2>9, Zenon DEF HandleUsr1, trigger_full_resync
    <3>3. UNCHANGED <<main, hup, quiet, control, terminated, locals, alarm, config,
                      memcached>>
      BY <2>9, Zenon DEF HandleUsr1, trigger_full_resync
    <3> QED
      BY <2>3, <2>9, <3>1, <3>2, <3>3
  <2>10. CASE Shutdown \/ DeleteAstaire
    <3>1. quiet' \in BOOLEAN
      BY <2>10, Zenon DEF Shutdown, DeleteAstaire
    <3>2. /\ main' \in {"stopping", "dtor"}
          /\ UNCHANGED <<hup, usr1, control, flags, signalled, view, locals, alarm,
                         config, memcached, faults>>
      BY <2>10, Zenon DEF Shutdown, DeleteAstaire
    <3> QED
      BY <3>1, <3>2
  <2>11. CASE Terminate
    BY <2>11 DEF Terminate, Signal
  <2>12. CASE JoinControl
    BY <2>12 DEF JoinControl
  <2>13. CASE Crash
    BY <2>1, <2>2, <2>13, Zenon DEF Crash, NewProcess
  <2>14. CASE Start
    BY <2>2, <2>14, Zenon DEF Start, NewProcess
  <2>29. CASE StartRefused
    BY <2>1, <2>29 DEF StartRefused
  <2>15. CASE LockAndLoop
    BY <2>15 DEF LockAndLoop
  <2>16. CASE CheckTriggers
    <3>1. /\ resync' \in BOOLEAN /\ full_resync' \in BOOLEAN
          /\ view_updated' \in BOOLEAN /\ full_resync_requested' \in BOOLEAN
      BY <2>16, Zenon DEF CheckTriggers
    <3>2. /\ control = "top" /\ control' \in {"untag", "poll"}
          /\ UNCHANGED <<process, terminated, signalled, view, todo, laps, alarm,
                         config, memcached, faults>>
      BY <2>16, Zenon DEF CheckTriggers
    <3> QED
      BY <3>1, <3>2
  <2>17. CASE ExitLoop
    BY <2>17 DEF ExitLoop
  <2>18. CASE untag_local_memcached
    <3>1. tag' \in BOOLEAN /\ faults' \in 0..MaxFaults
      BY <2>1, <2>18, Zenon DEF untag_local_memcached
    <3> QED
      BY <2>18, <3>1 DEF untag_local_memcached
  <2>19. ASSUME NEW result \in {"UP_TO_DATE", "OUT_OF_DATE", "ERROR"},
                poll_local_memcached(result)
         PROVE  TypeOK'
    <3>1. /\ trusted' \in BOOLEAN /\ resync' \in BOOLEAN /\ full_resync' \in BOOLEAN
          /\ faults' \in 0..MaxFaults
      BY <2>1, <2>19, Zenon DEF poll_local_memcached
    <3>2. /\ control' \in {"plan", "wait"}
          /\ signalled' \in BOOLEAN
          /\ alarm' \in {"unknown", "set", "clear"}
          /\ laps' \in {laps, 0}
      BY <2>19, Zenon DEF poll_local_memcached
    <3> QED
      BY <2>19, <3>1, <3>2 DEF poll_local_memcached
  <2>20. CASE StartResync
    BY <2>20, WorklistBuckets, OwnBuckets DEF StartResync
  <2>21. ASSUME NEW v \in VBucket, StreamBucket(v) PROVE TypeOK'
    BY <2>21 DEF StreamBucket
  <2>22. CASE FinishResync
    BY <2>22 DEF FinishResync
  <2>23. CASE tag_local_memcached
    <3>1. tag' \in BOOLEAN /\ faults' \in 0..MaxFaults
      BY <2>1, <2>23, Zenon DEF tag_local_memcached
    <3> QED
      BY <2>23, <3>1 DEF tag_local_memcached
  <2>24. CASE WakeUp
    BY <2>24 DEF WakeUp
  <2>25. CASE MemcachedExits
    <3>1. faults' \in 0..MaxFaults
      BY <2>1, <2>25, Zenon DEF MemcachedExits
    <3>2. /\ up' \in BOOLEAN /\ tag' \in BOOLEAN /\ trusted' \in BOOLEAN
          /\ settled' \subseteq VBucket
          /\ quiet' \in BOOLEAN
      BY <2>25, Zenon DEF MemcachedExits
    <3>3. UNCHANGED <<main, hup, usr1, control, flags, signalled, view, locals, alarm, config>>
      BY <2>25, Zenon DEF MemcachedExits
    <3> QED
      BY <3>1, <3>2, <3>3
  <2>26. CASE MemcachedStarts
    BY <2>26 DEF MemcachedStarts
  <2>27. CASE EditConfig
    BY <2>27 DEF EditConfig
  <2>28. CASE UNCHANGED vars
    BY <2>28 DEF vars
  <2> QED
    BY <2>5, <2>6, <2>7, <2>8, <2>9, <2>10, <2>11, <2>12, <2>13, <2>14, <2>15, Zenon,
       <2>16, <2>17, <2>18, <2>19, <2>20, <2>21, <2>22, <2>23, <2>24, <2>25,
       <2>26, <2>27, <2>28, <2>29
       DEF Next, ControlStep
<1> QED
  BY <1>1, <1>2, PTL DEF Spec
-----------------------------------------------------------------------------
\* Where the control thread holds the lock and has read the flags, the flags
\* are clear: they are set under the lock only.
FlagsRead ==
    control \in {"untag", "poll", "plan", "stream", "tag"} =>
        ~view_updated /\ ~full_resync_requested /\ ~terminated

LEMMA FlagsReadInvariant == Spec => [](FlagsRead /\ NoLostWakeup)
<1>1. Init => FlagsRead /\ NoLostWakeup
  BY Zenon DEF Init, FlagsRead, NoLostWakeup
<1>2. TypeOK /\ FlagsRead /\ NoLostWakeup /\ [Next]_vars => (FlagsRead /\ NoLostWakeup)'
  <2> SUFFICES ASSUME TypeOK, FlagsRead, NoLostWakeup, [Next]_vars
               PROVE  FlagsRead' /\ NoLostWakeup'
    BY Zenon
  <2> USE DEF FlagsRead, NoLostWakeup, process, flags, locals, memcached
  <2>1. ASSUME reload_config PROVE FlagsRead' /\ NoLostWakeup'
    <3>1. CASE update_view /\ Signal
      BY <2>1, <3>1, Zenon DEF reload_config, LockFree, Signal
    <3>2. CASE update_view_fails /\ UNCHANGED signalled
      BY <2>1, <3>2, Zenon DEF reload_config, update_view_fails
    <3> QED
      BY <2>1, <3>1, <3>2, Zenon DEF reload_config
  <2>2. CASE FirstReload \/ HandleHup
    BY <2>1, <2>2, Zenon DEF FirstReload, HandleHup
  <2>3. CASE HandleUsr1
    BY <2>3, Zenon DEF HandleUsr1, trigger_full_resync, LockFree, Signal
  <2>4. CASE Terminate
    BY <2>4, Zenon DEF Terminate, LockFree, Signal
  <2>5. CASE Sighup \/ Sigusr1 \/ Shutdown \/ DeleteAstaire \/ JoinControl
    <3>1. UNCHANGED <<control, flags, signalled>>
      BY <2>5, Zenon DEF Sighup, Sigusr1, Shutdown, DeleteAstaire, JoinControl
    <3> QED
      BY <3>1, Zenon
  <2>6. CASE Crash \/ Start \/ StartRefused
    BY <2>6 DEF Crash, Start, StartRefused, NewProcess
  <2>7. CASE LockAndLoop \/ ExitLoop \/ WakeUp
    BY <2>7, Zenon DEF LockAndLoop, ExitLoop, WakeUp
  <2>8. CASE CheckTriggers
    BY <2>8, Zenon DEF CheckTriggers
  <2>9. CASE untag_local_memcached
    BY <2>9, Zenon DEF untag_local_memcached
  <2>10. ASSUME NEW result \in {"UP_TO_DATE", "OUT_OF_DATE", "ERROR"},
                poll_local_memcached(result)
         PROVE  FlagsRead' /\ NoLostWakeup'
    BY <2>10, Zenon DEF poll_local_memcached
  <2>11. CASE StartResync
    BY <2>11, Zenon DEF StartResync
  <2>12. ASSUME NEW v \in VBucket, StreamBucket(v) PROVE FlagsRead' /\ NoLostWakeup'
    BY <2>12, Zenon DEF StreamBucket
  <2>13. CASE FinishResync \/ tag_local_memcached
    BY <2>13 DEF FinishResync, tag_local_memcached
  <2>14. CASE MemcachedExits \/ MemcachedStarts \/ EditConfig
    BY <2>14 DEF MemcachedExits, MemcachedStarts, EditConfig
  <2>15. CASE UNCHANGED vars
    BY <2>15, Zenon DEF vars
  <2> QED
    BY <2>2, <2>3, <2>4, <2>5, <2>6, <2>7, <2>8, <2>9, <2>10, <2>11, <2>12, Zenon,
       <2>13, <2>14, <2>15
       DEF Next, ControlStep
<1> QED
  BY <1>1, <1>2, TypeCorrect, PTL DEF Spec

\* No wakeup is lost: a handler sets its flag and signals under the lock, and
\* the control thread reads the flags and waits without letting go of it.
THEOREM WakeupsArrive == Spec => []NoLostWakeup
BY FlagsReadInvariant, PTL

\* No step but the end of the process changes the view from the planning of a
\* resync to the tag: the handlers need the lock the control thread holds.
THEOREM ViewIsFixed == Spec => ViewFixedDuringResync
<1>1. [Next]_vars => [(control \in {"plan", "stream", "tag"} /\ main' # "ctor")
                          => view' = view]_vars
  <2> SUFFICES ASSUME [Next]_vars,
                      control \in {"plan", "stream", "tag"}, main' # "ctor"
               PROVE  view' = view
    BY Zenon
  <2> USE DEF process, flags, locals, memcached
  <2>1. ~LockFree
    BY Zenon DEF LockFree
  <2>2. ~reload_config /\ ~trigger_full_resync
    BY <2>1, Zenon DEF reload_config, trigger_full_resync
  <2>3. ~(FirstReload \/ HandleHup \/ HandleUsr1 \/ Crash \/ Start)
    BY <2>2, Zenon DEF FirstReload, HandleHup, HandleUsr1, Crash, Start, NewProcess
  <2>4. CASE Sighup \/ Sigusr1 \/ Shutdown \/ DeleteAstaire \/ Terminate \/ JoinControl
    BY <2>4, Zenon DEF Sighup, Sigusr1, Shutdown, DeleteAstaire, Terminate, JoinControl
  <2>5. CASE ControlStep
    BY <2>5, ZenonT(60) DEF ControlStep, LockAndLoop, CheckTriggers, ExitLoop,
                untag_local_memcached, poll_local_memcached, StartResync,
                StreamBucket, FinishResync, tag_local_memcached, WakeUp
  <2>6. CASE StartRefused \/ MemcachedExits \/ MemcachedStarts \/ EditConfig \/ UNCHANGED vars
    BY <2>6, Zenon DEF StartRefused, MemcachedExits, MemcachedStarts, EditConfig, vars
  <2> QED
    BY <2>3, <2>4, <2>5, <2>6, Zenon DEF Next
<1> QED
  BY <1>1, PTL DEF Spec, ViewFixedDuringResync
-----------------------------------------------------------------------------
\* A resync with the current view is still due.
Due ==
    \/ view_updated
    \/ resync /\ control \in {"untag", "poll", "plan", "stream"}

\* A resync of a memcached found without its tag is under way.
Fresh ==
    control \in {"plan", "stream"} /\ full_resync /\ ~tag /\ view # 0

\* The inductive invariant behind TrustedTagMeansUpToDate.  Apart from a resync
\* from scratch, memcached has what the node held before the configuration
\* change in progress; once the resync that is due is done it has the rest.
TagInv ==
    /\ trusted => up
    /\ view = 0 \/ config = view \/ config = view + 1
    /\ trusted /\ ~Fresh => Have(view) \subseteq settled /\ Have(config) \subseteq settled
    /\ trusted /\ ~Due => Own(view) \subseteq settled
    /\ trusted /\ control = "stream" => Own(view) \subseteq settled \cup todo

\* The configurations' facts TagInv rests on.
LEMMA HaveOwn ==
    /\ Own(0) = {} /\ Have(0) = {}
    /\ \A c : Have(c) \subseteq Own(c)
    /\ \A c \in 1..Len(Config) : c + 1 =< Len(Config) => Have(c + 1) \subseteq Own(c)
<1>1. Own(0) = {}
  BY Zenon DEF Own, ViewOf, EmptyView, target_replicas
<1>2. \A c : Have(c) \subseteq Own(c)
  BY Zenon DEF Have
<1>3. ASSUME NEW c \in 1..Len(Config), c + 1 =< Len(Config)
      PROVE  Have(c + 1) \subseteq Own(c)
  <2>1. c \in 1..(Len(Config) - 1)
    BY <1>3, ConfigAssumption
  <2> QED
    BY <2>1, ResizeAssumption, Zenon
<1> QED
  BY <1>1, <1>2, <1>3, Zenon

\* A memcached that was last found without its tag by a poll that had a
\* configuration, and has run since, is up to date whenever it is tagged and
\* the control thread is at rest: reloads, failed requests and crashes of
\* Astaire included.
THEOREM TrustedTag == Spec => []TrustedTagMeansUpToDate
<1>1. Init => TagInv
  <2> SUFFICES ASSUME Init PROVE TagInv
    BY Zenon
  <2>1. trusted => Own(1) \subseteq settled
    BY Zenon DEF Init
  <2> QED
    BY <2>1, HaveOwn, Zenon DEF Init, TagInv
<1>2. TypeOK /\ FlagsRead /\ TagInv /\ [Next]_vars => TagInv'
  <2> SUFFICES ASSUME TypeOK, FlagsRead, TagInv, [Next]_vars PROVE TagInv'
    BY Zenon
  <2> USE DEF process, flags, locals, memcached
  <2>1. ASSUME UNCHANGED <<view, view_updated, resync, full_resync, todo, config,
                           memcached>>,
               \/ UNCHANGED control
               \/ /\ control \notin {"untag", "poll", "plan", "stream"}
                  /\ control' \notin {"untag", "poll", "plan", "stream"}
        PROVE  TagInv'
    BY <2>1, Zenon DEF TagInv, Fresh, Due
  <2>2. ASSUME update_view \/ update_view_fails, LockFree,
               UNCHANGED <<control, locals, config, memcached>>
        PROVE  TagInv'
    <3>1. CASE update_view
      BY <2>2, <3>1, Zenon DEF update_view, LockFree, TagInv, Fresh, Due
    <3>2. CASE update_view_fails
      BY <2>1, <2>2, <3>2, Zenon DEF update_view_fails
    <3> QED
      BY <2>2, <3>1, <3>2, Zenon
  <2>3. CASE FirstReload \/ HandleHup
    BY <2>2, <2>3, Zenon DEF FirstReload, HandleHup, reload_config
  <2>4. CASE HandleUsr1
    BY <2>2, <2>4, Zenon DEF HandleUsr1, trigger_full_resync
  <2>5. CASE Sighup \/ Sigusr1 \/ Shutdown \/ DeleteAstaire \/ Terminate \/ JoinControl
    BY <2>1, <2>5, Zenon DEF Sighup, Sigusr1, Shutdown, DeleteAstaire, Terminate, JoinControl
  <2>6. ASSUME NewProcess, trusted' = (trusted /\ tag),
               UNCHANGED <<config, up, tag, settled>>
        PROVE  TagInv'
    <3>1. trusted' => trusted /\ up /\ Have(config) \subseteq settled
      BY <2>6, Zenon DEF TagInv, Fresh
    <3> QED
      BY <2>6, <3>1, HaveOwn, Zenon DEF NewProcess, TagInv, Fresh, Due
  <2>7. CASE Crash \/ Start
    BY <2>6, <2>7, Zenon DEF Crash, Start
  <2>8. CASE StartRefused \/ LockAndLoop \/ ExitLoop \/ WakeUp
    BY <2>1, <2>8, Zenon DEF StartRefused, LockAndLoop, ExitLoop, WakeUp
  <2>9. CASE CheckTriggers
    BY <2>9, Zenon DEF CheckTriggers, TypeOK, TagInv, Fresh, Due
  <2>10. CASE untag_local_memcached
    BY <2>10, Zenon DEF untag_local_memcached, TagInv, Fresh, Due
  <2>11. ASSUME NEW result \in {"UP_TO_DATE", "OUT_OF_DATE", "ERROR"},
                poll_local_memcached(result)
         PROVE  TagInv'
    BY <2>11, Zenon DEF poll_local_memcached, TypeOK, TagInv, Fresh, Due
  <2>12. CASE StartResync
    BY <2>12, HaveOwn DEF StartResync, TypeOK, TagInv, Fresh, Due
  <2>13. ASSUME NEW v \in VBucket, StreamBucket(v) PROVE TagInv'
    BY <2>13, Zenon DEF StreamBucket, TypeOK, TagInv, Fresh, Due
  <2>14. CASE FinishResync
    BY <2>14, HaveOwn DEF FinishResync, TypeOK, TagInv, Fresh, Due
  <2>15. CASE tag_local_memcached
    BY <2>15, Zenon DEF tag_local_memcached, FlagsRead, TypeOK, TagInv, Fresh, Due
  <2>16. CASE MemcachedExits
    BY <2>16, Zenon DEF MemcachedExits, TagInv
  <2>17. CASE MemcachedStarts
    BY <2>17, Zenon DEF MemcachedStarts, TagInv, Fresh, Due
  <2>18. CASE EditConfig
    BY <2>18, HaveOwn DEF EditConfig, TypeOK, TagInv, Fresh, Due
  <2>19. CASE UNCHANGED vars
    BY <2>1, <2>19, Zenon DEF vars
  <2> QED
    BY <2>3, <2>4, <2>5, <2>7, <2>8, <2>9, <2>10, <2>11, <2>12, <2>13, <2>14,
       <2>15, <2>16, <2>17, <2>18, <2>19, Zenon
       DEF Next, ControlStep
<1>3. TypeOK /\ TagInv => TrustedTagMeansUpToDate
  BY Zenon DEF TypeOK, TagInv, Due, TrustedTagMeansUpToDate, Idle
<1> QED
  BY <1>1, <1>2, <1>3, TypeCorrect, FlagsReadInvariant, PTL DEF Spec
-----------------------------------------------------------------------------
\* The inductive invariant behind QuietShutdown: there is nothing to trigger a
\* resync, and the tag is there, so no poll finds memcached out of date.
QuietInv ==
    quiet => /\ main \notin {"ctor", "running"}
             /\ control \in {"wait", "top", "poll", "exited"}
             /\ control = "poll" => ~resync
             /\ tag
             /\ ~view_updated /\ ~full_resync_requested
             /\ ~hup /\ ~usr1

\* A shutdown that begins with nothing to do and is left alone never has the
\* control thread in a resync that uses the statistics resync_main has freed.
THEOREM QuietShutdownIsSafe == Spec => []QuietShutdown
<1>1. Init => QuietInv
  BY Zenon DEF Init, QuietInv
<1>2. QuietInv /\ [Next]_vars => QuietInv'
  <2> SUFFICES ASSUME QuietInv, [Next]_vars PROVE QuietInv'
    BY Zenon
  <2> USE DEF QuietInv, process, flags, locals, memcached
  <2>1. CASE FirstReload \/ HandleHup \/ HandleUsr1
    <3>1. ~quiet /\ quiet' = quiet
      BY <2>1, Zenon DEF FirstReload, HandleHup, HandleUsr1
    <3> QED
      BY <3>1, Zenon
  <2>2. CASE Sighup \/ Sigusr1 \/ MemcachedExits \/ Crash \/ Start
    <3>1. quiet' = FALSE
      BY <2>2, Zenon DEF Sighup, Sigusr1, MemcachedExits, Crash, Start, NewProcess
    <3> QED
      BY <3>1, Zenon
  <2>3. CASE Shutdown
    BY <2>3, Zenon DEF Shutdown
  <2>4. CASE DeleteAstaire \/ Terminate \/ JoinControl
    BY <2>4, Zenon DEF DeleteAstaire, Terminate, JoinControl
  <2>5. CASE StartRefused \/ MemcachedStarts \/ EditConfig \/ UNCHANGED vars
    BY <2>5, Zenon DEF StartRefused, MemcachedStarts, EditConfig, vars
  <2>6. CASE LockAndLoop \/ ExitLoop \/ WakeUp
    BY <2>6, Zenon DEF LockAndLoop, ExitLoop, WakeUp
  <2>7. CASE CheckTriggers
    BY <2>7, Zenon DEF CheckTriggers
  <2>8. ASSUME NEW result \in {"UP_TO_DATE", "OUT_OF_DATE", "ERROR"},
               poll_local_memcached(result)
        PROVE  QuietInv'
    BY <2>8, Zenon DEF poll_local_memcached
  <2>9. CASE \/ untag_local_memcached \/ StartResync \/ FinishResync
             \/ tag_local_memcached \/ \E v \in VBucket : StreamBucket(v)
    <3>1. ~quiet /\ quiet' = quiet
      BY <2>9, Zenon DEF untag_local_memcached, StartResync, FinishResync,
                  tag_local_memcached, StreamBucket
    <3> QED
      BY <3>1, Zenon
  <2> QED
    BY <2>1, <2>2, <2>3, <2>4, <2>5, <2>6, <2>7, <2>8, <2>9, Zenon DEF Next, ControlStep
<1>3. QuietInv => QuietShutdown
  BY Zenon DEF QuietInv, QuietShutdown
<1> QED
  BY <1>1, <1>2, <1>3, PTL DEF Spec
-----------------------------------------------------------------------------
\* The inductive invariant behind ResyncsNotRepeated: a lap is over with the tag
\* written, so that the next poll ends in the wait, unless something failed.
LapsInv ==
    /\ laps =< faults + 1
    /\ ~up => laps =< faults /\ faults >= 1
    /\ control \in {"created", "wait", "untag"} => laps = 0
    /\ control = "top" /\ laps # 0 => ~view_updated /\ ~full_resync_requested
    /\ control = "poll" /\ resync => laps = 0
    /\ control \in {"top", "poll"} /\ ~tag => laps =< faults
    /\ control = "plan" => laps =< faults
    /\ control = "plan" /\ ~up => laps + 1 =< faults

\* However long the control thread goes from resync to resync without waiting,
\* it does so at most once for each request that failed and each exit of
\* memcached.
THEOREM ResyncsArePaidFor == Spec => []ResyncsNotRepeated
<1>1. Init => LapsInv
  BY DEF Init, LapsInv
<1>2. TypeOK /\ FlagsRead /\ LapsInv /\ [Next]_vars => LapsInv'
  <2> SUFFICES ASSUME TypeOK, FlagsRead, LapsInv, [Next]_vars PROVE LapsInv'
    BY Zenon
  <2> USE DEF LapsInv, process, flags, locals, memcached
  <2>0. /\ laps \in Nat /\ faults \in Nat
        /\ up \in BOOLEAN /\ tag \in BOOLEAN /\ resync \in BOOLEAN
        /\ view_updated \in BOOLEAN /\ full_resync_requested \in BOOLEAN
    BY BoundsAssumption DEF TypeOK
  <2>1. ASSUME faults' = faults \/ faults' = faults + 1,
               UNCHANGED <<laps, control, up, tag, resync>>,
               control = "top" => UNCHANGED <<view_updated, full_resync_requested>>
        PROVE  LapsInv'
    BY <2>0, <2>1
  <2>2. ASSUME Fault \/ NoFault PROVE faults' = faults \/ faults' = faults + 1
    BY <2>2, Zenon DEF Fault, NoFault
  <2>3. CASE FirstReload \/ HandleHup \/ HandleUsr1
    <3>1. /\ faults' = faults \/ faults' = faults + 1
          /\ control # "top"
          /\ UNCHANGED <<laps, control, up, tag, resync>>
      BY <2>2, <2>3, Zenon DEF FirstReload, HandleHup, HandleUsr1, reload_config,
           trigger_full_resync, LockFree, update_view, update_view_fails
    <3> QED
      BY <2>1, <3>1, Zenon
  <2>4. CASE \/ Sighup \/ Sigusr1 \/ Shutdown \/ DeleteAstaire \/ Terminate \/ JoinControl
             \/ StartRefused \/ EditConfig \/ UNCHANGED vars
    <3>1. /\ faults' = faults \/ faults' = faults + 1
          /\ UNCHANGED <<laps, control, up, tag, resync, view_updated, full_resync_requested>>
      BY <2>2, <2>4, Zenon DEF Sighup, Sigusr1, Shutdown, DeleteAstaire, Terminate,
           JoinControl, StartRefused, EditConfig, vars
    <3> QED
      BY <2>1, <3>1, Zenon
  <2>5. CASE Crash \/ Start
    <3>1. (faults' = faults \/ faults' = faults + 1) /\ laps' = 0 /\ control' = "created" /\ up' = up
      BY <2>2, <2>5, Zenon DEF Crash, Start, NewProcess
    <3> QED
      BY <2>0, <3>1
  <2>6. CASE LockAndLoop \/ ExitLoop \/ WakeUp
    BY <2>0, <2>6 DEF LockAndLoop, ExitLoop, WakeUp
  <2>7. CASE CheckTriggers
    BY <2>0, <2>7, Zenon DEF CheckTriggers, TypeOK
  <2>8. CASE untag_local_memcached
    <3>1. (faults' = faults \/ faults' = faults + 1) /\ laps' = 0 /\ control' = "poll" /\ up' = up
      BY <2>2, <2>8, Zenon DEF untag_local_memcached, RequestFails
    <3> QED
      BY <2>0, <3>1
  <2>9. ASSUME NEW result \in {"UP_TO_DATE", "OUT_OF_DATE", "ERROR"},
               poll_local_memcached(result)
        PROVE  LapsInv'
    <3>1. (faults' = faults \/ faults' = faults + 1) /\ up' = up /\ control = "poll"
      BY <2>2, <2>9, Zenon DEF poll_local_memcached, RequestFails
    <3>2. CASE ~resync'
      <4>1. laps' = 0 /\ control' = "wait"
        BY <2>9, <3>2, Zenon DEF poll_local_memcached
      <4> QED
        BY <2>0, <3>1, <4>1
    <3>3. CASE resync'
      <4>1. laps' = laps /\ control' = "plan"
        BY <2>9, <3>3, Zenon DEF poll_local_memcached
      <4>2. resync \/ result = "OUT_OF_DATE"
        BY <2>9, <3>3, Zenon DEF poll_local_memcached
      <4>3. result = "OUT_OF_DATE" => up /\ ~tag
        BY <2>9, Zenon DEF poll_local_memcached
      <4> QED
        BY <2>0, <3>1, <4>1, <4>2, <4>3
    <3> QED
      BY <3>2, <3>3, Zenon
  <2>10. CASE StartResync
    <3>1. /\ laps' = laps + 1 /\ control = "plan" /\ control' \in {"tag", "stream"}
          /\ UNCHANGED <<faults, up>>
      BY <2>10, Zenon DEF StartResync
    <3> QED
      BY <2>0, <3>1
  <2>11. CASE FinishResync \/ \E v \in VBucket : StreamBucket(v)
    <3>1. control' \in {"tag", "stream"} /\ UNCHANGED <<laps, faults, up>>
      BY <2>11, Zenon DEF FinishResync, StreamBucket
    <3> QED
      BY <2>0, <3>1, Zenon
  <2>12. CASE tag_local_memcached
    <3>1. /\ control' = "top" /\ ~view_updated' /\ ~full_resync_requested'
          /\ UNCHANGED <<laps, up>>
      BY <2>12, Zenon DEF tag_local_memcached, FlagsRead
    <3>2. (faults' = faults \/ faults' = faults + 1)
      BY <2>2, <2>12, Zenon DEF tag_local_memcached, RequestFails
    <3>3. tag' \/ faults' = faults + 1 \/ ~up
      BY <2>12, Zenon DEF tag_local_memcached, RequestFails, Fault
    <3> QED
      BY <2>0, <3>1, <3>2, <3>3
  <2>13. CASE MemcachedExits
    <3>1. /\ faults' = faults + 1 /\ up /\ ~up'
          /\ UNCHANGED <<laps, control, resync, view_updated, full_resync_requested>>
      BY <2>13, Zenon DEF MemcachedExits, Fault
    <3> QED
      BY <2>0, <3>1
  <2>14. CASE MemcachedStarts
    BY <2>0, <2>14, Zenon DEF MemcachedStarts
  <2> QED
    BY <2>3, <2>4, <2>5, <2>6, <2>7, <2>8, <2>9, <2>10, <2>11, <2>12, <2>13, <2>14, Zenon
       DEF Next, ControlStep
<1>3. LapsInv => ResyncsNotRepeated
  BY Zenon DEF LapsInv, ResyncsNotRepeated
<1> QED
  BY <1>1, <1>2, <1>3, TypeCorrect, FlagsReadInvariant, PTL DEF Spec
=============================================================================
