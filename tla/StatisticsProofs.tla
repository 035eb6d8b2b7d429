-------------------------- MODULE StatisticsProofs --------------------------
(***************************************************************************)
(* Proofs about the statistics and about wait-sync, for any number of tap  *)
(* threads, resyncs, records and polls.                                    *)
(***************************************************************************)
EXTENDS WaitSync, TLAPS

-----------------------------------------------------------------------------
(* What the assignments to local give.                                     *)
LEMMA BlankType == \A pc \in PC : Blank(pc) \in Local
BY StatisticsAssumption DEF Blank, Local

LEMMA ReturnType == ASSUME StatTypeOK, NEW t \in Thread PROVE Return(t) \in [Thread -> Local]
<1>0. local[t].next \in PC
  BY Zenon DEF StatTypeOK, Local, PC
<1>1. Blank("loop") \in Local /\ Blank("off") \in Local /\ Blank(local[t].next) \in Local
  BY <1>0, BlankType, Zenon DEF PC
<1>2. CASE t = Refresher
  <2>1. Return(t) = [local EXCEPT ![t] = Blank("loop")]
    BY <1>2, Zenon DEF Return, Refresher, Control
  <2> QED BY <2>1, <1>1, Zenon DEF StatTypeOK
<1>3. CASE t # Refresher /\ t = Control
  <2>1. Return(t) = [local EXCEPT ![t] = Blank("off")]
    BY <1>3, Zenon DEF Return
  <2> QED BY <2>1, <1>1, Zenon DEF StatTypeOK
<1>4. CASE t # Refresher /\ t # Control
  <2>1. Return(t) = [local EXCEPT ![t] = Blank(local[t].next)]
    BY <1>4, Zenon DEF Return
  <2> QED BY <2>1, <1>1, Zenon DEF StatTypeOK
<1> QED BY <1>2, <1>3, <1>4, Zenon

(* The steps of refresh keep the types.                                    *)
LEMMA RefreshType == ASSUME StatTypeOK, NEW t \in Thread, refresh(t) PROVE StatTypeOK'
<1> USE StatisticsAssumption
<1>1. local[t] \in Local /\ Return(t) \in [Thread -> Local] /\ Blank("total") \in Local
  BY ReturnType, BlankType, Zenon DEF StatTypeOK, PC
<1>a. [Blank("total") EXCEPT !.next = local[t].next] \in Local
  BY <1>1, Zenon DEF Local
<1>2. CASE LoadTimestamp(t)
  <2>1. [local[t] EXCEPT !.pc = "claim", !.ts = timestamp] \in Local
    BY <1>1, Zenon DEF StatTypeOK, Local, PC
  <2>2. local' = [local EXCEPT ![t] = [local[t] EXCEPT !.pc = "claim", !.ts = timestamp]]
    BY <1>1, <1>2, Zenon DEF LoadTimestamp, StatTypeOK
  <2> QED BY <1>2, <2>1, <2>2 DEF LoadTimestamp, StatTypeOK, global, conns, history
<1>3. CASE ClaimTick(t)
  <2>1. local' \in [Thread -> Local]
    BY <1>1, <1>a, <1>3, Zenon DEF ClaimTick, StatTypeOK
  <2>2. timestamp' \in 0..MaxPeriods /\ owed' \in Nat
    BY <1>1, <1>3, Zenon DEF ClaimTick, StatTypeOK, Local
  <2> QED BY <1>3, <2>1, <2>2, Zenon DEF ClaimTick, StatTypeOK, conns
<1>4. CASE LoadTotal(t)
  <2>1. [local[t] EXCEPT !.pc = "count", !.total = total] \in Local
    BY <1>1, Zenon DEF StatTypeOK, Local, PC
  <2>2. local' = [local EXCEPT ![t] = [local[t] EXCEPT !.pc = "count", !.total = total]]
    BY <1>1, <1>4, Zenon DEF LoadTotal, StatTypeOK
  <2> QED BY <1>4, <2>1, <2>2 DEF LoadTotal, StatTypeOK, global, conns, history
<1>5. CASE LoadCount(t)
  <2>1. [local[t] EXCEPT !.pc = "report", !.count = count] \in Local
    BY <1>1, Zenon DEF StatTypeOK, Local, PC
  <2>2. local' = [local EXCEPT ![t] = [local[t] EXCEPT !.pc = "report", !.count = count]]
    BY <1>1, <1>5, Zenon DEF LoadCount, StatTypeOK
  <2> QED BY <1>5, <2>1, <2>2 DEF LoadCount, StatTypeOK, global, conns, history
<1>6. CASE Report(t)
  <2>1. lvc' \in [total : Buckets \cup {0}, count : Nat] /\ reported' \in Nat
    BY <1>1, <1>6, Zenon DEF Report, StatTypeOK, Local
  <2>2. overtaken' \in BOOLEAN
    BY <1>6, Zenon DEF Report
  <2> QED BY <1>1, <1>6, <2>1, <2>2, Zenon DEF Report, StatTypeOK, global, conns
<1> QED BY <1>2, <1>3, <1>4, <1>5, <1>6, Zenon DEF refresh

(* An update of one thread's place keeps the type of local.                *)
LEMMA PlaceType ==
    ASSUME StatTypeOK, NEW t \in Thread, NEW pc \in PC
    PROVE  [local EXCEPT ![t] = Blank(pc)] \in [Thread -> Local]
<1>1. Blank(pc) \in Local
  BY BlankType, Zenon
<1> QED BY <1>1, Zenon DEF StatTypeOK

LEMMA ControlType == ASSUME StatTypeOK, ControlStep PROVE StatTypeOK'
<1> USE StatisticsAssumption
<1>0. Control \in Thread
  BY Zenon DEF Thread
<1>1. Call(Control) \in [Thread -> Local]
  BY <1>0, PlaceType, Zenon DEF Call, PC
<1>2. CASE set_total_buckets
  <2>1. total' \in Buckets \cup {0} /\ resyncs' \in 0..MaxResyncs
    BY <1>2 DEF set_total_buckets, StatTypeOK
  <2> QED BY <1>1, <1>2, <2>1, Zenon DEF set_total_buckets, StatTypeOK, conns, history
<1>3. CASE WorklistProcessed
  BY <1>3, Zenon DEF WorklistProcessed, StatTypeOK, global, conns, history
<1>4. CASE reset
  <2>1. CASE keys' = keys /\ UNCHANGED history
    BY <1>1, <1>4, <2>1, Zenon DEF reset, StatTypeOK, conns, history
  <2>2. CASE ~(keys' = keys /\ UNCHANGED history)
    BY <1>1, <1>4, <2>2 DEF reset, StatTypeOK, conns
  <2> QED BY <2>1, <2>2, Zenon
<1>5. CASE reset_conns
  BY <1>5, Zenon DEF reset_conns, StatTypeOK, global, history
<1>6. CASE DeleteStatistics
  <2>1. terminated' \in BOOLEAN
    BY <1>6, Zenon DEF DeleteStatistics
  <2> QED BY <1>6, <2>1, Zenon DEF DeleteStatistics, StatTypeOK, global, history
<1>7. CASE JoinRefresher
  BY <1>7, Zenon DEF JoinRefresher, StatTypeOK, global, conns, history
<1>8. CASE refresh(Control)
  BY <1>0, <1>8, RefreshType, Zenon
<1>9. ASSUME NEW t \in Tap, add_connection(t) PROVE StatTypeOK'
  <2>1. [local EXCEPT ![t] = Blank("run")] \in [Thread -> Local]
    BY PlaceType, Zenon DEF PC, Thread
  <2> QED BY <1>9, <2>1, Zenon DEF add_connection, StatTypeOK, global, history
<1>10. ASSUME NEW t \in Tap, complete_single_tap(t) PROVE StatTypeOK'
  <2>1. [local EXCEPT ![t] = Blank("off")] \in [Thread -> Local]
    BY PlaceType, Zenon DEF PC, Thread
  <2> QED BY <1>10, <2>1, Zenon DEF complete_single_tap, StatTypeOK, global, conns, history
<1> QED
  BY <1>2, <1>3, <1>4, <1>5, <1>6, <1>7, <1>8, <1>9, <1>10, ControlStep, Zenon DEF ControlStep

LEMMA TapType == ASSUME StatTypeOK, NEW t \in Tap, TapStep(t) PROVE StatTypeOK'
<1> USE StatisticsAssumption
<1>0. t \in Thread
  BY Zenon DEF Thread
<1>1. \A pc \in PC : [local EXCEPT ![t] = Blank(pc)] \in [Thread -> Local]
  BY <1>0, PlaceType, Zenon
<1>2. ASSUME NEW next \in {"conn", "end"}, Count(t, next), keys' \in 0..MaxKeys
      PROVE  StatTypeOK'
  <2>1. [pc |-> "load", ts |-> 0, total |-> 0, count |-> count + 1, next |-> next] \in Local
    BY DEF StatTypeOK, Local, PC
  <2>2. local' \in [Thread -> Local]
    BY <1>0, <1>2, <2>1, Zenon DEF Count, StatTypeOK
  <2> QED BY <1>2, <2>2 DEF Count, StatTypeOK, conns, history
<1>8. CASE increment_resynced_keys_count(t) \/ increment_resynced_bucket_count(t)
  BY <1>2, <1>8
  DEF increment_resynced_keys_count, increment_resynced_bucket_count, StatTypeOK
<1>3. CASE refresh(t)
  BY <1>0, <1>3, RefreshType, Zenon
<1>4. CASE LockConn(t)
  BY <1>1, <1>4, Zenon DEF LockConn, StatTypeOK, PC, global, history
<1>5. CASE UpdateConn(t)
  BY <1>1, <1>5, Zenon DEF UpdateConn, StatTypeOK, PC, global, history
<1>6. CASE TapEnds(t)
  BY <1>1, <1>6, Zenon DEF TapEnds, StatTypeOK, PC, global, history
<1>7. CASE TapFails(t)
  BY <1>1, <1>7, Zenon DEF TapFails, StatTypeOK, PC, global, conns, history
<1> QED BY <1>3, <1>4, <1>5, <1>6, <1>7, <1>8, Zenon DEF TapStep

LEMMA StatType == ASSUME StatTypeOK, StatNext PROVE StatTypeOK'
<1> USE StatisticsAssumption
<1>1. CASE PeriodPasses
  BY <1>1 DEF PeriodPasses, StatTypeOK, global, conns, history
<1>2. CASE thread_func
  <2>1. \A pc \in PC : [local EXCEPT ![Refresher] = Blank(pc)] \in [Thread -> Local]
    BY PlaceType, Zenon DEF Thread
  <2>2. local' \in [Thread -> Local]
    BY <1>2, <2>1 DEF thread_func, Call, PC
  <2> QED BY <1>2, <2>2, Zenon DEF thread_func, StatTypeOK, global, conns, history
<1>3. CASE refresh(Refresher)
  BY <1>3, RefreshType, Zenon DEF Thread
<1> QED BY <1>1, <1>2, <1>3, ControlType, TapType, StatNext, Zenon DEF StatNext, RefresherStep

LEMMA TypeInvariance == ASSUME TypeOK, [Next]_vars PROVE TypeOK'
<1> USE StatisticsAssumption, MaxUnchangedAssumption
<1>1. CASE StatNext /\ UNCHANGED waitvars
  BY <1>1, StatType, Zenon DEF TypeOK, waitvars
<1>2. CASE UNCHANGED statvars /\ (StartWait \/ Poll)
  <2>1. StatTypeOK'
    BY <1>2, Zenon DEF TypeOK, StatTypeOK, statvars, global, conns, history
  <2>2. lvc.total \in Buckets \cup {0}
    BY Zenon DEF TypeOK, StatTypeOK
  <2> QED BY <1>2, <2>1, <2>2 DEF TypeOK, StartWait, Poll, SameAgain, End
<1>3. CASE UNCHANGED vars
  BY <1>3 DEF TypeOK, StatTypeOK, vars, statvars, waitvars, global, conns, history
<1> QED BY <1>1, <1>2, <1>3, Zenon DEF Next, StartWait, Poll

LEMMA TypeInit == WaitInit => TypeOK
<1> SUFFICES ASSUME WaitInit PROVE TypeOK
  BY Zenon
<1>1. local \in [Thread -> Local]
  BY BlankType, Zenon DEF WaitInit, Init, PC
<1>2. terminated \in BOOLEAN /\ overtaken \in BOOLEAN
  BY Zenon DEF WaitInit, Init
<1> QED
  BY <1>1, <1>2, StatisticsAssumption, MaxUnchangedAssumption
  DEF WaitInit, Init, TypeOK, StatTypeOK, NoReport

(* The thread t is the only one that moves in a step of one thread.        *)
Moves(t) == \A u \in Thread \ {t} : local'[u] = local[u]

(***************************************************************************)
(* c has been reported, or a thread will report it or more.                *)
(***************************************************************************)
Handled(c) ==
    \/ c <= reported
    \/ \E u \in Thread : \/ local[u].pc \in {"total", "count"}
                         \/ local[u].pc = "report" /\ local[u].count >= c

(***************************************************************************)
(* A thread that found the timestamp moved on after it had counted knows   *)
(* that its count is handled: the mover had not loaded the counter yet.    *)
(* Outside the worklist no tap thread runs, which is what makes it safe to *)
(* reset the counters, the timestamp and the records.                      *)
(***************************************************************************)
StatInv ==
    /\ owed <= count
    /\ \A t \in Tap : local[t].pc \in {"load", "claim"} => local[t].count <= count
    /\ \A t \in Tap : local[t].pc = "claim" /\ local[t].ts # timestamp => Handled(local[t].count)
    /\ Handled(owed)
    /\ stage # "work" => \A t \in Tap : local[t].pc = "off"
    /\ RecordsOutliveTaps

(***************************************************************************)
(* Reports under way stay under way or are made.                           *)
(***************************************************************************)
Onward ==
    /\ reported' >= reported
    /\ \A u \in Thread :
         /\ local[u].pc \in {"total", "count"} =>
              \/ local'[u].pc \in {"total", "count"}
              \/ local'[u].pc = "report" /\ local'[u].count = count
         /\ local[u].pc = "report" => local'[u] = local[u] \/ reported' >= local[u].count

LEMMA StillHandled ==
    ASSUME StatTypeOK, StatTypeOK', Onward, NEW c \in Nat, c <= count, Handled(c)
    PROVE  Handled(c)'
<1>1. CASE c <= reported
  BY <1>1 DEF Onward, Handled, StatTypeOK
<1>2. ASSUME NEW u \in Thread, local[u].pc \in {"total", "count"} PROVE Handled(c)'
  BY <1>2, Zenon DEF Onward, Handled
<1>3. ASSUME NEW u \in Thread, local[u].pc = "report", local[u].count >= c PROVE Handled(c)'
  <2>1. local[u].count \in Nat /\ reported' \in Nat
    BY Zenon DEF StatTypeOK, Local
  <2> QED BY <1>3, <2>1 DEF Onward, Handled
<1> QED BY <1>1, <1>2, <1>3, Zenon DEF Handled

(***************************************************************************)
(* Steps that have nothing to do with counting: the thread that moves is   *)
(* not reporting, and does not begin to count.                             *)
(***************************************************************************)
Aside(t) ==
    /\ Moves(t)
    /\ local[t].pc \notin {"total", "count", "report"}
    /\ t \in Tap => local'[t].pc \notin {"load", "claim"}
    /\ UNCHANGED <<count, owed, reported>>

LEMMA AsideKeeps ==
    ASSUME StatTypeOK, StatTypeOK', StatInv, NEW t \in Thread, Aside(t),
           timestamp' = timestamp \/ \A u \in Tap : local[u].pc = "off"
    PROVE  /\ owed' <= count'
           /\ \A u \in Tap : local'[u].pc \in {"load", "claim"} => local'[u].count <= count'
           /\ \A u \in Tap : local'[u].pc = "claim" /\ local'[u].ts # timestamp' => Handled(local[u].count)'
           /\ Handled(owed)'
<1>1. Onward
  <2>1. reported' >= reported
    BY DEF Aside, StatTypeOK
  <2> QED BY <2>1, Zenon DEF Onward, Aside, Moves
<1>2. owed \in Nat /\ owed' = owed /\ owed <= count
  BY Zenon DEF StatTypeOK, StatInv, Aside
<1>3. Handled(owed)'
  <2>1. Handled(owed)
    BY Zenon DEF StatInv
  <2>2. ASSUME NEW c \in Nat, c <= count, Handled(c) PROVE Handled(c)'
    BY <1>1, <2>2, StillHandled, Zenon
  <2> QED BY <1>2, <2>1, <2>2, Zenon DEF Handled
<1>4. ASSUME NEW u \in Tap, local'[u].pc \in {"load", "claim"}
      PROVE  u # t /\ local'[u] = local[u] /\ local[u].count \in Nat /\ local[u].count <= count
  BY <1>4, Zenon DEF Aside, Moves, Thread, StatTypeOK, Local, StatInv
<1>5. ASSUME NEW u \in Tap, local'[u].pc = "claim", local'[u].ts # timestamp'
      PROVE  Handled(local[u].count)'
  <2>1. local'[u] = local[u] /\ local[u].count \in Nat /\ local[u].count <= count
    BY <1>4, <1>5, Zenon
  <2>2. Handled(local[u].count)
    BY <1>5, <2>1, Zenon DEF StatInv
  <2>3. ASSUME NEW c \in Nat, c <= count, Handled(c) PROVE Handled(c)'
    BY <1>1, <2>3, StillHandled, Zenon
  <2> QED BY <2>1, <2>2, <2>3, Zenon DEF Handled
<1> QED BY <1>2, <1>3, <1>4, <1>5, Zenon DEF Aside

(***************************************************************************)
(* A step of refresh in any thread.                                        *)
(***************************************************************************)
LEMMA RefreshKeeps ==
    ASSUME StatTypeOK, StatTypeOK', StatInv, NEW t \in Thread, refresh(t)
    PROVE  StatInv'
<1> USE StatisticsAssumption
<1>1. /\ Moves(t) /\ UNCHANGED <<count, stage, connections>>
      /\ local[t].pc \in {"load", "claim", "total", "count", "report"}
      /\ local'[t].pc \in {"claim", "total", "count", "report", "loop", "off", "conn",
                          "end"}
      /\ t \in Tap => local'[t].pc # "off"
  <2>1. CASE LoadTimestamp(t)
    BY <2>1 DEF LoadTimestamp, Moves, StatTypeOK, global, conns
  <2>0. local[t].next \in {"conn", "end"}
    BY Zenon DEF StatTypeOK, Local
  <2>2. CASE ClaimTick(t)
    BY <2>0, <2>2, Zenon
    DEF ClaimTick, Return, Blank, Moves, StatTypeOK, conns, Control, Refresher
  <2>3. CASE LoadTotal(t)
    BY <2>3 DEF LoadTotal, Moves, StatTypeOK, global, conns
  <2>4. CASE LoadCount(t)
    BY <2>4 DEF LoadCount, Moves, StatTypeOK, global, conns
  <2>5. CASE Report(t)
    BY <2>0, <2>5, Zenon
    DEF Report, Return, Blank, Moves, StatTypeOK, global, conns, Control, Refresher
  <2> QED BY <2>1, <2>2, <2>3, <2>4, <2>5, Zenon DEF refresh
<1>2. stage' # "work" => \A u \in Tap : local'[u].pc = "off"
  BY <1>1, Zenon DEF StatInv, Moves, Thread
<1>3. RecordsOutliveTaps'
  BY <1>1, Zenon DEF StatInv, RecordsOutliveTaps, Moves, Thread
<1>4. Onward
  <2>1. CASE LoadTimestamp(t)
    BY <1>1, <2>1 DEF LoadTimestamp, Moves, Onward, StatTypeOK, history
  <2>2. CASE ClaimTick(t)
    BY <1>1, <2>2 DEF ClaimTick, Moves, Onward, StatTypeOK
  <2>3. CASE LoadTotal(t)
    BY <1>1, <2>3 DEF LoadTotal, Moves, Onward, StatTypeOK, history
  <2>4. CASE LoadCount(t)
    BY <1>1, <2>4 DEF LoadCount, Moves, Onward, StatTypeOK, history
  <2>5. CASE Report(t)
    <3>1. local[t].count \in Nat
      BY Zenon DEF StatTypeOK, Local
    <3> QED BY <1>1, <2>5, <3>1 DEF Report, Moves, Onward, StatTypeOK
  <2> QED BY <2>1, <2>2, <2>3, <2>4, <2>5, Zenon DEF refresh
<1>5. ASSUME NEW c \in Nat, c <= count, Handled(c) PROVE Handled(c)'
  BY <1>4, <1>5, StillHandled, Zenon
<1>6. local'[t].pc \in {"load", "claim"} =>
        /\ local[t].pc = "load" /\ timestamp' = timestamp
        /\ local'[t].count = local[t].count /\ local'[t].ts = timestamp
  <2>1. CASE LoadTimestamp(t)
    <3>1. local[t] \in Local
      BY Zenon DEF StatTypeOK
    <3> QED BY <2>1, <3>1, Zenon DEF LoadTimestamp, StatTypeOK, Local, global
  <2>0. local[t].next \in {"conn", "end"}
    BY Zenon DEF StatTypeOK, Local
  <2>2. CASE ClaimTick(t)
    BY <2>0, <2>2, Zenon DEF ClaimTick, Return, Blank, StatTypeOK
  <2>3. CASE Report(t)
    BY <2>0, <2>3, Zenon DEF Report, Return, Blank, StatTypeOK
  <2>4. CASE LoadTotal(t)
    BY <2>4 DEF LoadTotal, StatTypeOK
  <2>5. CASE LoadCount(t)
    BY <2>5 DEF LoadCount, StatTypeOK
  <2> QED BY <2>1, <2>2, <2>3, <2>4, <2>5, Zenon DEF refresh
<1>7. owed' = owed \/ ClaimTick(t)
  BY Zenon DEF refresh, LoadTimestamp, LoadTotal, LoadCount, Report, history
<1>8. CASE owed' = owed
  <2>1. owed' <= count' /\ Handled(owed)'
    BY <1>1, <1>5, <1>8, Zenon DEF StatInv, StatTypeOK, Handled
  <2>2. ASSUME NEW u \in Tap, local'[u].pc \in {"load", "claim"}
        PROVE  local'[u].count = local[u].count /\ local[u].pc \in {"load", "claim"}
    <3>1. CASE u # t
      BY <1>1, <2>2, <3>1, Zenon DEF Moves, Thread
    <3>2. CASE u = t
      BY <1>6, <2>2, <3>2, Zenon
    <3> QED BY <3>1, <3>2, Zenon
  <2>3. ASSUME NEW u \in Tap, local'[u].pc = "claim", local'[u].ts # timestamp'
        PROVE  Handled(local[u].count)'
    <3>1. local[u].count \in Nat /\ local[u].count <= count
      BY <2>2, <2>3, Zenon DEF StatInv, StatTypeOK, Thread, Local
    <3>2. CASE timestamp' = timestamp
      <4>1. u # t
        BY <1>6, <2>3, <3>2, Zenon
      <4>2. local'[u] = local[u]
        BY <1>1, <4>1, Zenon DEF Moves, Thread
      <4>3. Handled(local[u].count)
        BY <2>3, <3>2, <4>2, Zenon DEF StatInv
      <4> QED BY <1>5, <3>1, <4>2, <4>3, Zenon DEF Handled
    <3>3. CASE timestamp' # timestamp
      <4>1. local'[t].pc = "total"
        BY <3>3 DEF refresh, LoadTimestamp, ClaimTick, LoadTotal, LoadCount, Report, Blank,
              StatTypeOK, global
      <4> QED BY <4>1, Zenon DEF Handled
    <3> QED BY <3>2, <3>3, Zenon
  <2>4. \A u \in Tap : local'[u].pc \in {"load", "claim"} => local'[u].count <= count'
    BY <1>1, <2>2, Zenon DEF StatInv
  <2> QED BY <1>2, <1>3, <2>1, <2>3, <2>4, Zenon DEF StatInv
<1>9. CASE owed' # owed
  <2>1. /\ ClaimTick(t) /\ t \in Tap /\ owed' = local[t].count
        /\ local[t].pc = "claim" /\ local[t].ts # timestamp /\ timestamp' = timestamp
    BY <1>7, <1>9, Zenon DEF ClaimTick, Forced, Thread
  <2>2. local[t].count \in Nat /\ local[t].count <= count /\ Handled(local[t].count)
    BY <2>1, Zenon DEF StatInv, StatTypeOK, Local
  <2>3. owed' <= count' /\ Handled(owed)'
    BY <1>1, <1>5, <2>1, <2>2, Zenon DEF Handled
  <2>4. local'[t].pc \notin {"load", "claim"}
    BY <1>6, <2>1, Zenon
  <2>5. ASSUME NEW u \in Tap, local'[u].pc \in {"load", "claim"}
        PROVE  local'[u] = local[u] /\ local[u].count \in Nat /\ local[u].count <= count
    BY <1>1, <2>4, <2>5, Zenon DEF Moves, Thread, StatInv, StatTypeOK, Local
  <2>6. ASSUME NEW u \in Tap, local'[u].pc = "claim", local'[u].ts # timestamp'
        PROVE  Handled(local[u].count)'
    <3>1. local'[u] = local[u] /\ local[u].count \in Nat /\ local[u].count <= count
      BY <2>5, <2>6, Zenon
    <3>2. Handled(local[u].count)
      BY <2>1, <2>6, <3>1, Zenon DEF StatInv
    <3> QED BY <1>5, <3>1, <3>2, Zenon DEF Handled
  <2> QED BY <1>1, <1>2, <1>3, <2>3, <2>5, <2>6, Zenon DEF StatInv
<1> QED BY <1>8, <1>9, Zenon

(***************************************************************************)
(* A step that is no refresh and leaves the counters alone.                *)
(***************************************************************************)
LEMMA AsideInv ==
    ASSUME StatTypeOK, StatTypeOK', StatInv, NEW t \in Thread, Aside(t),
           timestamp' = timestamp \/ \A u \in Tap : local[u].pc = "off",
           (stage # "work" => \A u \in Tap : local[u].pc = "off")',
           RecordsOutliveTaps'
    PROVE  StatInv'
BY AsideKeeps, Zenon DEF StatInv

LEMMA ControlKeeps ==
    ASSUME StatTypeOK, StatTypeOK', StatInv, ControlStep PROVE StatInv'
<1> USE DEF RecordsOutliveTaps
<1>0. Control \in Thread /\ Control \notin Tap /\ \A u \in Tap : u \in Thread
  BY StatisticsAssumption, Zenon DEF Thread, Control
<1>1. CASE set_total_buckets
  <2>1. Aside(Control)
    BY <1>0, <1>1, Zenon DEF set_total_buckets, At, Call, Aside, Moves, StatTypeOK, history
  <2> QED BY <1>0, <1>1, <2>1, AsideInv, ZenonT(60)
          DEF set_total_buckets, At, Call, StatInv, StatTypeOK, conns
<1>2. CASE WorklistProcessed
  <2>1. Aside(Control)
    BY <1>0, <1>2, Zenon DEF WorklistProcessed, At, Aside, Moves, history, global
  <2> QED BY <1>0, <1>2, <2>1, AsideInv, Zenon DEF WorklistProcessed, StatInv, conns, global
<1>3. CASE reset
  <2>1. \A u \in Tap : local[u].pc = "off" /\ local'[u] = local[u]
    BY <1>0, <1>3, Zenon DEF reset, At, StatInv, Call, StatTypeOK
  <2>2. CASE UNCHANGED <<count, local, history>>
    <3>1. Aside(Control)
      BY <1>0, <1>3, <2>2, Zenon DEF reset, At, Aside, Moves, history
    <3> QED BY <1>0, <1>3, <2>1, <3>1, AsideInv, Zenon DEF reset, StatInv, conns
  <2>3. CASE owed' = 0 /\ reported' = 0 /\ count' = 0
    <3>1. \A u \in Tap : local'[u].pc = "off" /\ local'[u].pc \notin {"load", "claim"}
      BY <2>1, Zenon
    <3>2. owed' <= count' /\ Handled(owed)'
      BY <2>3 DEF Handled
    <3>3. RecordsOutliveTaps'
      BY <3>1, Zenon DEF RecordsOutliveTaps
    <3> QED BY <3>1, <3>2, <3>3, Zenon DEF StatInv
  <2> QED BY <1>3, <2>2, <2>3, Zenon DEF reset
<1>4. CASE reset_conns
  <2>1. Aside(Control)
    BY <1>0, <1>4, Zenon DEF reset_conns, At, Aside, Moves, history, global
  <2> QED BY <1>0, <1>4, <2>1, AsideInv, Zenon DEF reset_conns, At, StatInv, global
<1>5. CASE DeleteStatistics
  <2>1. Aside(Control)
    BY <1>0, <1>5, Zenon DEF DeleteStatistics, At, Aside, Moves, history, global
  <2> QED BY <1>0, <1>5, <2>1, AsideInv, Zenon DEF DeleteStatistics, At, StatInv, global
<1>6. CASE JoinRefresher
  <2>1. Aside(Control)
    BY <1>0, <1>6, Zenon DEF JoinRefresher, At, Aside, Moves, history, global
  <2> QED BY <1>0, <1>6, <2>1, AsideInv, Zenon DEF JoinRefresher, At, StatInv, conns, global
<1>7. CASE refresh(Control)
  BY <1>0, <1>7, RefreshKeeps, Zenon
<1>8. ASSUME NEW t \in Tap, add_connection(t) PROVE StatInv'
  <2>1. Aside(t) /\ local'[t].pc = "run"
    BY <1>0, <1>8, Zenon DEF add_connection, At, Aside, Moves, StatTypeOK, Blank, history, global
  <2> QED
    BY <1>0, <1>8, <2>1, AsideInv, Zenon DEF add_connection, At, StatInv, Aside, Moves, global
<1>9. ASSUME NEW t \in Tap, complete_single_tap(t) PROVE StatInv'
  <2>1. Aside(t) /\ local'[t].pc = "off"
    BY <1>0, <1>9, Zenon
    DEF complete_single_tap, At, Aside, Moves, StatTypeOK, Blank, history, global
  <2> QED BY <1>0, <1>9, <2>1, AsideInv, Zenon
          DEF complete_single_tap, At, StatInv, Aside, Moves, conns, global
<1> QED
  BY <1>1, <1>2, <1>3, <1>4, <1>5, <1>6, <1>7, <1>8, <1>9, ControlStep, Zenon DEF ControlStep

LEMMA TapKeeps ==
    ASSUME StatTypeOK, StatTypeOK', StatInv, NEW t \in Tap, TapStep(t) PROVE StatInv'
<1> USE DEF RecordsOutliveTaps
<1>0. t \in Thread /\ \A u \in Tap : u \in Thread
  BY Zenon DEF Thread
<1>1. CASE increment_resynced_keys_count(t) \/ increment_resynced_bucket_count(t)
  <2>1. /\ Moves(t) /\ UNCHANGED <<history, stage, conns, timestamp>>
        /\ local[t].pc = "run" /\ local'[t].pc = "load" /\ local'[t].count = count + 1
        /\ count' = count + 1
    <3>1. PICK next \in {"conn", "end"} : Count(t, next)
      BY <1>1, Zenon DEF increment_resynced_keys_count, increment_resynced_bucket_count
    <3> QED BY <1>0, <3>1, Zenon DEF Count, Moves, StatTypeOK
  <2>2. Onward
    BY <1>0, <2>1 DEF Onward, Moves, StatTypeOK, history
  <2>3. ASSUME NEW c \in Nat, c <= count, Handled(c) PROVE Handled(c)'
    BY <2>2, <2>3, StillHandled, Zenon
  <2>4. owed' <= count' /\ Handled(owed)'
    BY <2>1, <2>3 DEF StatInv, StatTypeOK, history, Handled
  <2>5. ASSUME NEW u \in Tap, local'[u].pc \in {"load", "claim"}
        PROVE  local'[u].count <= count'
    <3>1. local[u].count \in Nat /\ count \in Nat
      BY <1>0, Zenon DEF StatTypeOK, Local
    <3> QED BY <1>0, <2>1, <2>5, <3>1, SMTT(60) DEF StatInv, Moves
  <2>6. ASSUME NEW u \in Tap, local'[u].pc = "claim", local'[u].ts # timestamp'
        PROVE  Handled(local[u].count)'
    <3>1. local'[u] = local[u]
      BY <1>0, <2>1, <2>6, Zenon DEF Moves
    <3>2. local[u].count \in Nat /\ local[u].count <= count /\ Handled(local[u].count)
      BY <1>0, <2>1, <2>6, <3>1, Zenon DEF StatInv, StatTypeOK, Local
    <3> QED BY <2>3, <3>1, <3>2, Zenon DEF Handled
  <2> QED BY <1>0, <2>1, <2>4, <2>5, <2>6, Zenon DEF StatInv, Moves, conns
<1>2. CASE refresh(t)
  BY <1>0, <1>2, RefreshKeeps, Zenon
<1>3. CASE LockConn(t)
  <2>1. Aside(t) /\ local[t].pc = "conn" /\ local'[t].pc = "update"
    BY <1>0, <1>3, Zenon DEF LockConn, Aside, Moves, StatTypeOK, Blank, history, global
  <2> QED BY <1>0, <1>3, <2>1, AsideInv, Zenon DEF LockConn, StatInv, Aside, Moves, global
<1>4. CASE UpdateConn(t)
  <2>1. Aside(t) /\ local[t].pc = "update" /\ local'[t].pc = "run"
    BY <1>0, <1>4, Zenon DEF UpdateConn, Aside, Moves, StatTypeOK, Blank, history, global
  <2> QED BY <1>0, <1>4, <2>1, AsideInv, Zenon DEF UpdateConn, StatInv, Aside, Moves, global
<1>5. CASE TapEnds(t)
  <2>1. Aside(t) /\ local[t].pc = "end" /\ local'[t].pc = "ended"
    BY <1>0, <1>5, Zenon DEF TapEnds, Aside, Moves, StatTypeOK, Blank, history, global
  <2> QED BY <1>0, <1>5, <2>1, AsideInv, Zenon DEF TapEnds, StatInv, Aside, Moves, global
<1>6. CASE TapFails(t)
  <2>1. Aside(t) /\ local[t].pc = "run" /\ local'[t].pc = "failed"
    BY <1>0, <1>6, Zenon DEF TapFails, Aside, Moves, StatTypeOK, Blank, history, global
  <2> QED BY <1>0, <1>6, <2>1, AsideInv, Zenon DEF TapFails, StatInv, Aside, Moves, conns, global
<1> QED BY <1>1, <1>2, <1>3, <1>4, <1>5, <1>6, Zenon DEF TapStep

LEMMA StatInvariance ==
    ASSUME StatTypeOK, StatTypeOK', StatInv, [Next]_vars PROVE StatInv'
<1> USE DEF RecordsOutliveTaps
<1>0. Refresher \in Thread /\ Refresher \notin Tap /\ \A u \in Tap : u \in Thread
  BY StatisticsAssumption, Zenon DEF Thread, Refresher
<1>1. CASE UNCHANGED statvars
  BY <1>1, Zenon DEF StatInv, Handled, statvars, global, conns, history
<1>2. CASE PeriodPasses
  BY <1>2, Zenon DEF PeriodPasses, StatInv, Handled, global, conns, history
<1>3. CASE thread_func
  <2>1. Aside(Refresher) /\ UNCHANGED <<timestamp, stage, connections>>
    BY <1>0, <1>3, Zenon DEF thread_func, Call, Aside, Moves, StatTypeOK, global, history, conns
  <2> QED BY <1>0, <2>1, AsideInv, Zenon DEF StatInv, Aside, Moves
<1>4. CASE refresh(Refresher)
  BY <1>0, <1>4, RefreshKeeps, Zenon
<1>5. CASE ControlStep
  BY <1>5, ControlKeeps, Zenon
<1>6. ASSUME NEW t \in Tap, TapStep(t) PROVE StatInv'
  BY <1>6, TapKeeps, Zenon
<1> QED
  BY <1>1, <1>2, <1>3, <1>4, <1>5, <1>6, Zenon
  DEF Next, StatNext, RefresherStep, StartWait, Poll, vars

LEMMA StatInvInit == WaitInit => StatInv
<1> SUFFICES ASSUME WaitInit PROVE StatInv
  BY Zenon
<1>1. \A t \in Tap : local[t].pc = "off"
  BY StatisticsAssumption, Zenon DEF WaitInit, Init, Thread, Blank, Refresher
<1> QED
  BY <1>1, SMTT(60) DEF WaitInit, Init, StatInv, Handled, RecordsOutliveTaps

(***************************************************************************)
(* Every variable keeps its type: wait-sync's count of unchanged cycles    *)
(* stays below its limit.                                                  *)
(***************************************************************************)
THEOREM TypeCorrect == Spec => []TypeOK
<1>1. TypeOK /\ [Next]_vars => TypeOK'
  BY TypeInvariance, Zenon
<1> QED BY <1>1, TypeInit, PTL DEF Spec

LEMMA StatInvariant == Spec => [](TypeOK /\ StatInv)
<1>1. TypeOK /\ StatInv /\ [Next]_vars => (TypeOK /\ StatInv)'
  <2> SUFFICES ASSUME TypeOK, StatInv, [Next]_vars PROVE TypeOK' /\ StatInv'
    BY Zenon
  <2>1. TypeOK'
    BY TypeInvariance, Zenon
  <2>2. StatTypeOK /\ StatTypeOK'
    BY <2>1, Zenon DEF TypeOK
  <2> QED BY <2>1, <2>2, StatInvariance, Zenon
<1> QED BY <1>1, TypeInit, StatInvInit, PTL DEF Spec

(***************************************************************************)
(* refresh may leave a count to the thread that won the tick: it is        *)
(* reported, for any number of threads losing and winning ticks.           *)
(***************************************************************************)
THEOREM LostTicksAreReported == Spec => []LostTickIsReported
<1>1. StatInv => LostTickIsReported
  BY Zenon DEF StatInv, Handled, LostTickIsReported
<1> QED BY <1>1, StatInvariant, PTL

(* reset deletes the ConnectionRecords without the lock: no tap uses one.  *)
THEOREM RecordsAreKept == Spec => []RecordsOutliveTaps
<1>1. StatInv => RecordsOutliveTaps
  BY Zenon DEF StatInv
<1> QED BY <1>1, StatInvariant, PTL

-----------------------------------------------------------------------------
(***************************************************************************)
(* What wait-sync reads.  Control only leaves the refresh it called from   *)
(* set_total_buckets by reporting, and from then on any report of another  *)
(* total than the current one is an overtaken one.                         *)
(***************************************************************************)
Truthful ==
    /\ stage = "work" => total # 0
    /\ At("work") => overtaken \/ lvc.total = total
    /\ stage = "work" => local[Control].pc \in {"off", "load", "claim", "total", "count", "report"}

LEMMA RefreshIsTruthful ==
    ASSUME StatTypeOK, Truthful, NEW t \in Thread, refresh(t) PROVE Truthful'
<1>0. Control \in Thread /\ Refresher # Control
  BY Zenon DEF Thread, Control, Refresher
<1>1. CASE LoadTimestamp(t)
  BY <1>0, <1>1 DEF LoadTimestamp, Truthful, At, StatTypeOK, global, history
<1>2. CASE ClaimTick(t)
  <2>1. t = Control => local'[Control].pc = "total"
    BY <1>0, <1>2, Zenon DEF ClaimTick, Forced, Blank, StatTypeOK
  <2>2. t # Control => local'[Control] = local[Control]
    BY <1>0, <1>2, Zenon DEF ClaimTick, Return, StatTypeOK
  <2> QED BY <1>2, <2>1, <2>2, Zenon DEF ClaimTick, Truthful, At
<1>3. CASE LoadTotal(t)
  BY <1>0, <1>3 DEF LoadTotal, Truthful, At, StatTypeOK, global, history
<1>4. CASE LoadCount(t)
  BY <1>0, <1>4 DEF LoadCount, Truthful, At, StatTypeOK, global, history
<1>5. CASE Report(t)
  <2>1. t = Control => local'[Control].pc = "off"
    BY <1>0, <1>5, Zenon DEF Report, Return, Blank, StatTypeOK
  <2>2. t # Control => local'[Control] = local[Control]
    BY <1>0, <1>5, Zenon DEF Report, Return, StatTypeOK
  <2>3. UNCHANGED <<stage, total>>
    BY <1>5, Zenon DEF Report, global
  <2>4. overtaken' \/ lvc'.total = total
    BY <1>5, Zenon DEF Report
  <2> QED BY <2>1, <2>2, <2>3, <2>4, Zenon DEF Truthful, At
<1> QED BY <1>1, <1>2, <1>3, <1>4, <1>5, Zenon DEF refresh

LEMMA StepIsTruthful ==
    ASSUME StatTypeOK, Truthful, [Next]_vars PROVE Truthful'
<1>0. /\ Control \in Thread /\ Refresher \in Thread /\ Refresher # Control /\ Control \notin Tap
      /\ \A u \in Tap : u \in Thread
  BY StatisticsAssumption, Zenon DEF Thread, Control, Refresher
<1>1. CASE UNCHANGED statvars
  BY <1>1, Zenon DEF Truthful, At, statvars, global, history
<1>2. CASE PeriodPasses
  BY <1>2, Zenon DEF PeriodPasses, Truthful, At, global, history
<1>3. CASE thread_func
  <2>1. local'[Control] = local[Control]
    BY <1>0, <1>3, Zenon DEF thread_func, Call, StatTypeOK
  <2> QED BY <1>3, <2>1, Zenon DEF thread_func, Truthful, At, global, history
<1>4. ASSUME NEW t \in Thread, refresh(t) PROVE Truthful'
  BY <1>4, RefreshIsTruthful, Zenon
<1>5. CASE set_total_buckets
  <2>1. total' # 0 /\ local'[Control].pc = "load"
    BY <1>0, <1>5, StatisticsAssumption, Zenon DEF set_total_buckets, Call, Blank, StatTypeOK
  <2> QED BY <2>1, Zenon DEF Truthful, At
<1>6. CASE WorklistProcessed \/ reset \/ reset_conns \/ DeleteStatistics \/ JoinRefresher
  <2>1. stage' # "work"
    BY <1>6, Zenon DEF WorklistProcessed, reset, reset_conns, DeleteStatistics, JoinRefresher
  <2> QED BY <2>1, Zenon DEF Truthful, At
<1>7. ASSUME NEW t \in Tap,
             \/ add_connection(t) \/ complete_single_tap(t)
             \/ increment_resynced_keys_count(t) \/ increment_resynced_bucket_count(t)
             \/ LockConn(t) \/ UpdateConn(t) \/ TapEnds(t) \/ TapFails(t)
      PROVE  Truthful'
  <2>1. local'[Control] = local[Control]
    BY <1>0, <1>7, Zenon
    DEF add_connection, complete_single_tap, increment_resynced_keys_count,
        increment_resynced_bucket_count, Count, LockConn, UpdateConn, TapEnds, TapFails, StatTypeOK
  <2>2. UNCHANGED <<total, lvc, stage, overtaken>>
    BY <1>7, Zenon
    DEF add_connection, complete_single_tap, increment_resynced_keys_count,
        increment_resynced_bucket_count, Count, LockConn, UpdateConn, TapEnds, TapFails, global, history
  <2> QED BY <2>1, <2>2, Zenon DEF Truthful, At
<1> QED
  BY <1>0, <1>1, <1>2, <1>3, <1>4, <1>5, <1>6, <1>7, Zenon
  DEF Next, StatNext, ControlStep, RefresherStep, TapStep, StartWait, Poll, vars

(***************************************************************************)
(* wait-sync calls a resync finished only when it is not at work, or the   *)
(* report that it reads has been overtaken.                                *)
(***************************************************************************)
THEOREM FinishedMeansResynced == Spec => FinishedIsResynced
<1>1. WaitInit => Truthful
  BY Zenon DEF WaitInit, Init, Truthful, At
<1>2. TypeOK /\ Truthful /\ [Next]_vars => Truthful'
  BY StepIsTruthful, Zenon DEF TypeOK
<1>3. Truthful /\ [Next]_vars =>
        [waiter = "waiting" /\ waiter' = "finished" /\ At("work") => overtaken]_vars
  <2> SUFFICES ASSUME Truthful, [Next]_vars, waiter = "waiting", waiter' = "finished", At("work")
               PROVE  overtaken
    BY Zenon
  <2>1. Poll
    BY Zenon DEF Next, StartWait, waitvars, vars
  <2>2. lvc.total = 0
    BY <2>1, Zenon DEF Poll, SameAgain, End
  <2> QED BY <2>2, Zenon DEF Truthful, At
<1> QED BY <1>1, <1>2, <1>3, TypeCorrect, PTL DEF Spec, FinishedIsResynced
=============================================================================
