---------------------------- MODULE ResyncProofs ----------------------------
(***************************************************************************)
(* Proofs about modules Worklist and Resync, for every cluster and every   *)
(* set of views.                                                           *)
(***************************************************************************)
EXTENDS Resync, FiniteSetTheorems, WellFoundedInduction, TLAPS

\* A non-empty replica list has a head.
LEMMA FirstIsThere ==
    ASSUME NEW entries, entries \subseteq Nat \X Server, entries # {}
    PROVE  /\ First(entries) \in entries
           /\ \A f \in entries : First(entries)[1] =< f[1]
<1> DEFINE positions == {e[1] : e \in entries}
<1>1. positions \subseteq Nat /\ positions # {}
  BY Zenon
<1>2. PICK n \in positions : \A m \in positions : ~(<<m, n>> \in OpToRel(<, Nat))
  BY <1>1, NatLessThanWellFounded, WFMin, Zenon
<1>3. ASSUME NEW m \in positions PROVE n =< m
  <2>1. m \in Nat /\ n \in Nat
    BY <1>1, Zenon
  <2>2. <<m, n>> \in Nat \X Nat /\ <<m, n>>[1] = m /\ <<m, n>>[2] = n
    BY <2>1, Zenon
  <2>3. ~(m < n)
    BY <1>2, <2>2, Zenon DEF OpToRel
  <2> QED
    BY <2>1, <2>3
<1>4. PICK e \in entries : e[1] = n
  BY Zenon
<1>5. \A f \in entries : e[1] =< f[1]
  BY <1>3, <1>4, Zenon
<1> QED
  BY <1>5, Zenon DEF First

LEMMA EntriesType ==
    ASSUME NEW vec \in Seq(Server)
    PROVE  Entries(vec) \subseteq Nat \X Server /\ IsFiniteSet(Entries(vec))
<1>1. Entries(vec) \subseteq Nat \X Server
  BY DEF Entries
<1> DEFINE f == [i \in 1..Len(vec) |-> <<i, vec[i]>>]
<1>2. f \in Surjection(1..Len(vec), Entries(vec))
  <2>1. DOMAIN vec = 1..Len(vec)
    OBVIOUS
  <2>2. f \in [1..Len(vec) -> Entries(vec)]
    BY <2>1, Zenon DEF Entries
  <2>3. \A e \in Entries(vec) : \E i \in 1..Len(vec) : f[i] = e
    BY <2>1, Zenon DEF Entries
  <2> QED
    BY <2>2, <2>3, Zenon DEF Surjection
<1>3. IsFiniteSet(1..Len(vec))
  BY FS_Interval
<1> QED
  BY <1>1, <1>2, <1>3, FS_Surjection, Zenon

\* The work list of a well-formed view is well formed.
LEMMA WorklistType ==
    ASSUME NEW view, IsView(view), NEW full_resync
    PROVE  LET owl0 == calculate_worklist(view, full_resync)
           IN  /\ DOMAIN owl0 \subseteq VBucket
               /\ \A v \in DOMAIN owl0 : owl0[v] \subseteq Nat \X Server
               /\ IsFiniteSet(UNION {{v} \X owl0[v] : v \in DOMAIN owl0})
               /\ owl_total_buckets(owl0) \in Nat
<1> DEFINE owl0 == calculate_worklist(view, full_resync)
<1>1. DOMAIN owl0 \subseteq VBucket
  <2>1. DOMAIN target_replicas(view) \subseteq VBucket
    BY Zenon DEF target_replicas, IsView, IsReplicaMap
  <2> QED
    BY <2>1, Zenon DEF calculate_worklist
<1>2. ASSUME NEW v \in DOMAIN owl0
      PROVE  owl0[v] \subseteq Nat \X Server /\ IsFiniteSet(owl0[v])
  <2>1. At(view.current, v) \in Seq(Server)
    BY DEF At, IsView, IsReplicaMap
  <2>2. owl0[v] = source_replicas(view, full_resync, v)
    BY <1>2, Zenon DEF calculate_worklist
  <2>3. owl0[v] \subseteq Entries(At(view.current, v))
    BY <2>2, Zenon DEF source_replicas
  <2> QED
    BY <2>1, <2>3, EntriesType, FS_Subset, Zenon
<1>3. /\ IsFiniteSet(UNION {{v} \X owl0[v] : v \in DOMAIN owl0})
      /\ owl_total_buckets(owl0) \in Nat
  <2> DEFINE f == [v \in DOMAIN owl0 |-> {v} \X owl0[v]]
             parts == {{v} \X owl0[v] : v \in DOMAIN owl0}
  <2>1. IsFiniteSet(DOMAIN owl0)
    BY <1>1, VBucketAssumption, FS_Subset, Zenon
  <2>2. f \in Surjection(DOMAIN owl0, parts)
    BY Zenon DEF Surjection
  <2>3. IsFiniteSet(parts)
    <3> HIDE DEF f, parts
    <3> QED
      BY <2>1, <2>2, FS_Surjection, Zenon
  <2>4. ASSUME NEW v \in DOMAIN owl0 PROVE IsFiniteSet({v} \X owl0[v])
    BY <1>2, <2>4, FS_Singleton, FS_Product, Zenon
  <2>5. IsFiniteSet(UNION parts)
    <3>1. \A T \in parts : IsFiniteSet(T)
      BY <2>4, Zenon
    <3> HIDE DEF parts
    <3> QED
      BY <2>3, <3>1, FS_UNION, Zenon
  <2> QED
    BY <2>5, FS_CardinalityType, Zenon DEF owl_total_buckets
<1> QED
  BY <1>1, <1>2, <1>3, Zenon

\* The taps of a round are taps of servers in the work list, each for vbuckets
\* that have the server at the head of their list; a vbucket is in one tap.
LEMMA TapsOfRound ==
    ASSUME NEW owl0, DOMAIN owl0 \subseteq VBucket,
           \A v \in DOMAIN owl0 : owl0[v] \subseteq Nat \X Server
    PROVE  LET taps0 == calculate_taps(owl0)
           IN  /\ DOMAIN taps0 \subseteq Server
               /\ \A s \in DOMAIN taps0 :
                      /\ taps0[s] \subseteq DOMAIN owl0
                      /\ taps0[s] # {}
                      /\ \A v \in taps0[s] : /\ owl0[v] # {}
                                             /\ First(owl0[v]) \in owl0[v]
                                             /\ First(owl0[v])[2] = s
               /\ \A v \in DOMAIN owl0 :
                      owl0[v] # {} => /\ First(owl0[v])[2] \in DOMAIN taps0
                                      /\ v \in taps0[First(owl0[v])[2]]
<1> DEFINE busy == {v \in DOMAIN owl0 : owl0[v] # {}}
           Head1(v) == First(owl0[v])
           taps0 == calculate_taps(owl0)
<1>1. \A v \in busy : Head1(v) \in owl0[v] /\ Head1(v)[2] \in Server
  BY FirstIsThere
<1>2. DOMAIN taps0 = {Head1(v)[2] : v \in busy}
  BY Zenon DEF calculate_taps
<1>3. \A s \in DOMAIN taps0 : taps0[s] = {v \in busy : Head1(v)[2] = s}
  BY Zenon DEF calculate_taps
<1> HIDE DEF taps0, Head1
<1>4. DOMAIN taps0 \subseteq Server
  BY <1>1, <1>2, Zenon
<1>5. ASSUME NEW s \in DOMAIN taps0
      PROVE  /\ taps0[s] \subseteq DOMAIN owl0
             /\ taps0[s] # {}
             /\ \A v \in taps0[s] : owl0[v] # {} /\ Head1(v) \in owl0[v] /\ Head1(v)[2] = s
  BY <1>1, <1>2, <1>3, <1>5
<1>6. \A v \in busy : Head1(v)[2] \in DOMAIN taps0 /\ v \in taps0[Head1(v)[2]]
  BY <1>2, <1>3
<1> QED
  BY <1>4, <1>5, <1>6, Zenon DEF taps0, Head1
-----------------------------------------------------------------------------
\* The server's tap has a thread that is yet to be joined.
Unjoined(s) == \E i \in DOMAIN tap_handles : tap_handles[i] = s

\* A round: its taps share no vbucket, each is to be started, unjoined or over,
\* and only unjoined ones have a thread.
RoundInv ==
    /\ to_start \subseteq DOMAIN taps
    /\ \A i \in DOMAIN tap_handles : tap_handles[i] \in DOMAIN taps \ to_start
    /\ \A i, j \in DOMAIN tap_handles : tap_handles[i] = tap_handles[j] => i = j
    /\ \A s \in DOMAIN taps : taps[s] # {}
    /\ \A s, t \in DOMAIN taps : \A v \in taps[s] \cap taps[t] : s = t
    /\ \A s \in Server :
           thread[s].state # "none" => /\ Unjoined(s)
                                       /\ thread[s].buckets = taps[s]
                                       /\ thread[s].conn_stats \in 1..connections
    /\ ~resyncing => RoundOver

\* Each replica of each vbucket of the work list has had its turn, is still in
\* the list, or is being tapped in the current round.
TurnInv ==
    /\ resyncing =>
         /\ DOMAIN owl = DOMAIN source
         /\ \A v \in DOMAIN source : \A e \in source[v] :
                \/ Settled(v, e[2])
                \/ e \in owl[v]
                \/ /\ e[2] \in DOMAIN taps /\ v \in taps[e[2]]
                   /\ e[2] \in to_start \/ Unjoined(e[2])
    /\ AllReplicasTried

LEMMA AppendHandle ==
    ASSUME NEW h \in Seq(Server), NEW s \in Server
    PROVE  /\ Append(h, s) \in Seq(Server)
           /\ DOMAIN Append(h, s) = 1..(Len(h) + 1)
           /\ DOMAIN h = 1..Len(h) /\ Len(h) \in Nat
           /\ \A i \in DOMAIN h : Append(h, s)[i] = h[i]
           /\ Append(h, s)[Len(h) + 1] = s
OBVIOUS

LEMMA TailHandle ==
    ASSUME NEW h \in Seq(Server), h # <<>>
    PROVE  /\ Tail(h) \in Seq(Server)
           /\ DOMAIN Tail(h) = 1..(Len(h) - 1)
           /\ DOMAIN h = 1..Len(h) /\ Len(h) \in Nat \ {0}
           /\ \A i \in DOMAIN Tail(h) : Tail(h)[i] = h[i + 1]
           /\ Head(h) = h[1] /\ Head(h) \in Server
OBVIOUS

LEMMA UnjoinedTap ==
    ASSUME TypeOK, RoundInv
    PROVE  \A t : Unjoined(t) => t \in DOMAIN taps /\ t \in Server /\ t \notin to_start
<1> SUFFICES ASSUME NEW t, NEW i \in DOMAIN tap_handles, tap_handles[i] = t
             PROVE  t \in DOMAIN taps /\ t \in Server /\ t \notin to_start
  BY Zenon DEF Unjoined
<1>1. tap_handles[i] \in DOMAIN taps \ to_start
  BY Zenon DEF RoundInv
<1>2. DOMAIN taps \subseteq Server
  BY Zenon DEF TypeOK
<1> QED BY <1>1, <1>2, Zenon

LEMMA InitInv == Init => TypeOK /\ RoundInv /\ TurnInv /\ BlacklistHolds
<1> SUFFICES ASSUME Init PROVE TypeOK /\ RoundInv /\ TurnInv /\ BlacklistHolds
  BY Zenon
<1> USE DEF Init, NoMap, NoThread
<1>1. TypeOK
  <2>1. thread \in [Server -> [state : {"none", "running", "ok", "failed"},
                               buckets : SUBSET VBucket, conn_stats : Nat]]
    BY Zenon
  <2>2. owl = source /\ taps = source /\ DOMAIN source = {}
    BY Zenon
  <2>3. tap_handles \in Seq(Server)
    OBVIOUS
  <2>4. log \subseteq VBucket \X Server \X Outcome
    BY Zenon
  <2> QED
    BY <2>1, <2>2, <2>3, <2>4, Zenon DEF TypeOK
<1>2. RoundInv
  BY DEF RoundInv, RoundOver
<1>3. TurnInv
  BY Zenon DEF TurnInv, AllReplicasTried, Finished
<1>4. BlacklistHolds
  BY Zenon DEF BlacklistHolds, Blacklisted
<1> QED
  BY <1>1, <1>2, <1>3, <1>4, Zenon

LEMMA NextTypeOK ==
    ASSUME TypeOK, RoundInv, [Next]_vars
    PROVE  TypeOK'
<1> USE DEF TypeOK, Outcome, stats, round, history
<1>1. ASSUME NEW view \in Views, NEW full_resync \in BOOLEAN, do_resync(view, full_resync)
      PROVE  TypeOK'
  BY <1>1, ViewsAssumption, WorklistType, ZenonT(60) DEF do_resync
<1>2. CASE NextRound
  <2>1. /\ DOMAIN taps' \subseteq Server
        /\ \A s \in DOMAIN taps' : taps'[s] \subseteq VBucket
        /\ to_start' \subseteq Server
    BY <1>2, TapsOfRound, Zenon DEF NextRound
  <2>2. DOMAIN owl' \subseteq VBucket /\ \A v \in DOMAIN owl' : owl'[v] \subseteq Nat \X Server
    BY <1>2, Zenon DEF NextRound, owl_after_taps
  <2> QED
    BY <1>2, <2>1, <2>2, Zenon DEF NextRound
<1>3. ASSUME NEW s \in Server, perform_single_tap(s) PROVE TypeOK'
  <2>1. taps[s] \subseteq VBucket
    BY <1>3, Zenon DEF perform_single_tap, RoundInv
  <2> QED
    BY <1>3, <2>1, AppendHandle DEF perform_single_tap
<1>4. ASSUME NEW s \in Server, perform_single_tap_fails(s) PROVE TypeOK'
  <2>1. taps[s] \subseteq VBucket
    BY <1>4, Zenon DEF perform_single_tap_fails, RoundInv
  <2> QED
    BY <1>4, <2>1 DEF perform_single_tap_fails
<1>5. CASE complete_single_tap
  <2> DEFINE server == Head(tap_handles)
             ended == thread[server].state
  <2>1. server \in Server /\ server \in DOMAIN taps /\ tap_handles' \in Seq(Server)
    BY <1>5, TailHandle DEF complete_single_tap, RoundInv
  <2>2. /\ ended \in {"ok", "failed"}
        /\ thread' = [thread EXCEPT ![server] = NoThread]
        /\ log' = log \cup {<<v, server, ended>> : v \in taps[server]}
        /\ owl' \in {owl, blacklist_server(owl, server)}
        /\ unstreamed_buckets' \in {unstreamed_buckets, unstreamed_buckets \ taps[server]}
        /\ UNCHANGED <<resyncing, taps, to_start, stats, alarm, report, source>>
    BY <1>5, Zenon DEF complete_single_tap
  <2>3. log' \subseteq VBucket \X Server \X Outcome
    BY <2>1, <2>2
  <2>4. thread' \in [Server -> [state : {"none", "running", "ok", "failed"},
                                buckets : SUBSET VBucket, conn_stats : Nat]]
    BY <2>1, <2>2, Zenon DEF NoThread
  <2>5. DOMAIN owl' \subseteq VBucket /\ \A v \in DOMAIN owl' : owl'[v] \subseteq Nat \X Server
    BY <2>2 DEF blacklist_server
  <2>6. unstreamed_buckets' \subseteq VBucket
    BY <2>2, Zenon
  <2> QED
    BY <2>1, <2>2, <2>3, <2>4, <2>5, <2>6, Zenon
<1>6. CASE FinishResync
  BY <1>6, Zenon DEF FinishResync, NoMap
<1>7. ASSUME NEW s \in Server, NEW success \in BOOLEAN, tap_buckets_thread(s, success)
      PROVE  TypeOK'
  <2>1. Cardinality(thread[s].buckets) \in Nat
    BY VBucketAssumption, FS_Subset, FS_CardinalityType, Zenon
  <2>2. resynced_bucket_count' \in Nat
    BY <1>7, <2>1 DEF tap_buckets_thread
  <2>3. thread' \in [Server -> [state : {"none", "running", "ok", "failed"},
                                buckets : SUBSET VBucket, conn_stats : Nat]]
    BY <1>7, SMTT(60) DEF tap_buckets_thread
  <2> QED
    BY <1>7, <2>2, <2>3, Zenon DEF tap_buckets_thread
<1>8. CASE UNCHANGED vars
  BY <1>8, Zenon DEF vars
<1> QED
  BY <1>1, <1>2, <1>3, <1>4, <1>5, <1>6, <1>7, <1>8, ZenonT(60) DEF Next, ControlStep

\* What starting and joining a thread does to the set of unjoined threads.
LEMMA UnjoinedAfterStart ==
    ASSUME TypeOK, NEW s \in Server, tap_handles' = Append(tap_handles, s)
    PROVE  \A t : Unjoined(t)' <=> Unjoined(t) \/ t = s
<1> DEFINE h == tap_handles
<1>1. /\ DOMAIN h' = 1..(Len(h) + 1) /\ DOMAIN h = 1..Len(h) /\ Len(h) \in Nat
      /\ \A i \in DOMAIN h : h'[i] = h[i]
      /\ h'[Len(h) + 1] = s
  BY AppendHandle DEF TypeOK
<1>2. DOMAIN h' = DOMAIN h \cup {Len(h) + 1}
  BY <1>1
<1> QED
  BY <1>1, <1>2, Zenon DEF Unjoined

LEMMA UnjoinedAfterJoin ==
    ASSUME TypeOK, RoundInv, tap_handles # <<>>, tap_handles' = Tail(tap_handles)
    PROVE  /\ \A t : Unjoined(t)' <=> Unjoined(t) /\ t # Head(tap_handles)
           /\ Unjoined(Head(tap_handles))
<1> DEFINE h == tap_handles
<1>1. /\ DOMAIN h' = 1..(Len(h) - 1) /\ DOMAIN h = 1..Len(h) /\ Len(h) \in Nat \ {0}
      /\ \A i \in DOMAIN h' : h'[i] = h[i + 1]
      /\ Head(h) = h[1]
  BY TailHandle, Zenon DEF TypeOK
<1>2. \A i \in DOMAIN h : h[i] = h[1] => i = 1
  BY <1>1 DEF RoundInv
<1>3. ASSUME NEW t, Unjoined(t)' PROVE Unjoined(t) /\ t # Head(h)
  <2>1. PICK i \in DOMAIN h' : h'[i] = t
    BY <1>3, Zenon DEF Unjoined
  <2>2. i + 1 \in DOMAIN h /\ h[i + 1] = t /\ i + 1 # 1
    BY <1>1, <2>1
  <2> QED
    BY <1>1, <1>2, <2>2, Zenon DEF Unjoined
<1>4. ASSUME NEW t, Unjoined(t), t # Head(h) PROVE Unjoined(t)'
  <2>1. PICK i \in DOMAIN h : h[i] = t
    BY <1>4, Zenon DEF Unjoined
  <2>2. i # 1
    BY <1>1, <1>4, <2>1, Zenon
  <2>3. i - 1 \in DOMAIN h' /\ h'[i - 1] = t
    BY <1>1, <2>1, <2>2
  <2> QED
    BY <2>3, Zenon DEF Unjoined
<1>5. Unjoined(Head(h))
  BY <1>1 DEF Unjoined
<1> QED
  BY <1>3, <1>4, <1>5, Zenon

LEMMA NextRoundInv ==
    ASSUME TypeOK, RoundInv, [Next]_vars
    PROVE  RoundInv'
<1> USE DEF stats, round, history
<1>1. ASSUME NEW view \in Views, NEW full_resync \in BOOLEAN, do_resync(view, full_resync)
      PROVE  RoundInv'
  BY <1>1, Zenon DEF do_resync, RoundInv, RoundOver, Unjoined
<1>2. CASE NextRound
  <2>1. tap_handles = <<>> /\ tap_handles' = <<>> /\ thread' = thread
    BY <1>2, Zenon DEF NextRound, RoundOver
  <2>2. \A s \in Server : thread[s].state = "none"
    BY <2>1 DEF RoundInv, Unjoined
  <2>3. /\ \A s \in DOMAIN taps' : taps'[s] # {}
        /\ \A s, t \in DOMAIN taps' : \A v \in taps'[s] \cap taps'[t] : s = t
    BY <1>2, TapsOfRound DEF NextRound, TypeOK
  <2> QED
    BY <1>2, <2>1, <2>2, <2>3 DEF NextRound, RoundInv
<1>3. ASSUME NEW s \in Server, perform_single_tap(s) PROVE RoundInv'
  <2> USE DEF perform_single_tap
  <2>1. \A t : Unjoined(t)' <=> Unjoined(t) \/ t = s
    BY <1>3, UnjoinedAfterStart, Zenon
  <2>2. \A i \in DOMAIN tap_handles : tap_handles[i] # s
    BY <1>3, Zenon DEF RoundInv
  <2>3. /\ \A i \in DOMAIN tap_handles' : tap_handles'[i] \in DOMAIN taps' \ to_start'
        /\ \A i, j \in DOMAIN tap_handles' : tap_handles'[i] = tap_handles'[j] => i = j
    BY <1>3, <2>2, AppendHandle, SMTT(60) DEF RoundInv, TypeOK
  <2>4. \A t \in Server :
           thread'[t].state # "none" => /\ Unjoined(t)'
                                        /\ thread'[t].buckets = taps'[t]
                                        /\ thread'[t].conn_stats \in 1..connections'
    BY <1>3, <2>1, SMTT(60) DEF RoundInv, TypeOK
  <2>5. resyncing
    BY <1>3, Zenon DEF RoundInv, RoundOver
  <2> QED
    BY <1>3, <2>3, <2>4, <2>5, Zenon DEF RoundInv
<1>4. ASSUME NEW s \in Server, perform_single_tap_fails(s) PROVE RoundInv'
  <2>1. resyncing
    BY <1>4, Zenon DEF perform_single_tap_fails, RoundInv, RoundOver
  <2> QED
    BY <1>4, <2>1 DEF perform_single_tap_fails, RoundInv, Unjoined, TypeOK
<1>5. CASE complete_single_tap
  <2> USE DEF complete_single_tap
  <2>1. /\ \A t : Unjoined(t)' <=> Unjoined(t) /\ t # Head(tap_handles)
        /\ Unjoined(Head(tap_handles))
    BY <1>5, UnjoinedAfterJoin, Zenon
  <2>2. /\ \A i \in DOMAIN tap_handles' : tap_handles'[i] \in DOMAIN taps' \ to_start'
        /\ \A i, j \in DOMAIN tap_handles' : tap_handles'[i] = tap_handles'[j] => i = j
    <3>1. /\ DOMAIN tap_handles' = 1..(Len(tap_handles) - 1)
          /\ DOMAIN tap_handles = 1..Len(tap_handles)
          /\ Len(tap_handles) \in Nat \ {0}
          /\ \A i \in DOMAIN tap_handles' : tap_handles'[i] = tap_handles[i + 1]
      BY <1>5, TailHandle, Zenon DEF TypeOK
    <3>2. \A i \in DOMAIN tap_handles' : i + 1 \in DOMAIN tap_handles
      BY <3>1
    <3>3. to_start' = to_start /\ taps' = taps
      BY <1>5, Zenon
    <3>4. \A i \in DOMAIN tap_handles' : tap_handles'[i] \in DOMAIN taps' \ to_start'
      BY <3>1, <3>2, <3>3, Zenon DEF RoundInv
    <3>5. ASSUME NEW i \in DOMAIN tap_handles', NEW j \in DOMAIN tap_handles',
                 tap_handles'[i] = tap_handles'[j]
          PROVE  i = j
      <4>1. i + 1 = j + 1
        BY <3>1, <3>2, <3>5 DEF RoundInv
      <4> QED
        BY <3>1, <4>1
    <3> QED
      BY <3>4, <3>5, Zenon
  <2>3. \A t \in Server :
           thread'[t].state # "none" => /\ Unjoined(t)'
                                        /\ thread'[t].buckets = taps'[t]
                                        /\ thread'[t].conn_stats \in 1..connections'
    BY <1>5, <2>1, Zenon DEF RoundInv, TypeOK, NoThread
  <2>4. resyncing
    BY <1>5, Zenon DEF RoundInv, RoundOver
  <2> QED
    BY <1>5, <2>2, <2>3, <2>4, Zenon DEF RoundInv
<1>6. CASE FinishResync
  <2>1. tap_handles = <<>> /\ tap_handles' = <<>> /\ thread' = thread /\ to_start' = {}
    BY <1>6, Zenon DEF FinishResync, RoundOver
  <2>2. \A s \in Server : thread[s].state = "none"
    BY <2>1 DEF RoundInv, Unjoined
  <2>3. DOMAIN taps' = {}
    BY <1>6, Zenon DEF FinishResync, NoMap
  <2>4. DOMAIN tap_handles' = {}
    BY <2>1
  <2>5. \A s \in Server : thread'[s].state = "none"
    BY <2>1, <2>2, Zenon
  <2>6. RoundOver'
    BY <2>1, Zenon DEF RoundOver
  <2> QED
    BY <2>1, <2>3, <2>4, <2>5, <2>6, Zenon DEF RoundInv
<1>7. ASSUME NEW s \in Server, NEW success \in BOOLEAN, tap_buckets_thread(s, success)
      PROVE  RoundInv'
  BY <1>7 DEF tap_buckets_thread, RoundInv, RoundOver, Unjoined, TypeOK
<1>8. CASE UNCHANGED vars
  BY <1>8, Zenon DEF vars, RoundInv, RoundOver, Unjoined
<1> QED
  BY <1>1, <1>2, <1>3, <1>4, <1>5, <1>6, <1>7, <1>8, Zenon DEF Next, ControlStep

LEMMA NextBlacklistHolds ==
    ASSUME TypeOK, RoundInv, BlacklistHolds, [Next]_vars
    PROVE  BlacklistHolds'
<1> USE DEF stats, round, history
<1>1. ASSUME NEW view \in Views, NEW full_resync \in BOOLEAN, do_resync(view, full_resync)
      PROVE  BlacklistHolds'
  BY <1>1, Zenon DEF do_resync, BlacklistHolds, Blacklisted
<1>2. CASE NextRound
  <2>1. Blacklisted' = Blacklisted /\ thread' = thread
    BY <1>2, Zenon DEF NextRound, Blacklisted
  <2>2. ASSUME NEW s \in DOMAIN taps' PROVE s \notin Blacklisted
    <3>1. PICK v \in DOMAIN owl : First(owl[v]) \in owl[v] /\ First(owl[v])[2] = s
      BY <1>2, <2>2, TapsOfRound, SMTT(60) DEF NextRound, TypeOK
    <3> QED
      BY <3>1, Zenon DEF BlacklistHolds
  <2>3. \A v \in DOMAIN owl' : v \in DOMAIN owl /\ owl'[v] \subseteq owl[v]
    BY <1>2, Zenon DEF NextRound, owl_after_taps
  <2> QED
    BY <1>2, <2>1, <2>2, <2>3, Zenon DEF NextRound, BlacklistHolds
<1>3. ASSUME NEW s \in Server, perform_single_tap(s) PROVE BlacklistHolds'
  BY <1>3, Zenon DEF perform_single_tap, BlacklistHolds, Blacklisted, TypeOK
<1>4. ASSUME NEW s \in Server, perform_single_tap_fails(s) PROVE BlacklistHolds'
  <2>1. Blacklisted' = Blacklisted
    BY <1>4, Zenon DEF perform_single_tap_fails, Blacklisted
  <2> QED
    BY <1>4, <2>1, Zenon DEF perform_single_tap_fails, BlacklistHolds
<1>5. CASE complete_single_tap
  <2> DEFINE server == Head(tap_handles)
             ended == thread[server].state
  <2>1. /\ log' = log \cup {<<v, server, ended>> : v \in taps[server]}
        /\ thread' = [thread EXCEPT ![server] = NoThread]
        /\ to_start' = {}
        /\ \/ ended = "ok" /\ owl' = owl
           \/ ended = "failed" /\ owl' = blacklist_server(owl, server)
    BY <1>5, Zenon DEF complete_single_tap
  <2>2. server \in Server
    BY <1>5, TailHandle, Zenon DEF complete_single_tap, TypeOK
  <2>3. Blacklisted' \subseteq Blacklisted \cup {server}
    BY <2>1, Zenon DEF Blacklisted
  <2>4. ended = "ok" => Blacklisted' = Blacklisted
    BY <2>1, Zenon DEF Blacklisted
  <2>5. \A s \in Blacklisted' : thread'[s].state = "none"
    BY <2>1, <2>2, <2>3, Zenon DEF BlacklistHolds, TypeOK, NoThread, Blacklisted
  <2>6. \A s \in Blacklisted' : \A v \in DOMAIN owl' : \A e \in owl'[v] : e[2] # s
    BY <2>1, <2>3, <2>4 DEF BlacklistHolds, blacklist_server
  <2> QED
    BY <2>1, <2>5, <2>6, Zenon DEF BlacklistHolds
<1>6. CASE FinishResync
  BY <1>6, Zenon DEF FinishResync, BlacklistHolds, Blacklisted, NoMap
<1>7. ASSUME NEW s \in Server, NEW success \in BOOLEAN, tap_buckets_thread(s, success)
      PROVE  BlacklistHolds'
  BY <1>7, Zenon DEF tap_buckets_thread, BlacklistHolds, Blacklisted, TypeOK
<1>8. CASE UNCHANGED vars
  BY <1>8, Zenon DEF vars, BlacklistHolds, Blacklisted
<1> QED
  BY <1>1, <1>2, <1>3, <1>4, <1>5, <1>6, <1>7, <1>8, Zenon DEF Next, ControlStep

\* The log only grows during a resync, so what is settled stays settled.
LEMMA SettledStays ==
    ASSUME log \subseteq log'
    PROVE  \A v, s : Settled(v, s) => Settled(v, s)'
BY Zenon DEF Settled, Blacklisted

LEMMA NextTurnInv ==
    ASSUME TypeOK, RoundInv, TurnInv, [Next]_vars
    PROVE  TurnInv'
<1> USE DEF stats, round, history
<1>0. ASSUME log \subseteq log', source' = source, resyncing' = resyncing, report' = report
      PROVE  AllReplicasTried'
  BY <1>0, SettledStays, Zenon DEF TurnInv, AllReplicasTried, Finished
<1>1. ASSUME NEW view \in Views, NEW full_resync \in BOOLEAN, do_resync(view, full_resync)
      PROVE  TurnInv'
  BY <1>1, Zenon DEF do_resync, TurnInv, AllReplicasTried, Finished
<1>2. CASE NextRound
  <2>1. /\ resyncing /\ resyncing' /\ source' = source /\ log' = log /\ report' = report
        /\ to_start = {} /\ tap_handles = <<>>
        /\ owl' = owl_after_taps(owl) /\ taps' = calculate_taps(owl)
        /\ to_start' = DOMAIN taps'
    BY <1>2, Zenon DEF NextRound, RoundOver
  <2>2. DOMAIN owl' = DOMAIN source
    BY <2>1, Zenon DEF TurnInv, owl_after_taps
  <2>3. ASSUME NEW v \in DOMAIN source, NEW e \in source[v]
        PROVE  \/ Settled(v, e[2])'
               \/ e \in owl'[v]
               \/ e[2] \in DOMAIN taps' /\ v \in taps'[e[2]] /\ e[2] \in to_start'
    <3>1. Settled(v, e[2]) \/ e \in owl[v]
      BY <2>1 DEF TurnInv, Unjoined
    <3>2. CASE Settled(v, e[2])
      BY <2>1, <3>2, SettledStays, Zenon
    <3>3. CASE e \in owl[v] /\ e # First(owl[v])
      BY <2>1, <3>3, Zenon DEF owl_after_taps, TurnInv
    <3>4. CASE e \in owl[v] /\ e = First(owl[v])
      BY <2>1, <3>4, TapsOfRound, ZenonT(60) DEF TypeOK, TurnInv
    <3> QED
      BY <3>1, <3>2, <3>3, <3>4, Zenon
  <2> QED
    BY <1>0, <2>1, <2>2, <2>3, Zenon DEF TurnInv
<1>3. ASSUME NEW s \in Server, perform_single_tap(s) PROVE TurnInv'
  <2>1. \A t : Unjoined(t)' <=> Unjoined(t) \/ t = s
    BY <1>3, UnjoinedAfterStart, Zenon DEF perform_single_tap
  <2> QED
    BY <1>0, <1>3, <2>1, SettledStays, Zenon DEF perform_single_tap, TurnInv
<1>4. ASSUME NEW s \in Server, perform_single_tap_fails(s) PROVE TurnInv'
  <2>1. log' = log \cup {<<v, s, "dropped">> : v \in taps[s]}
    BY <1>4, Zenon DEF perform_single_tap_fails
  <2>2. \A v \in taps[s] : Settled(v, s)'
    BY <2>1, Zenon DEF Settled, Outcome
  <2>3. \A t : Unjoined(t)' <=> Unjoined(t)
    BY <1>4, Zenon DEF perform_single_tap_fails, Unjoined
  <2>4. /\ to_start' = to_start \ {s}
        /\ UNCHANGED <<resyncing, owl, taps, source, report>>
    BY <1>4, Zenon DEF perform_single_tap_fails
  <2> QED
    BY <1>0, <2>1, <2>2, <2>3, <2>4, SettledStays, Zenon DEF TurnInv
<1>5. CASE complete_single_tap
  <2>0. PICK server : server = Head(tap_handles)
    BY Zenon
  <2> DEFINE ended == thread[server].state
  <2>1. /\ log' = log \cup {<<v, server, ended>> : v \in taps[server]}
        /\ ended \in {"ok", "failed"}
        /\ \/ ended = "ok" /\ owl' = owl
           \/ ended = "failed" /\ owl' = blacklist_server(owl, server)
        /\ UNCHANGED <<resyncing, taps, to_start, source, report>>
    BY <1>5, <2>0, Zenon DEF complete_single_tap
  <2>2. /\ \A t : Unjoined(t)' <=> Unjoined(t) /\ t # server
        /\ Unjoined(server)
    BY <1>5, <2>0, UnjoinedAfterJoin, Zenon DEF complete_single_tap
  <2>3. server \in DOMAIN taps /\ taps[server] # {} /\ server \in Server
    BY <2>2 DEF RoundInv, Unjoined, TypeOK
  <2>4. \A v \in taps[server] : Settled(v, server)'
    BY <2>1, Zenon DEF Settled, Outcome
  <2>5. ended = "failed" => \A v : Settled(v, server)'
    <3>1. PICK v \in taps[server] : v \in VBucket
      BY <2>3, Zenon DEF TypeOK
    <3>2. ended = "failed" => <<v, server, "failed">> \in log'
      BY <2>1, Zenon
    <3>3. ended = "failed" => server \in Blacklisted'
      BY <2>3, <3>1, <3>2, Zenon DEF Blacklisted
    <3> QED
      BY <3>3, Zenon DEF Settled
  <2>6. \A v \in DOMAIN owl : \A e \in owl[v] : e \in owl'[v] \/ Settled(v, e[2])'
    BY <2>1, <2>5, Zenon DEF blacklist_server
  <2>7. DOMAIN owl' = DOMAIN owl
    BY <2>1, Zenon DEF blacklist_server
  <2>8. log \subseteq log'
    BY <2>1, Zenon
  <2> QED
    BY <1>0, <2>1, <2>2, <2>4, <2>6, <2>7, <2>8, SettledStays, Zenon DEF TurnInv
<1>6. CASE FinishResync
  <2>1. /\ resyncing /\ ~resyncing' /\ source' = source /\ log' = log
        /\ to_start = {} /\ tap_handles = <<>>
        /\ \A v \in DOMAIN owl : owl[v] = {}
    BY <1>6, Zenon DEF FinishResync, RoundOver, owl_empty
  <2>2. \A v \in DOMAIN source : \A e \in source[v] : Settled(v, e[2])
    BY <2>1 DEF TurnInv, Unjoined
  <2> QED
    BY <2>1, <2>2, SettledStays, Zenon DEF TurnInv, AllReplicasTried
<1>7. ASSUME NEW s \in Server, NEW success \in BOOLEAN, tap_buckets_thread(s, success)
      PROVE  TurnInv'
  BY <1>0, <1>7, SettledStays, Zenon DEF tap_buckets_thread, TurnInv, Unjoined
<1>8. CASE UNCHANGED vars
  BY <1>0, <1>8, SettledStays, Zenon DEF vars, TurnInv, Unjoined
<1> QED
  BY <1>1, <1>2, <1>3, <1>4, <1>5, <1>6, <1>7, <1>8, Zenon DEF Next, ControlStep
-----------------------------------------------------------------------------
\* Every tap of a round is of a replica of the vbuckets it streams, and
\* unstreamed_buckets are those of the work list no tap has streamed.
ReportInv ==
    /\ \A v \in DOMAIN owl : v \in DOMAIN source /\ owl[v] \subseteq source[v]
    /\ \A s \in DOMAIN taps : \A v \in taps[s] :
           v \in DOMAIN source /\ \E e \in source[v] : e[2] = s
    /\ ~resyncing => DOMAIN taps = {}
    /\ resyncing =>
         unstreamed_buckets =
             {v \in DOMAIN source : \A e \in source[v] : <<v, e[2], "ok">> \notin log}
    /\ ReportIsTruthful

LEMMA NextReportInv ==
    ASSUME TypeOK, RoundInv, ReportInv, [Next]_vars
    PROVE  ReportInv'
<1> USE DEF stats, round, history
<1>1. ASSUME NEW view \in Views, NEW full_resync \in BOOLEAN, do_resync(view, full_resync)
      PROVE  ReportInv'
  <2>1. /\ resyncing' /\ owl' = source' /\ log' = {}
        /\ taps' = taps /\ DOMAIN taps = {} /\ unstreamed_buckets' = DOMAIN source'
    BY <1>1, Zenon DEF do_resync, ReportInv
  <2> QED
    BY <2>1, Zenon DEF ReportInv, ReportIsTruthful, Finished
<1>2. CASE NextRound
  <2>1. /\ resyncing /\ resyncing' /\ source' = source /\ log' = log
        /\ unstreamed_buckets' = unstreamed_buckets
        /\ owl' = owl_after_taps(owl) /\ taps' = calculate_taps(owl)
    BY <1>2, Zenon DEF NextRound
  <2>2. \A v \in DOMAIN owl' : v \in DOMAIN source' /\ owl'[v] \subseteq source'[v]
    BY <2>1, Zenon DEF ReportInv, owl_after_taps
  <2>3. \A s \in DOMAIN taps' : \A v \in taps'[s] :
            v \in DOMAIN owl /\ First(owl[v]) \in owl[v] /\ First(owl[v])[2] = s
    BY <2>1, TapsOfRound, SMTT(60) DEF TypeOK
  <2>4. \A s \in DOMAIN taps' : \A v \in taps'[s] :
            v \in DOMAIN source' /\ \E e \in source'[v] : e[2] = s
    BY <2>1, <2>3 DEF ReportInv
  <2> QED
    BY <2>1, <2>2, <2>4, Zenon DEF ReportInv, ReportIsTruthful, Finished
<1>3. ASSUME NEW s \in Server, perform_single_tap(s) PROVE ReportInv'
  BY <1>3, Zenon DEF perform_single_tap, ReportInv, ReportIsTruthful, Finished
<1>4. ASSUME NEW s \in Server, perform_single_tap_fails(s) PROVE ReportInv'
  <2>1. /\ log' = log \cup {<<v, s, "dropped">> : v \in taps[s]}
        /\ UNCHANGED <<resyncing, owl, taps, source, unstreamed_buckets, report>>
    BY <1>4, Zenon DEF perform_single_tap_fails
  <2>2. \A v, t : <<v, t, "ok">> \in log' <=> <<v, t, "ok">> \in log
    BY <2>1, Zenon
  <2> QED
    BY <2>1, <2>2, ZenonT(60) DEF ReportInv, ReportIsTruthful, Finished
<1>5. CASE complete_single_tap
  <2>0. PICK server : server = Head(tap_handles)
    BY Zenon
  <2> DEFINE ended == thread[server].state
  <2>1. /\ log' = log \cup {<<v, server, ended>> : v \in taps[server]}
        /\ \/ ended = "ok" /\ owl' = owl /\ unstreamed_buckets' = unstreamed_buckets \ taps[server]
           \/ /\ ended = "failed" /\ owl' = blacklist_server(owl, server)
              /\ unstreamed_buckets' = unstreamed_buckets
        /\ UNCHANGED <<resyncing, taps, source, report>>
    BY <1>5, <2>0, Zenon DEF complete_single_tap
  <2>2. server \in DOMAIN taps /\ resyncing
    BY <1>5, <2>0, TailHandle, SMTT(60) DEF complete_single_tap, RoundInv, RoundOver, TypeOK
  <2>3. \A v \in DOMAIN owl' : v \in DOMAIN source' /\ owl'[v] \subseteq source'[v]
    BY <2>1 DEF ReportInv, blacklist_server
  <2>4. CASE ended = "ok"
    <3>1. \A v, t : <<v, t, "ok">> \in log' <=>
              <<v, t, "ok">> \in log \/ (v \in taps[server] /\ t = server)
      BY <2>1, <2>4, Zenon
    <3>2. \A v \in taps[server] : \E e \in source[v] : e[2] = server
      BY <2>2, Zenon DEF ReportInv
    <3>3. unstreamed_buckets' =
             {v \in DOMAIN source : \A e \in source[v] : <<v, e[2], "ok">> \notin log'}
      <4>1. \A v : v \in unstreamed_buckets <=>
                v \in DOMAIN source /\ \A e \in source[v] : <<v, e[2], "ok">> \notin log
        BY <2>2, Zenon DEF ReportInv
      <4>2. unstreamed_buckets' = unstreamed_buckets \ taps[server]
        BY <2>1, <2>4, Zenon
      <4>3. ASSUME NEW v
            PROVE  v \in unstreamed_buckets' <=>
                      v \in DOMAIN source /\ \A e \in source[v] : <<v, e[2], "ok">> \notin log'
        <5>1. CASE v \in taps[server]
          BY <3>1, <3>2, <4>2, <5>1, Zenon
        <5>2. CASE v \notin taps[server]
          BY <3>1, <4>1, <4>2, <5>2, Zenon
        <5> QED BY <5>1, <5>2, Zenon
      <4> QED BY <4>3, Zenon
    <3> QED
      BY <2>1, <2>2, <2>3, <3>3, Zenon DEF ReportInv, ReportIsTruthful, Finished
  <2>5. CASE ended = "failed"
    <3>1. \A v, t : <<v, t, "ok">> \in log' <=> <<v, t, "ok">> \in log
      BY <2>1, <2>5, Zenon
    <3> QED
      BY <2>1, <2>2, <2>3, <2>5, <3>1, Zenon DEF ReportInv, ReportIsTruthful, Finished
  <2> QED
    BY <2>1, <2>4, <2>5, Zenon
<1>6. CASE FinishResync
  <2>1. /\ resyncing /\ ~resyncing' /\ source' = source /\ log' = log
        /\ DOMAIN owl' = {} /\ DOMAIN taps' = {}
        /\ report' = IF unstreamed_buckets = {} THEN "ok" ELSE "failed"
    BY <1>6, Zenon DEF FinishResync, NoMap
  <2>2. report' = "ok" <=>
            \A v \in DOMAIN source : \E e \in source[v] : <<v, e[2], "ok">> \in log
    <3>1. \A v : v \in unstreamed_buckets <=>
              v \in DOMAIN source /\ \A e \in source[v] : <<v, e[2], "ok">> \notin log
      BY <2>1, Zenon DEF ReportInv
    <3>2. report' = "ok" <=> unstreamed_buckets = {}
      BY <2>1, Zenon
    <3>3. unstreamed_buckets = {} <=> \A v : v \notin unstreamed_buckets
      BY Zenon
    <3> QED BY <3>1, <3>2, <3>3, Zenon
  <2> QED
    BY <2>1, <2>2, Zenon DEF ReportInv, ReportIsTruthful
<1>7. ASSUME NEW s \in Server, NEW success \in BOOLEAN, tap_buckets_thread(s, success)
      PROVE  ReportInv'
  BY <1>7, Zenon DEF tap_buckets_thread, ReportInv, ReportIsTruthful, Finished
<1>8. CASE UNCHANGED vars
  BY <1>8, ZenonT(60) DEF vars, ReportInv, ReportIsTruthful, Finished
<1> QED
  BY <1>1, <1>2, <1>3, <1>4, <1>5, <1>6, <1>7, <1>8, Zenon DEF Next, ControlStep

LEMMA InitReportInv == Init => ReportInv
BY Zenon DEF Init, NoMap, ReportInv, ReportIsTruthful, Finished
-----------------------------------------------------------------------------
LEMMA Invariance ==
    Spec => [](TypeOK /\ RoundInv /\ TurnInv /\ BlacklistHolds /\ ReportInv)
<1>1. TypeOK /\ RoundInv /\ TurnInv /\ BlacklistHolds /\ ReportInv /\ [Next]_vars
          => (TypeOK /\ RoundInv /\ TurnInv /\ BlacklistHolds /\ ReportInv)'
  BY NextTypeOK, NextRoundInv, NextTurnInv, NextBlacklistHolds, NextReportInv, Zenon
<1> QED
  BY <1>1, InitInv, InitReportInv, PTL DEF Spec

\* Every variable of module Resync keeps its type; in particular the gauges are
\* numbers: the work list, and so the count of its entries, is finite.
THEOREM TypeCorrect == Spec => []TypeOK
BY Invariance, PTL

\* No two tap threads stream the same vbucket at the same time: the taps of a
\* round share no vbucket, and a round is joined before the next one starts.
THEOREM OneTapAtATime == Spec => []OneTapPerBucket
<1>1. TypeOK /\ RoundInv => OneTapPerBucket
  BY SMTT(60) DEF TypeOK, RoundInv, Unjoined, OneTapPerBucket, Tapping
<1> QED
  BY <1>1, Invariance, PTL

\* A server whose tap failed is not tapped again in the same resync.
THEOREM BlacklistIsKept == Spec => []BlacklistHolds
BY Invariance, PTL

\* When a resync is over, no replica of its work list has been forgotten.
THEOREM NoReplicaForgotten == Spec => []AllReplicasTried
<1>1. TurnInv => AllReplicasTried
  BY Zenon DEF TurnInv
<1> QED
  BY <1>1, Invariance, PTL

\* A resync is reported as a success exactly when every vbucket of its work
\* list was streamed from one of its replicas.
THEOREM ReportsAreTruthful == Spec => []ReportIsTruthful
<1>1. ReportInv => ReportIsTruthful
  BY Zenon DEF ReportInv
<1> QED
  BY <1>1, Invariance, PTL

\* The statistics records are deleted only once no tap thread refers to one.
THEOREM ConnStatsKept == Spec => []ConnStatsAlive
<1>1. RoundInv => ConnStatsAlive
  BY Zenon DEF RoundInv, ConnStatsAlive
<1> QED
  BY <1>1, Invariance, PTL

-----------------------------------------------------------------------------
(***************************************************************************)
(* What a resync does as seen from outside: it implements BucketResync, it *)
(* taps the replicas of a vbucket in their order, and the progress it      *)
(* shows is within bounds.                                                 *)
(***************************************************************************)

\* A vbucket gets into the work list only if it has a replica to stream from,
\* and has each server among its replicas once.
LEMMA WorklistEntries ==
    ASSUME NEW view, IsView(view), NEW full_resync
    PROVE  LET owl0 == calculate_worklist(view, full_resync)
           IN  \A v \in DOMAIN owl0 :
                  /\ owl0[v] # {}
                  /\ \A e, f \in owl0[v] : e[2] = f[2] => e = f
<1> DEFINE owl0 == calculate_worklist(view, full_resync)
<1> SUFFICES ASSUME NEW v \in DOMAIN owl0
             PROVE  owl0[v] # {} /\ \A e, f \in owl0[v] : e[2] = f[2] => e = f
  BY Zenon
<1>1. owl0[v] = source_replicas(view, full_resync, v) /\ owl0[v] # {}
  BY Zenon DEF calculate_worklist
<1>2. owl0[v] \subseteq Entries(At(view.current, v))
  BY <1>1, Zenon DEF source_replicas
<1>3. \A i, j \in DOMAIN At(view.current, v) :
          At(view.current, v)[i] = At(view.current, v)[j] => i = j
  BY DEF At, IsView, IsReplicaMap
<1>4. \A e, f \in Entries(At(view.current, v)) : e[2] = f[2] => e = f
  BY <1>3 DEF Entries
<1> QED
  BY <1>1, <1>2, <1>4, Zenon

LEMMA TodoIs ==
    \A v : v \in Todo <=> \/ v \in DOMAIN owl /\ owl[v] # {}
                         \/ \E s : (s \in to_start \/ Unjoined(s)) /\ v \in taps[s]
BY Zenon DEF Todo, Unjoined

\* The rounds of taps implement module BucketResync.
THEOREM Refinement == Spec => ImplementsBucketResync
<1>1. Init => Abstract!Init
  <2> SUFFICES ASSUME Init PROVE Abstract!Init
    BY Zenon
  <2>1. DOMAIN owl = {} /\ to_start = {} /\ \A s : ~Unjoined(s)
    BY DEF Init, NoMap, Unjoined
  <2>2. Todo = {}
    BY <2>1, TodoIs, Zenon
  <2> QED
    BY <2>2, Zenon DEF Init, Abstract!Init
<1>2. TypeOK /\ RoundInv /\ RoundInv' /\ TypeOK' /\ [Next]_vars => [Abstract!Next]_(Abstract!vars)
  <2> SUFFICES ASSUME TypeOK, RoundInv, TypeOK', RoundInv', [Next]_vars
               PROVE  Abstract!Next \/ UNCHANGED Abstract!vars
    BY Zenon
  <2> USE DEF stats, round, history
  <2>a. /\ \A v : v \in Todo <=> \/ v \in DOMAIN owl /\ owl[v] # {}
                                \/ \E s : (s \in to_start \/ Unjoined(s)) /\ v \in taps[s]
        /\ \A v : v \in Todo' <=> \/ v \in DOMAIN owl' /\ owl'[v] # {}
                                 \/ \E s : (s \in to_start' \/ Unjoined(s)') /\ v \in taps'[s]
    <3>1. \A v : v \in Todo' <=> \/ v \in DOMAIN owl' /\ owl'[v] # {}
                                \/ \E s : (s \in to_start' \/ Unjoined(s)') /\ v \in taps'[s]
      BY Zenon DEF Todo, Unjoined
    <3> QED
      BY <3>1, TodoIs, Zenon
  <2>b. ASSUME Todo' = Todo, UNCHANGED <<resyncing, alarm>> PROVE UNCHANGED Abstract!vars
    BY <2>b, Zenon DEF Abstract!vars
  <2>c. ASSUME resyncing, \A v : v \in Todo' => v \in Todo, UNCHANGED <<resyncing, alarm>>
        PROVE  Abstract!Settle \/ UNCHANGED Abstract!vars
    <3>1. CASE Todo' = Todo
      BY <2>b, <2>c, <3>1, Zenon
    <3>2. CASE Todo' # Todo
      <4>1. Todo' \in (SUBSET Todo) \ {Todo}
        BY <2>c, <3>2, Zenon
      <4> QED
        BY <2>c, <4>1, Zenon DEF Abstract!Settle
    <3> QED
      BY <3>1, <3>2, Zenon
  <2>1. ASSUME NEW view \in Views, NEW full_resync \in BOOLEAN, do_resync(view, full_resync)
        PROVE  Abstract!Begin
    <3>1. /\ ~resyncing /\ resyncing' = TRUE /\ alarm' = "set"
          /\ DOMAIN owl' # {} /\ owl' = calculate_worklist(view, full_resync)
      BY <2>1, Zenon DEF do_resync
    <3>2. to_start' = {} /\ \A s : ~Unjoined(s)'
      BY <2>1, <3>1 DEF do_resync, RoundInv, RoundOver, Unjoined
    <3>3. \A v \in DOMAIN owl' : owl'[v] # {}
      BY <3>1, WorklistEntries, ViewsAssumption, Zenon
    <3>4. Todo' = DOMAIN owl'
      BY <2>a, <3>2, <3>3, Zenon
    <3>5. Todo' \in (SUBSET VBucket) \ {{}}
      BY <3>1, <3>4, Zenon DEF TypeOK
    <3> QED
      BY <3>1, <3>5, Zenon DEF Abstract!Begin
  <2>2. CASE NextRound
    <3>1. /\ owl' = owl_after_taps(owl) /\ taps' = calculate_taps(owl)
          /\ to_start' = DOMAIN taps' /\ UNCHANGED <<resyncing, alarm, tap_handles>>
          /\ to_start = {} /\ tap_handles = <<>>
      BY <2>2, Zenon DEF NextRound, RoundOver
    <3>2. \A s : ~Unjoined(s) /\ ~Unjoined(s)'
      BY <3>1 DEF Unjoined
    <3>3. \A v : v \in Todo <=> v \in DOMAIN owl /\ owl[v] # {}
      BY <2>a, <3>1, <3>2, Zenon
    <3>4. /\ \A s \in DOMAIN taps' : \A v \in taps'[s] : v \in DOMAIN owl /\ owl[v] # {}
          /\ \A v \in DOMAIN owl : owl[v] # {} => \E s \in DOMAIN taps' : v \in taps'[s]
      <4>1. DOMAIN owl \subseteq VBucket /\ \A v \in DOMAIN owl : owl[v] \subseteq Nat \X Server
        BY Zenon DEF TypeOK
      <4>2. /\ \A s \in DOMAIN calculate_taps(owl) :
                  /\ calculate_taps(owl)[s] \subseteq DOMAIN owl
                  /\ \A v \in calculate_taps(owl)[s] : owl[v] # {}
            /\ \A v \in DOMAIN owl :
                  owl[v] # {} => /\ First(owl[v])[2] \in DOMAIN calculate_taps(owl)
                                 /\ v \in calculate_taps(owl)[First(owl[v])[2]]
        BY <4>1, TapsOfRound, Zenon
      <4> QED BY <3>1, <4>2, Zenon
    <3>5. \A v \in DOMAIN owl' : v \in DOMAIN owl /\ (owl'[v] # {} => owl[v] # {})
      BY <3>1, Zenon DEF owl_after_taps
    <3>6. \A v : v \in Todo' <=> v \in Todo
      BY <2>a, <3>1, <3>2, <3>3, <3>4, <3>5, Zenon
    <3>7. Todo' = Todo
      BY <3>6, Zenon
    <3> QED
      BY <2>b, <3>1, <3>7, Zenon
  <2>3. ASSUME NEW s \in Server, perform_single_tap(s)
        PROVE  UNCHANGED Abstract!vars
    <3>1. /\ s \in to_start /\ to_start' = to_start \ {s}
          /\ UNCHANGED <<resyncing, alarm, owl, taps>>
      BY <2>3, Zenon DEF perform_single_tap
    <3>2. \A t : Unjoined(t)' <=> Unjoined(t) \/ t = s
      BY <2>3, UnjoinedAfterStart, Zenon DEF perform_single_tap
    <3>3. \A v : v \in Todo' <=> v \in Todo
      BY <2>a, <3>1, <3>2, Zenon
    <3>4. Todo' = Todo
      BY <3>3, Zenon
    <3> QED
      BY <2>b, <3>1, <3>4, Zenon
  <2>4. ASSUME NEW s \in Server, perform_single_tap_fails(s)
        PROVE  Abstract!Settle \/ UNCHANGED Abstract!vars
    <3>1. /\ s \in to_start /\ to_start' = to_start \ {s}
          /\ UNCHANGED <<resyncing, alarm, owl, taps, tap_handles>>
      BY <2>4, Zenon DEF perform_single_tap_fails
    <3>2. resyncing /\ \A t : Unjoined(t)' <=> Unjoined(t)
      BY <3>1, Zenon DEF RoundInv, RoundOver, Unjoined
    <3>3. \A v : v \in Todo' => v \in Todo
      BY <2>a, <3>1, <3>2, Zenon
    <3> QED
      BY <2>c, <3>1, <3>2, <3>3, Zenon
  <2>5. CASE complete_single_tap
    <3>1. /\ UNCHANGED <<resyncing, alarm, taps, to_start>>
          /\ owl' \in {owl, blacklist_server(owl, Head(tap_handles))}
          /\ tap_handles # <<>> /\ tap_handles' = Tail(tap_handles)
      BY <2>5, Zenon DEF complete_single_tap
    <3>2. \A t : Unjoined(t)' => Unjoined(t)
      BY <3>1, UnjoinedAfterJoin, Zenon
    <3>3. \A v \in DOMAIN owl' : v \in DOMAIN owl /\ (owl'[v] # {} => owl[v] # {})
      BY <3>1, Zenon DEF blacklist_server
    <3>4. \A v : v \in Todo' => v \in Todo
      BY <2>a, <3>1, <3>2, <3>3, Zenon
    <3>5. resyncing
      BY <3>1, Zenon DEF RoundInv, RoundOver
    <3> QED
      BY <2>c, <3>1, <3>4, <3>5, Zenon DEF Abstract!Next
  <2>6. CASE FinishResync
    <3>1. /\ resyncing /\ resyncing' = FALSE /\ alarm' = "clear"
          /\ to_start = {} /\ tap_handles = <<>> /\ to_start' = {} /\ tap_handles' = <<>>
          /\ DOMAIN owl' = {} /\ \A v \in DOMAIN owl : owl[v] = {}
      BY <2>6, Zenon DEF FinishResync, RoundOver, owl_empty, NoMap
    <3>2. \A s : ~Unjoined(s) /\ ~Unjoined(s)'
      BY <3>1 DEF Unjoined
    <3>3. (\A v : v \notin Todo) /\ (\A v : v \notin Todo')
      BY <2>a, <3>1, <3>2, Zenon
    <3>4. Todo = {} /\ Todo' = {}
      BY <3>3, Zenon
    <3> QED
      BY <3>1, <3>4, Zenon DEF Abstract!Next, Abstract!End
  <2>7. CASE \/ UNCHANGED vars
             \/ \E s \in Server, success \in BOOLEAN : tap_buckets_thread(s, success)
    <3>1. UNCHANGED <<resyncing, alarm, owl, taps, to_start, tap_handles>>
      BY <2>7, Zenon DEF tap_buckets_thread, vars
    <3>2. Todo' = Todo
      BY <3>1 DEF Todo
    <3> QED
      BY <2>b, <3>1, <3>2, Zenon
  <2> QED
    BY <2>1, <2>2, <2>3, <2>4, <2>5, <2>6, <2>7, Zenon DEF Next, ControlStep, Abstract!Next
<1> QED
  BY <1>1, <1>2, Invariance, PTL DEF Spec, ImplementsBucketResync, Abstract!Spec
-----------------------------------------------------------------------------
\* A tap of the current round is of a replica whose predecessors in the list
\* have all been dealt with.
TurnsInv ==
    /\ \A v \in DOMAIN source : \A e, f \in source[v] : e[2] = f[2] => e = f
    /\ \A s \in DOMAIN taps : \A v \in taps[s] : \A e, f \in source[v] :
           f[2] = s /\ e[1] < f[1] => Settled(v, e[2])
    /\ InTurn

LEMMA TurnsInvariance == Spec => []TurnsInv
<1>1. Init => TurnsInv
  BY Zenon DEF Init, NoMap, TurnsInv, InTurn
<1>2. TypeOK /\ RoundInv /\ TurnInv /\ ReportInv /\ TurnsInv /\ [Next]_vars => TurnsInv'
  <2> SUFFICES ASSUME TypeOK, RoundInv, TurnInv, ReportInv, TurnsInv, [Next]_vars
               PROVE  TurnsInv'
    BY Zenon
  <2> USE DEF stats, round, history
  <2>0. ASSUME log \subseteq log', source' = source,
               \A s \in DOMAIN taps' : s \in DOMAIN taps /\ taps'[s] = taps[s],
               \A s \in Server, v \in VBucket : Tapping(v, s)' =>
                   Tapping(v, s) \/ (s \in DOMAIN taps /\ v \in taps[s]),
               \A v, s, how : <<v, s, how>> \in log' =>
                   <<v, s, how>> \in log \/ (s \in DOMAIN taps /\ v \in taps[s])
        PROVE  TurnsInv'
    <3>1. \A v, s : Settled(v, s) => Settled(v, s)'
      BY <2>0, SettledStays, Zenon
    <3>2. ASSUME NEW v \in DOMAIN source, NEW e \in source[v], NEW f \in source[v],
                 e[1] < f[1],
                 Tapping(v, f[2])' \/ (\E how \in Outcome : <<v, f[2], how>> \in log')
          PROVE  Settled(v, e[2])'
      <4>1. v \in VBucket /\ f[2] \in Server
        BY Zenon DEF TypeOK
      <4>2. \/ Tapping(v, f[2]) \/ (\E how \in Outcome : <<v, f[2], how>> \in log)
            \/ f[2] \in DOMAIN taps /\ v \in taps[f[2]]
        BY <2>0, <3>2, <4>1, Zenon
      <4>3. Settled(v, e[2])
        BY <3>2, <4>2, Zenon DEF TurnsInv, InTurn
      <4> QED
        BY <3>1, <4>3, Zenon
    <3>3. InTurn'
      BY <2>0, <3>2, Zenon DEF InTurn
    <3>4. \A s \in DOMAIN taps' : \A v \in taps'[s] : \A e, f \in source'[v] :
             f[2] = s /\ e[1] < f[1] => Settled(v, e[2])'
      BY <2>0, <3>1, Zenon DEF TurnsInv
    <3> QED
      BY <2>0, <3>3, <3>4, ZenonT(60) DEF TurnsInv
  <2>1. ASSUME NEW view \in Views, NEW full_resync \in BOOLEAN, do_resync(view, full_resync)
        PROVE  TurnsInv'
    <3>1. /\ source' = calculate_worklist(view, full_resync) /\ log' = {}
          /\ taps' = taps /\ thread' = thread /\ ~resyncing
      BY <2>1, Zenon DEF do_resync
    <3>2. \A s \in Server : thread[s].state = "none"
      BY <3>1 DEF RoundInv, RoundOver, Unjoined
    <3>3. DOMAIN taps' = {}
      BY <3>1, Zenon DEF ReportInv
    <3>4. \A v \in DOMAIN source' :
             /\ source'[v] \subseteq Nat \X Server
             /\ \A e, f \in source'[v] : e[2] = f[2] => e = f
      <4>1. IsView(view)
        BY ViewsAssumption, Zenon
      <4>2. \A v \in DOMAIN source' : source'[v] \subseteq Nat \X Server
        BY <3>1, <4>1, WorklistType, Zenon
      <4>3. \A v \in DOMAIN source' : \A e, f \in source'[v] : e[2] = f[2] => e = f
        BY <3>1, <4>1, WorklistEntries, Zenon
      <4> QED BY <4>2, <4>3, Zenon
    <3>5. InTurn'
      BY <3>1, <3>2, <3>4, Zenon DEF InTurn, Tapping
    <3> QED
      BY <3>3, <3>4, <3>5, Zenon DEF TurnsInv
  <2>2. CASE NextRound
    <3>1. /\ source' = source /\ log' = log /\ thread' = thread
          /\ taps' = calculate_taps(owl) /\ resyncing
          /\ to_start = {} /\ tap_handles = <<>>
      BY <2>2, Zenon DEF NextRound, RoundOver
    <3>2. \A v, s : Settled(v, s) => Settled(v, s)'
      BY <3>1, SettledStays, Zenon
    <3>3. ASSUME NEW s \in DOMAIN taps', NEW v \in taps'[s],
                 NEW e \in source[v], NEW f \in source[v], f[2] = s, e[1] < f[1]
          PROVE  Settled(v, e[2])
      <4>0. DOMAIN owl \subseteq VBucket /\ \A u \in DOMAIN owl : owl[u] \subseteq Nat \X Server
        BY Zenon DEF TypeOK
      <4>a. \A t \in DOMAIN calculate_taps(owl) :
               /\ calculate_taps(owl)[t] \subseteq DOMAIN owl
               /\ \A u \in calculate_taps(owl)[t] :
                      First(owl[u]) \in owl[u] /\ First(owl[u])[2] = t
        BY <4>0, TapsOfRound
      <4>1. v \in DOMAIN owl /\ First(owl[v]) \in owl[v] /\ First(owl[v])[2] = s
        BY <3>1, <3>3, <4>a, Zenon
      <4>2. v \in DOMAIN source /\ owl[v] \subseteq source[v]
        BY <4>1, Zenon DEF ReportInv
      <4>3. f = First(owl[v])
        BY <3>3, <4>1, <4>2, Zenon DEF TurnsInv
      <4>4. \A g \in owl[v] : f[1] =< g[1]
        BY <4>1, <4>3, FirstIsThere, ZenonT(60) DEF TypeOK
      <4>5. e[1] \in Nat /\ f[1] \in Nat
        BY <4>2, Zenon DEF TypeOK
      <4>6. e \notin owl[v]
        BY <3>3, <4>4, <4>5
      <4>7. \A t : ~(t \in to_start) /\ ~Unjoined(t)
        BY <3>1 DEF Unjoined
      <4> QED
        BY <3>1, <4>2, <4>6, <4>7, Zenon DEF TurnInv
    <3>4. InTurn'
      BY <3>1, <3>2, Zenon DEF TurnsInv, InTurn, Tapping
    <3> QED
      BY <3>1, <3>2, <3>3, <3>4, Zenon DEF TurnsInv
  <2>3. ASSUME NEW s \in Server, perform_single_tap(s) PROVE TurnsInv'
    <3>1. /\ s \in DOMAIN taps
          /\ thread' = [thread EXCEPT ![s] = [state |-> "running", buckets |-> taps[s],
                                              conn_stats |-> connections']]
          /\ UNCHANGED <<taps, source, log>>
      BY <2>3, Zenon DEF perform_single_tap, RoundInv
    <3>2. \A t \in Server, v \in VBucket : Tapping(v, t)' => Tapping(v, t) \/ (t = s /\ v \in taps[s])
      BY <3>1, Zenon DEF Tapping, TypeOK
    <3> QED
      BY <2>0, <3>1, <3>2, Zenon
  <2>4. ASSUME NEW s \in Server, perform_single_tap_fails(s) PROVE TurnsInv'
    <3>1. /\ s \in DOMAIN taps
          /\ log' = log \cup {<<v, s, "dropped">> : v \in taps[s]}
          /\ UNCHANGED <<taps, source, thread>>
      BY <2>4, Zenon DEF perform_single_tap_fails, RoundInv
    <3>2. \A v, t, how : <<v, t, how>> \in log' => <<v, t, how>> \in log \/ (t = s /\ v \in taps[s])
      BY <3>1, Zenon
    <3> QED
      BY <2>0, <3>1, <3>2, Zenon DEF Tapping
  <2>5. CASE complete_single_tap
    <3>0. PICK server : server = Head(tap_handles)
      BY Zenon
    <3>1. /\ log' = log \cup {<<v, server, thread[server].state>> : v \in taps[server]}
          /\ thread' = [thread EXCEPT ![server] = NoThread]
          /\ UNCHANGED <<taps, source>>
      BY <2>5, <3>0, Zenon DEF complete_single_tap
    <3>2. server \in DOMAIN taps /\ server \in Server
      BY <2>5, <3>0, UnjoinedAfterJoin, UnjoinedTap, Zenon DEF complete_single_tap
    <3>3. \A v, t, how : <<v, t, how>> \in log' => <<v, t, how>> \in log \/ (t = server /\ v \in taps[server])
      BY <3>1, Zenon
    <3>4. \A t \in Server, v \in VBucket : Tapping(v, t)' => Tapping(v, t)
      BY <3>1, <3>2, Zenon DEF Tapping, TypeOK, NoThread
    <3> QED
      BY <2>0, <3>1, <3>2, <3>3, <3>4, Zenon
  <2>6. CASE FinishResync
    <3>1. DOMAIN taps' = {} /\ UNCHANGED <<source, log, thread>>
      BY <2>6, Zenon DEF FinishResync, NoMap
    <3> QED
      BY <2>0, <3>1, Zenon DEF Tapping
  <2>7. ASSUME NEW s \in Server, NEW success \in BOOLEAN, tap_buckets_thread(s, success)
        PROVE  TurnsInv'
    <3>1. UNCHANGED <<taps, source, log>>
      BY <2>7, Zenon DEF tap_buckets_thread
    <3>2. \A t \in Server, v \in VBucket : Tapping(v, t)' => Tapping(v, t)
      BY <2>7, Zenon DEF tap_buckets_thread, Tapping, TypeOK
    <3> QED
      BY <2>0, <3>1, <3>2, Zenon
  <2>8. CASE UNCHANGED vars
    BY <2>0, <2>8, Zenon DEF vars, Tapping
  <2> QED
    BY <2>1, <2>2, <2>3, <2>4, <2>5, <2>6, <2>7, <2>8, Zenon DEF Next, ControlStep
<1> QED
  BY <1>1, <1>2, Invariance, PTL DEF Spec

\* The replicas of a vbucket are tapped in the order of its list: the head of
\* the list is tapped, and no head changes before the round is joined.
THEOREM TurnsAreKept == Spec => []InTurn
<1>1. TurnsInv => InTurn
  BY Zenon DEF TurnsInv
<1> QED
  BY <1>1, TurnsInvariance, PTL
-----------------------------------------------------------------------------
\* The vbuckets streamed, each with the server it was streamed from.
Done ==
    {p \in VBucket \X Server :
        \/ <<p[1], p[2], "ok">> \in log
        \/ thread[p[2]].state = "ok" /\ p[1] \in thread[p[2]].buckets}

Work == UNION {{v} \X source[v] : v \in DOMAIN source}

\* resynced_bucket_count counts Done, total_buckets counts Work, and what is
\* still in the work list or in a tap of the round has not been done before.
ProgressInv ==
    /\ resyncing =>
         /\ IsFiniteSet(Work) /\ total_buckets = Cardinality(Work)
         /\ resynced_bucket_count = Cardinality(Done)
         /\ \A v \in DOMAIN owl : \A e \in owl[v] : <<v, e[2], "ok">> \notin log
         /\ \A s \in DOMAIN taps : \A v \in taps[s] :
                /\ s \in to_start \/ Unjoined(s) => <<v, s, "ok">> \notin log
                /\ \A e \in owl[v] : e[2] # s
         /\ \A v, s : <<v, s, "ok">> \in log =>
                v \in DOMAIN source /\ \E e \in source[v] : e[2] = s
    /\ ~resyncing => total_buckets = 0 /\ resynced_bucket_count = 0

\* There is no more done than there is work: each entry of the work list is
\* streamed at most once.
LEMMA DoneWithinWork ==
    ASSUME TypeOK, RoundInv, ReportInv, ProgressInv, resyncing
    PROVE  IsFiniteSet(Done) /\ Cardinality(Done) =< Cardinality(Work)
<1> DEFINE pairs == {<<w[1], w[2][2]>> : w \in Work}
           f == [w \in Work |-> <<w[1], w[2][2]>>]
<1>1. IsFiniteSet(Work)
  BY Zenon DEF ProgressInv
<1>2. f \in Surjection(Work, pairs)
  BY Zenon DEF Surjection
<1>3. IsFiniteSet(pairs) /\ Cardinality(pairs) =< Cardinality(Work)
  <2> HIDE DEF pairs, f
  <2> QED
    BY <1>1, <1>2, FS_Surjection, Zenon
<1>4. ASSUME NEW p \in Done PROVE p \in pairs
  <2>1. p \in VBucket \X Server
    BY Zenon DEF Done
  <2>2. p[1] \in DOMAIN source /\ \E e \in source[p[1]] : e[2] = p[2]
    <3>1. CASE <<p[1], p[2], "ok">> \in log
      BY <3>1, Zenon DEF ProgressInv
    <3>2. CASE thread[p[2]].state = "ok" /\ p[1] \in thread[p[2]].buckets
      <4>1. thread[p[2]].buckets = taps[p[2]] /\ Unjoined(p[2])
        BY <2>1, <3>2, Zenon DEF RoundInv
      <4>2. p[2] \in DOMAIN taps
        BY <4>1, Zenon DEF RoundInv, Unjoined
      <4> QED
        BY <3>2, <4>1, <4>2, Zenon DEF ReportInv
    <3> QED
      BY <3>1, <3>2, Zenon DEF Done
  <2>3. PICK e \in source[p[1]] : e[2] = p[2]
    BY <2>2, Zenon
  <2>4. <<p[1], e>> \in Work
    BY <2>2, <2>3 DEF Work
  <2>5. <<p[1], p[2]>> \in pairs
    BY <2>3, <2>4
  <2> QED
    BY <2>1, <2>5
<1>5. IsFiniteSet(Done) /\ Cardinality(Done) =< Cardinality(pairs)
  <2> HIDE DEF pairs
  <2> QED
    BY <1>3, <1>4, FS_Subset, Zenon
<1> QED
  BY <1>1, <1>3, <1>5, FS_CardinalityType

\* The progress shown never passes its total, and both are zero when idle.
THEOREM ProgressIsBounded == Spec => []ProgressBounded
<1>1. Init => ProgressInv
  BY Zenon DEF Init, ProgressInv
<1>2. /\ TypeOK /\ RoundInv /\ TurnInv /\ ReportInv /\ TurnsInv /\ ProgressInv /\ [Next]_vars
      => ProgressInv'
  <2> SUFFICES ASSUME TypeOK, RoundInv, TurnInv, ReportInv, TurnsInv, ProgressInv, [Next]_vars
               PROVE  ProgressInv'
    BY Zenon
  <2> USE DEF stats, round, history
  <2>1. ASSUME NEW view \in Views, NEW full_resync \in BOOLEAN, do_resync(view, full_resync)
        PROVE  ProgressInv'
    <3>1. /\ source' = calculate_worklist(view, full_resync) /\ log' = {} /\ owl' = source'
          /\ taps' = taps /\ thread' = thread /\ ~resyncing /\ resyncing' = TRUE
          /\ total_buckets' = owl_total_buckets(source')
          /\ resynced_bucket_count' = resynced_bucket_count
      BY <2>1, Zenon DEF do_resync
    <3>2. \A s \in Server : thread'[s].state = "none"
      BY <3>1 DEF RoundInv, RoundOver, Unjoined
    <3>3. Done' = {}
      BY <3>1, <3>2, Zenon DEF Done
    <3>4. resynced_bucket_count' = Cardinality(Done')
      BY <3>1, <3>3, FS_EmptySet, Zenon DEF ProgressInv
    <3>5. IsFiniteSet(Work') /\ total_buckets' = Cardinality(Work')
      BY <3>1, WorklistType, ViewsAssumption DEF Work, owl_total_buckets
    <3>6. DOMAIN taps' = {}
      BY <3>1, Zenon DEF ReportInv
    <3> QED
      BY <3>1, <3>4, <3>5, <3>6, Zenon DEF ProgressInv
  <2>2. CASE NextRound
    <3>1. /\ resyncing /\ resyncing' = resyncing
          /\ owl' = owl_after_taps(owl) /\ taps' = calculate_taps(owl)
          /\ UNCHANGED <<source, log, thread, total_buckets, resynced_bucket_count>>
      BY <2>2, Zenon DEF NextRound
    <3>2. Done' = Done /\ Work' = Work
      BY <3>1, Zenon DEF Done, Work
    <3>3. \A v \in DOMAIN owl' : v \in DOMAIN owl /\ owl'[v] \subseteq owl[v]
      BY <3>1, Zenon DEF owl_after_taps
    <3>4. \A s \in DOMAIN taps' : \A v \in taps'[s] :
             v \in DOMAIN owl /\ First(owl[v]) \in owl[v] /\ First(owl[v])[2] = s
      BY <3>1, TapsOfRound, SMTT(60) DEF TypeOK
    <3>5. ASSUME NEW s \in DOMAIN taps', NEW v \in taps'[s], NEW e \in owl'[v]
          PROVE  e[2] # s
      <4>1. e \in owl[v] /\ e # First(owl[v])
        BY <3>1, <3>4, <3>5, Zenon DEF owl_after_taps
      <4>2. v \in DOMAIN source /\ owl[v] \subseteq source[v]
        BY <3>4, Zenon DEF ReportInv
      <4> QED
        BY <3>4, <4>1, <4>2, SMTT(60) DEF TurnsInv
    <3>6. ASSUME NEW s \in DOMAIN taps', NEW v \in taps'[s] PROVE <<v, s, "ok">> \notin log'
      <4>1. v \in DOMAIN owl /\ First(owl[v]) \in owl[v] /\ First(owl[v])[2] = s
        BY <3>4, <3>6, Zenon
      <4>2. <<v, First(owl[v])[2], "ok">> \notin log
        BY <3>1, <4>1, Zenon DEF ProgressInv
      <4> QED
        BY <3>1, <4>1, <4>2, Zenon
    <3>7. \A v \in DOMAIN owl' : \A e \in owl'[v] : <<v, e[2], "ok">> \notin log'
      BY <3>1, <3>3, Zenon DEF ProgressInv
    <3> QED
      BY <3>1, <3>2, <3>5, <3>6, <3>7, Zenon DEF ProgressInv
  <2>3. ASSUME NEW s \in Server, perform_single_tap(s) PROVE ProgressInv'
    <3>1. /\ s \in to_start /\ to_start' = to_start \ {s}
          /\ thread' = [thread EXCEPT ![s] = [state |-> "running", buckets |-> taps[s],
                                              conn_stats |-> connections']]
          /\ UNCHANGED <<resyncing, owl, taps, source, log, total_buckets,
                         resynced_bucket_count>>
      BY <2>3, Zenon DEF perform_single_tap
    <3>2. \A t : Unjoined(t)' <=> Unjoined(t) \/ t = s
      BY <2>3, UnjoinedAfterStart, Zenon DEF perform_single_tap
    <3>3. thread[s].state = "none"
      <4>1. ~Unjoined(s)
        BY <3>1, UnjoinedTap, Zenon
      <4> QED BY <4>1, Zenon DEF RoundInv
    <3>4. Done' = Done /\ Work' = Work
      BY <3>1, <3>3, Zenon DEF Done, Work, TypeOK
    <3> QED
      <4>1. \A t : t \in to_start' \/ Unjoined(t)' => t \in to_start \/ Unjoined(t)
        BY <3>1, <3>2, Zenon
      <4> QED BY <3>1, <3>4, <4>1, Zenon DEF ProgressInv
  <2>4. ASSUME NEW s \in Server, perform_single_tap_fails(s) PROVE ProgressInv'
    <3>1. /\ to_start' \subseteq to_start
          /\ log' = log \cup {<<v, s, "dropped">> : v \in taps[s]}
          /\ UNCHANGED <<resyncing, owl, taps, tap_handles, thread, source, total_buckets,
                         resynced_bucket_count>>
      BY <2>4, Zenon DEF perform_single_tap_fails
    <3>2. \A v, t : <<v, t, "ok">> \in log' <=> <<v, t, "ok">> \in log
      BY <3>1, Zenon
    <3>3. Done' = Done /\ Work' = Work
      BY <3>1, <3>2, Zenon DEF Done, Work
    <3>4. \A t : Unjoined(t)' <=> Unjoined(t)
      BY <3>1, Zenon DEF Unjoined
    <3> QED
      BY <3>1, <3>2, <3>3, <3>4, Zenon DEF ProgressInv
  <2>5. CASE complete_single_tap
    <3>0. PICK server : server = Head(tap_handles)
      BY Zenon
    <3> DEFINE ended == thread[server].state
    <3>1. /\ log' = log \cup {<<v, server, ended>> : v \in taps[server]}
          /\ thread' = [thread EXCEPT ![server] = NoThread]
          /\ ended \in {"ok", "failed"}
          /\ owl' = owl \/ owl' = blacklist_server(owl, server)
          /\ UNCHANGED <<resyncing, taps, to_start, source, total_buckets,
                         resynced_bucket_count>>
      BY <2>5, <3>0, Zenon DEF complete_single_tap
    <3>2. /\ \A t : Unjoined(t)' <=> Unjoined(t) /\ t # server
          /\ Unjoined(server) /\ to_start = {} /\ to_start' = {}
      BY <2>5, <3>0, UnjoinedAfterJoin, Zenon DEF complete_single_tap
    <3>3. server \in DOMAIN taps /\ server \in Server /\ resyncing
      <4>1. PICK i \in DOMAIN tap_handles : tap_handles[i] = server
        BY <3>2, Zenon DEF Unjoined
      <4>2. server \in DOMAIN taps /\ server \in Server
        BY <4>1, Zenon DEF RoundInv, TypeOK
      <4>3. tap_handles # <<>>
        BY <4>1
      <4> QED BY <4>2, <4>3, Zenon DEF RoundInv, RoundOver
    <3>4. thread[server].buckets = taps[server] /\ taps[server] \subseteq VBucket
      BY <3>1, <3>3, Zenon DEF RoundInv, TypeOK
    <3>5. \A v, t : <<v, t, "ok">> \in log' <=>
             <<v, t, "ok">> \in log \/ (v \in taps[server] /\ t = server /\ ended = "ok")
      BY <3>1, Zenon
    <3>6. Done' = Done /\ Work' = Work
      <4>1. \A t \in Server : thread'[t] = IF t = server THEN NoThread ELSE thread[t]
        BY <3>1, <3>3, Zenon DEF TypeOK
      <4>2. ASSUME NEW p \in VBucket \X Server
            PROVE  p \in Done' <=> p \in Done
        <5>1. PICK v \in VBucket, t \in Server : p = <<v, t>>
          BY <4>2
        <5>2. p[1] = v /\ p[2] = t
          BY <5>1
        <5>3. NoThread.state # "ok"
          BY DEF NoThread
        <5>4. t # server => (<<v, t, "ok">> \in log' <=> <<v, t, "ok">> \in log)
          BY <3>5
        <5>5. CASE t = server
          BY <3>4, <3>5, <4>1, <5>2, <5>3, <5>5, Zenon DEF Done
        <5>6. CASE t # server
          BY <4>1, <5>2, <5>4, <5>6, Zenon DEF Done
        <5> QED BY <5>5, <5>6, Zenon
      <4>3. Done \subseteq VBucket \X Server /\ Done' \subseteq VBucket \X Server
        BY Zenon DEF Done
      <4> QED
        BY <3>1, <4>2, <4>3, Zenon DEF Work
    <3>7. \A v \in DOMAIN owl' : v \in DOMAIN owl /\ owl'[v] \subseteq owl[v]
      BY <3>1, Zenon DEF blacklist_server
    <3>8. ASSUME NEW v \in DOMAIN owl', NEW e \in owl'[v] PROVE <<v, e[2], "ok">> \notin log'
      <4>1. v \in DOMAIN owl /\ e \in owl[v]
        BY <3>7, <3>8, Zenon
      <4>2. <<v, e[2], "ok">> \notin log
        BY <3>3, <4>1, Zenon DEF ProgressInv
      <4>3. v \in taps[server] => e[2] # server
        BY <3>3, <4>1, Zenon DEF ProgressInv
      <4> QED
        BY <3>5, <4>2, <4>3, Zenon
    <3>9. \A s \in DOMAIN taps' : \A v \in taps'[s] :
             /\ Unjoined(s)' => <<v, s, "ok">> \notin log'
             /\ \A e \in owl'[v] : e[2] # s
      <4>1. ASSUME NEW s \in DOMAIN taps, NEW v \in taps[s], Unjoined(s)'
            PROVE  <<v, s, "ok">> \notin log'
        BY <3>2, <3>3, <3>5, <4>1 DEF ProgressInv
      <4>2. ASSUME NEW s \in DOMAIN taps, NEW v \in taps[s], NEW e \in owl'[v]
            PROVE  e[2] # s
        <5>1. CASE owl' = owl
          BY <3>3, <4>2, <5>1, Zenon DEF ProgressInv
        <5>2. CASE owl' = blacklist_server(owl, server)
          <6>1. v \in DOMAIN owl
            BY <3>3, Zenon DEF ReportInv, TurnInv
          <6>2. e \in owl[v]
            BY <4>2, <5>2, <6>1, Zenon DEF blacklist_server
          <6> QED
            BY <3>3, <6>2, Zenon DEF ProgressInv
        <5> QED
          BY <3>1, <5>1, <5>2, Zenon
      <4> QED
        BY <3>1, <4>1, <4>2, Zenon
    <3>10. \A v, s : <<v, s, "ok">> \in log' =>
              v \in DOMAIN source' /\ \E e \in source'[v] : e[2] = s
      <4>1. \A v, s : <<v, s, "ok">> \in log =>
               v \in DOMAIN source /\ \E e \in source[v] : e[2] = s
        BY <3>3, Zenon DEF ProgressInv
      <4>2. \A v \in taps[server] : v \in DOMAIN source /\ \E e \in source[v] : e[2] = server
        BY <3>3, Zenon DEF ReportInv
      <4> QED BY <3>1, <3>5, <4>1, <4>2, Zenon
    <3> QED
      BY <3>1, <3>2, <3>3, <3>6, <3>8, <3>9, <3>10, Zenon DEF ProgressInv
  <2>6. CASE FinishResync
    BY <2>6, Zenon DEF FinishResync, ProgressInv
  <2>7. ASSUME NEW s \in Server, NEW success \in BOOLEAN, tap_buckets_thread(s, success)
        PROVE  ProgressInv'
    <3>1. /\ UNCHANGED <<resyncing, owl, taps, to_start, tap_handles, source, log,
                         total_buckets>>
          /\ thread[s].state = "running"
          /\ thread' = [thread EXCEPT ![s].state = IF success THEN "ok" ELSE "failed"]
          /\ resynced_bucket_count' = IF success
                THEN resynced_bucket_count + Cardinality(thread[s].buckets)
                ELSE resynced_bucket_count
      BY <2>7, Zenon DEF tap_buckets_thread
    <3>2. /\ thread[s].buckets = taps[s] /\ Unjoined(s) /\ s \in DOMAIN taps
          /\ taps[s] \subseteq VBucket /\ resyncing
      BY <3>1 DEF RoundInv, RoundOver, Unjoined, TypeOK
    <3>3. \A t \in Server : /\ t # s => thread'[t] = thread[t]
                           /\ thread'[s].buckets = taps[s]
                           /\ thread'[s].state = IF success THEN "ok" ELSE "failed"
      BY <3>1, <3>2, Zenon DEF TypeOK
    <3>4. resynced_bucket_count' = Cardinality(Done')
      <4>1. CASE ~success
        <5>1. Done' = Done
          BY <3>1, <3>3, <4>1 DEF Done
        <5> QED
          BY <3>1, <3>2, <4>1, <5>1, Zenon DEF ProgressInv
      <4>2. CASE success
        <5> DEFINE new == taps[s] \X {s}
        <5>1. Done' = Done \cup new
          <6>1. ASSUME NEW p \in VBucket \X Server
                PROVE  p \in Done' <=> p \in Done \/ p \in new
            BY <3>1, <3>3, <4>2, Zenon DEF Done
          <6>2. /\ Done \subseteq VBucket \X Server /\ Done' \subseteq VBucket \X Server
                /\ new \subseteq VBucket \X Server
            BY <3>2, Zenon DEF Done
          <6> QED
            BY <6>1, <6>2, Zenon
        <5>2. Done \cap new = {}
          BY <3>1, <3>2, Zenon DEF Done, ProgressInv
        <5>3. IsFiniteSet(taps[s]) /\ Cardinality(taps[s]) \in Nat
          BY <3>2, VBucketAssumption, FS_Subset, FS_CardinalityType, Zenon
        <5>4. IsFiniteSet(new) /\ Cardinality(new) = Cardinality(taps[s])
          <6>1. IsFiniteSet({s}) /\ Cardinality({s}) = 1
            BY FS_Singleton, Zenon
          <6>2. IsFiniteSet(new) /\ Cardinality(new) = Cardinality(taps[s]) * 1
            BY <5>3, <6>1, FS_Product, Zenon
          <6> QED
            BY <5>3, <6>2
        <5>5. IsFiniteSet(Done) /\ Cardinality(Done) \in Nat
          BY <3>2, DoneWithinWork, FS_CardinalityType, Zenon
        <5>6. Cardinality(Done') = Cardinality(Done) + Cardinality(taps[s])
          <6> HIDE DEF new
          <6>1. Cardinality(Done \cap new) = 0
            BY <5>2, FS_EmptySet, Zenon
          <6>2. Cardinality(Done \cup new)
                  = Cardinality(Done) + Cardinality(new) - Cardinality(Done \cap new)
            BY <5>4, <5>5, FS_Union, Zenon
          <6> QED
            BY <5>1, <5>3, <5>4, <5>5, <6>1, <6>2
        <5> QED
          BY <3>1, <3>2, <4>2, <5>6, Zenon DEF ProgressInv
      <4> QED
        BY <4>1, <4>2, Zenon
    <3>5. Work' = Work /\ \A t : Unjoined(t)' <=> Unjoined(t)
      BY <3>1, Zenon DEF Work, Unjoined
    <3> QED
      BY <3>1, <3>2, <3>4, <3>5, Zenon DEF ProgressInv
  <2>8. CASE UNCHANGED vars
    <3>1. Done' = Done /\ Work' = Work /\ \A t : Unjoined(t)' <=> Unjoined(t)
      BY <2>8, Zenon DEF vars, Done, Work, Unjoined
    <3> QED
      BY <2>8, <3>1, Zenon DEF vars, ProgressInv
  <2> QED
    BY <2>1, <2>2, <2>3, <2>4, <2>5, <2>6, <2>7, <2>8, Zenon DEF Next, ControlStep
<1>3. TypeOK /\ RoundInv /\ ReportInv /\ ProgressInv => ProgressBounded
  BY DoneWithinWork DEF ProgressInv, ProgressBounded
<1> QED
  BY <1>1, <1>2, <1>3, Invariance, TurnsInvariance, PTL DEF Spec
=============================================================================
