------------------------------ MODULE Worklist ------------------------------
(***************************************************************************)
(* The pure functions astaire.cpp uses to plan a resync: which vbuckets    *)
(* to stream, from which replicas, and which taps to run next.             *)
(*                                                                         *)
(* A replica list (std::vector<std::string>) held in the outstanding work  *)
(* list is the set of its <<position, server>> pairs.  Erasing an entry    *)
(* removes its pair; the order of the others is still their positions'.    *)
(* This keeps "the first replica left" and needs no recursion.             *)
(***************************************************************************)
EXTENDS Integers, Sequences, FiniteSets

CONSTANTS Server,   \* the memcached nodes of the cluster, by address
          VBucket,  \* the vbuckets (0..127 in the code)
          Self      \* _self, the address of the local memcached

ASSUME SelfAssumption == Self \in Server
ASSUME VBucketAssumption == IsFiniteSet(VBucket)

\* std::map<int, ReplicaList>: only some vbuckets need have an entry.
\* MemcachedStoreView (external) never lists a server twice for a vbucket.
IsReplicaMap(map) ==
    /\ DOMAIN map \subseteq VBucket
    /\ \A v \in DOMAIN map :
           /\ map[v] \in Seq(Server)
           /\ \A i, j \in DOMAIN map[v] : map[v][i] = map[v][j] => i = j

\* What MemcachedStoreView gives astaire.cpp: the replicas before the resize
\* in progress and, while there is one, the replicas after it.
IsView(view) == IsReplicaMap(view.current) /\ IsReplicaMap(view.new)

\* A view that has never been updated knows of no replica.
EmptyView == [current |-> [v \in {} |-> <<>>], new |-> [v \in {} |-> <<>>]]

is_in_vector(vec, item) == \E i \in DOMAIN vec : vec[i] = item

\* map[v] of a std::map: the empty list when there is no entry.
At(map, v) == IF v \in DOMAIN map THEN map[v] ELSE <<>>

Entries(vec) == {<<i, vec[i]>> : i \in DOMAIN vec}

\* The entry std::find stops at when it looks for the local node.
FirstSelf(vec) ==
    {e \in Entries(vec) : /\ e[2] = Self
                          /\ \A i \in 1..(e[1] - 1) : vec[i] # Self}

\* The replicas a vbucket would be streamed from.  A full resync pretends
\* that the local node is not one of the current replicas.
source_replicas(view, full_resync, v) ==
    LET current == At(view.current, v)
    IN  IF full_resync THEN Entries(current) \ FirstSelf(current)
                       ELSE Entries(current)

\* The vbuckets the local node owns once any resize has completed.
target_replicas(view) ==
    IF DOMAIN view.new = {} THEN view.current ELSE view.new

calculate_worklist(view, full_resync) ==
    LET target == target_replicas(view)
        Needed(v) ==
          LET source == source_replicas(view, full_resync, v)
          IN  /\ is_in_vector(target[v], Self)
              /\ source # {}
              /\ \A e \in source : e[2] # Self
    IN  [v \in {u \in DOMAIN target : Needed(u)} |->
            source_replicas(view, full_resync, v)]

\* Mutant: owl.empty()
owl_empty_map(owl) == DOMAIN owl = {}

owl_empty(owl) == \A v \in DOMAIN owl : owl[v] = {}

\* Mutant: each vbucket is counted once.
owl_total_buckets_once(owl) == Cardinality(DOMAIN owl)

\* One unit per vbucket and replica it is still to be streamed from.
owl_total_buckets(owl) ==
    Cardinality(UNION {{v} \X owl[v] : v \in DOMAIN owl})

\* Mutant: replica_list.back()
First_back(entries) == CHOOSE e \in entries : \A f \in entries : f[1] =< e[1]

\* replica_list[0]
First(entries) == CHOOSE e \in entries : \A f \in entries : e[1] =< f[1]

\* The TapList calculate_taps returns: the server at the head of each
\* non-empty list, with all the vbuckets whose list it heads.
calculate_taps(owl) ==
    LET busy == {v \in DOMAIN owl : owl[v] # {}}
    IN  [s \in {First(owl[v])[2] : v \in busy} |->
            {v \in busy : First(owl[v])[2] = s}]

\* Mutant: the whole list is cleared.
owl_after_taps_clear(owl) == [v \in DOMAIN owl |-> {}]

\* What calculate_taps leaves in the work list, which it edits in place.
owl_after_taps(owl) ==
    [v \in DOMAIN owl |-> IF owl[v] = {} THEN {} ELSE owl[v] \ {First(owl[v])}]

\* Mutant: the server is erased from lists that it heads only.
blacklist_server_head(owl, server) ==
    [v \in DOMAIN owl |-> {e \in owl[v] : e[2] # server \/ e # First(owl[v])}]

blacklist_server(owl, server) ==
    [v \in DOMAIN owl |-> {e \in owl[v] : e[2] # server}]
=============================================================================
