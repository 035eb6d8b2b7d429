---------------------------- MODULE MCTapBuckets ----------------------------
(***************************************************************************)
(* A tapped server with a record of the vbuckets asked for, one of another *)
(* vbucket and its own tag, and a flags field of three bits.               *)
(***************************************************************************)
EXTENDS TapBuckets

CONSTANTS k1, other, tag

\* The local node begins with neither a tag (a full resync has removed it) nor
\* records of vbuckets it does not own.
MCInit ==
    /\ Init
    /\ \A k \in Key \ (BucketKey \ TagKey) : Local(k) = None

MCFairSpec == MCInit /\ [][Next]_vars /\ Fairness
=============================================================================
