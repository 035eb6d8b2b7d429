---------------------------- MODULE BucketResync ----------------------------
(***************************************************************************)
(* What a resync promises: a set of vbuckets is taken on, each is dealt    *)
(* with, and only then is the resync over and its alarm cleared.           *)
(*                                                                         *)
(* The control thread's loop takes do_resync to be like this, which is how *)
(* module Astaire has it: StartResync, StreamBucket and FinishResync are   *)
(* Begin, Settle and End.  Module Resync has what do_resync does, with its *)
(* rounds of taps, and implements this specification.                      *)
(***************************************************************************)
CONSTANT VBucket

VARIABLES
    resyncing,  \* do_resync has a work list
    todo,       \* the vbuckets of the work list yet to be dealt with
    alarm       \* the resync-in-progress alarm, as last reported

vars == <<resyncing, todo, alarm>>

Init ==
    /\ resyncing = FALSE
    /\ todo = {}
    /\ alarm = "unknown"

Begin ==
    /\ ~resyncing
    /\ resyncing' = TRUE
    /\ todo' \in (SUBSET VBucket) \ {{}}
    /\ alarm' = "set"

\* The replicas of some vbuckets have all had their turn.
Settle ==
    /\ resyncing
    /\ todo' \in (SUBSET todo) \ {todo}
    /\ UNCHANGED <<resyncing, alarm>>

End ==
    /\ resyncing
    /\ todo = {}
    /\ resyncing' = FALSE
    /\ alarm' = "clear"
    /\ UNCHANGED todo

\* One resync after another.
Next == Begin \/ Settle \/ End

Spec == Init /\ [][Next]_vars
=============================================================================
