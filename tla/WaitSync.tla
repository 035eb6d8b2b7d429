------------------------------ MODULE WaitSync ------------------------------
(***************************************************************************)
(* do_wait_sync of the init script, polling the astaire_global statistics  *)
(* that module Statistics has astaire report.  It can be run again and     *)
(* again.                                                                  *)
(***************************************************************************)
EXTENDS Statistics

CONSTANT MaxUnchanged       \* 120 in the script
ASSUME MaxUnchangedAssumption == MaxUnchanged \in Nat \ {0}

VARIABLES
    waiter,         \* "off", "waiting", or why the wait ended
    last,           \* last_bucket_need_resync, 0 while it is not set
    unchanged       \* num_cycles_unchanged

waitvars == <<waiter, last, unchanged>>
vars == <<statvars, waitvars>>

WaitInit == Init /\ waiter = "off" /\ last = 0 /\ unchanged = 0

StartWait ==
    /\ waiter # "waiting"
    /\ waiter' = "waiting"
    /\ UNCHANGED <<statvars, last, unchanged>>

End(why) == waiter' = why /\ last' = 0 /\ unchanged' = 0

(* Mutant: every cycle starts to count anew.                               *)
SameAgain_recounts ==
    /\ lvc.total = last
    /\ IF 1 >= MaxUnchanged THEN End("stuck")
       ELSE unchanged' = 1 /\ UNCHANGED <<waiter, last>>

(* The same number once more, in too many cycles or not.                   *)
SameAgain ==
    /\ lvc.total = last
    /\ IF unchanged + 1 >= MaxUnchanged THEN End("stuck")
       ELSE unchanged' = unchanged + 1 /\ UNCHANGED <<waiter, last>>

(***************************************************************************)
(* One cycle.  cw_stat fails when there is no astaire to ask.              *)
(***************************************************************************)
Poll ==
    /\ waiter = "waiting"
    /\ \/ stage = "deleted" /\ End("unable")
       \/ stage # "deleted" /\ lvc.total = 0 /\ End("finished")
       \/ stage # "deleted" /\ lvc.total # 0 /\ SameAgain
       \/ /\ stage # "deleted" /\ lvc.total \notin {0, last}
          /\ last' = lvc.total /\ unchanged' = 0
          /\ UNCHANGED waiter
    /\ UNCHANGED statvars

Next ==
    \/ StatNext /\ UNCHANGED waitvars
    \/ StartWait \/ Poll

Spec == WaitInit /\ [][Next]_vars

FairSpec == Spec /\ StatFairness /\ WF_vars(Poll)

-----------------------------------------------------------------------------
TypeOK ==
    /\ StatTypeOK
    /\ waiter \in {"off", "waiting", "finished", "stuck", "unable"}
    /\ last \in Buckets \cup {0} /\ unchanged \in 0..(MaxUnchanged - 1)

(***************************************************************************)
(* wait-sync takes no 0 for the end of a resync whose set_total_buckets    *)
(* has returned, unless the report it read was overtaken: one that was     *)
(* loaded before the resync and reported after it began.                   *)
(***************************************************************************)
FinishedIsResynced ==
    [][waiter = "waiting" /\ waiter' = "finished" /\ At("work") => overtaken]_vars

(***************************************************************************)
(* A wait ends even if the resync hangs: "the potential service impact of  *)
(* aborting the wait early is far outweighed by the impact on management   *)
(* operations of an infinite wait".                                        *)
(***************************************************************************)
WaitSyncEnds == waiter = "waiting" ~> waiter # "waiting"
=============================================================================
