------------------------------ MODULE MCResync ------------------------------
(***************************************************************************)
(* A cluster of four nodes and three vbuckets, in the views that matter:   *)
(* stable, growing by the local node n1, re-homing some vbuckets to it,    *)
(* and the view that has not been loaded yet.                              *)
(***************************************************************************)
EXTENDS Resync, TLC

CONSTANTS n1, n2, n3, n4, b1, b2, b3

NoReplicas == [v \in {} |-> <<>>]
Stable  == [current |-> (b1 :> <<n1, n2, n3>> @@ b2 :> <<n2, n3, n1>>
                                              @@ b3 :> <<n3, n1, n4>>),
            new |-> NoReplicas]
ScaleUp == [current |-> (b1 :> <<n2, n3, n4>> @@ b2 :> <<n3, n4, n2>>
                                              @@ b3 :> <<n2, n4>>),
            new |-> (b1 :> <<n1, n2, n3>> @@ b2 :> <<n3, n1, n4>>
                                          @@ b3 :> <<n2, n1>>)]
Rehome  == [current |-> (b1 :> <<n2, n1>> @@ b2 :> <<n2>> @@ b3 :> <<n4, n2>>),
            new |-> (b1 :> <<n3, n1>> @@ b2 :> <<n1, n3>> @@ b3 :> <<n2, n3>>)]
MCViews == {Stable, ScaleUp, Rehome, EmptyView}
=============================================================================
