----------------------------- MODULE MCAstaire ------------------------------
(***************************************************************************)
(* The local node n1 is first one of two nodes, is then given a vbucket by *)
(* a resize, and ends in the resized cluster.                              *)
(***************************************************************************)
EXTENDS Astaire, TLC

CONSTANTS n1, n2, n3, b1, b2

Before == b1 :> <<n1, n2>> @@ b2 :> <<n2, n3>>
After  == b1 :> <<n1, n2>> @@ b2 :> <<n3, n1>>
None   == [v \in {} |-> <<>>]

MCConfig == << [current |-> Before, new |-> None],
               [current |-> Before, new |-> After],
               [current |-> After,  new |-> None] >>
=============================================================================
