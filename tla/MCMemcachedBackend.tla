------------------------- MODULE MCMemcachedBackend -------------------------
(***************************************************************************)
(* Views for a few servers: every key on the given lists.                  *)
(***************************************************************************)
EXTENDS MemcachedBackend, TLC

CONSTANTS a, b, c, d, t1, t2, k1, k2

On(read, write) == [read |-> [k \in Key |-> read], write |-> [k \in Key |-> write]]

Pair == {On(<<a, b>>, <<a, b>>)}            \* two replicas
Resize == {On(<<a, b, c>>, <<a, b>>)}       \* a read replica that is not written
Sole == {On(<<a>>, <<a>>)}                  \* one replica
Unconfigured == {On(<<>>, <<>>)}            \* the configuration cannot be read

\* Two replicas; the same in another order for k1, so that a list read while the
\* view changes may have one server twice; and none.
PairsOrNone ==
    {[v EXCEPT !.read[k1] = <<b, a>>, !.write[k1] = <<b, a>>] : v \in Pair}
        \cup Pair \cup Unconfigured
Swapped == Permutations(Thread)
=============================================================================
