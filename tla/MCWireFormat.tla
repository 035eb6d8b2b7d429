---------------------------- MODULE MCWireFormat ----------------------------
(***************************************************************************)
(* One or two frames of every kind, with bytes that tell the places of a   *)
(* word apart and keys and values of different lengths, none included.     *)
(***************************************************************************)
EXTENDS WireFormat

K1 == <<107>>
K2 == <<128, 0, 129>>
V1 == <<1, 2>>
Opaque == <<1, 2, 3, 254>>
Cas == <<1, 2, 3, 4, 250, 251, 252, 253>>
Flags == <<255, 16, 32, 48>>
Expiry == <<0, 1, 81, 128>>
Engine == <<0, 0, 128, 1, 255, 0, 0, 0>>       \* the first 8 bytes of a mutation's extras

Frame(magic, op, vb, cas, extra, key, value) ==
    [magic |-> magic, op |-> op, vb |-> vb, opaque |-> Opaque, cas |-> cas,
     extra |-> extra, key |-> key, value |-> value]

MCFrames ==
    {Frame(128, op, Zero(2), Zero(8), <<>>, K2, <<>>) : op \in {0, 4, 12}}
    \cup {Frame(128, op, <<0, 127>>, Cas, Flags \o Expiry, K1, v) :
              op \in Stores, v \in {<<>>, V1}}
    \cup {Frame(128, 65, <<0, 127>>, Zero(8), Engine \o Flags \o Expiry, k, V1) :
              k \in {K1, K2}}
    \cup {Frame(128, op, Zero(2), Zero(8), <<>>, <<>>, <<>>) : op \in {7, 11}}
    \cup {Frame(129, 0, NO_ERROR, Cas, Flags, <<>>, V1),
          Frame(129, 0, KEY_NOT_FOUND, Zero(8), <<>>, <<>>, <<78, 111>>),
          Frame(129, 1, NO_ERROR, Cas, <<>>, <<>>, <<>>),
          Frame(129, 2, <<0, 130>>, Zero(8), <<>>, <<>>, <<>>)}

\* A read that found nothing has a cas of 0 from get_from_replica; one of a vbucket
\* without replicas, a temporary failure, has an uninitialized one (proxy_server.cpp:327).
Result(status, cas, value, flags) ==
    [status |-> status, cas |-> cas, value |-> value, flags |-> flags, vbucket |-> <<0, 126>>]
MCResults == {Result(NO_ERROR, Cas, V1, <<255, 16, 31, 255>>), Result(NO_ERROR, Cas, V1, Zero(4)),
              Result(KEY_NOT_FOUND, Zero(8), <<>>, Zero(4)), Result(<<0, 134>>, Cas, <<>>, Zero(4))}
MCBucketLists == {<<>>, <<<<0, 5>>, <<0, 127>>>>}
=============================================================================
