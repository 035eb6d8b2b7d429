----------------------------- MODULE WireFormat -----------------------------
(***************************************************************************)
(* The memcached binary protocol as memcached_tap_client writes and reads  *)
(* it: the message classes, to_wire, from_wire and Connection::recv, with  *)
(* the handlers of tap_buckets_thread and of ProxyServer that turn a       *)
(* message received into the message they send.                            *)
(*                                                                         *)
(* Bytes are numbers below 256 and a string is a sequence of them.  An     *)
(* integer of w bytes is the sequence of its w digits to the base 256, the *)
(* most significant first; the host keeps it in memory the other way round *)
(* (BOOST_LITTLE_ENDIAN).                                                  *)
(*                                                                         *)
(* A frame is a message as the protocol has it; Layout gives its bytes.    *)
(* The peers, memcached and the clients of the proxy, send and expect      *)
(* frames.  A connection of the model is any of those the code has (to a   *)
(* tapped server, to the local memcached, from a client), so it may carry  *)
(* any of their frames; what each does with a frame out of place is in     *)
(* TapBuckets and ProxyServer.                                             *)
(***************************************************************************)
EXTENDS Naturals, Sequences

CONSTANTS
    Frames,         \* what the peers send
    Results,        \* what the backend or the local memcached may answer
    BucketLists,    \* the vbuckets a tap may ask for
    MaxFrames       \* bound: frames sent on a connection

(* Integers of two and of four bytes.                                      *)
Base == 256
Weight == <<Base * Base * Base, Base * Base, Base, 1>>
Digits(n, w) == [i \in 1..w |-> (n \div Weight[4 - w + i]) % Base]
Number(d) == IF Len(d) = 2 THEN Base * d[1] + d[2]
             ELSE Base * (Base * (Base * d[1] + d[2]) + d[3]) + d[4]
Zero(w) == [i \in 1..w |-> 0]
Bytes(s, first, n) == SubSeq(s, first + 1, first + n)     \* s.substr(first, n)

(* The bytes of an integer in the other order, and a list of integers of   *)
(* two bytes as the bytes of one after those of another.                   *)
Swap(v) == [i \in 1..Len(v) |-> v[(Len(v) - i) + 1]]
Join(fields) == [i \in 1..(2 * Len(fields)) |-> fields[(i + 1) \div 2][2 - (i % 2)]]

NO_ERROR == Digits(0, 2)
KEY_NOT_FOUND == Digits(1, 2)
OpCode == [GET |-> 0, SET |-> 1, ADD |-> 2, REPLACE |-> 3, DELETE |-> 4, QUIT |-> 7,
           VERSION |-> 11, GETK |-> 12, TAP_CONNECT |-> 64, TAP_MUTATE |-> 65]
Stores == {OpCode.SET, OpCode.ADD, OpCode.REPLACE}
Hdr == 24                                                   \* sizeof(MsgHdr)
Version == <<49, 46, 54>>

(* The bytes of a frame, as the protocol defines them.                     *)
Layout(f) ==
    <<f.magic, f.op>> \o Digits(Len(f.key), 2) \o <<Len(f.extra), 0>> \o f.vb
        \o Digits(Len(f.extra) + Len(f.key) + Len(f.value), 4)
        \o f.opaque \o f.cas \o f.extra \o f.key \o f.value

(***************************************************************************)
(* What the peers send is the protocol: its fields have their widths, the  *)
(* lengths fit the fields that hold them, the extras are those of the kind *)
(* of message, a GETK names a key, and every status is below 256.          *)
(***************************************************************************)
Byte == 0..(Base - 1)
Field(w) == [1..w -> Byte]
Fits(n) == n \div (Base * Base) < Base * Base               \* a uint32_t

ProtocolFrame(f) ==
    /\ f \in [magic : {128, 129}, op : Byte, vb : Field(2), opaque : Field(4),
              cas : Field(8), extra : Seq(Byte), key : Seq(Byte), value : Seq(Byte)]
    /\ Len(f.extra) < Base /\ Len(f.key) < Base * Base
    /\ Fits(Len(f.extra) + Len(f.key) + Len(f.value))
    /\ f.magic = 128 /\ f.op \in Stores => Len(f.extra) = 8
    /\ f.magic = 128 /\ f.op = OpCode.TAP_MUTATE => Len(f.extra) = 16
    /\ f.magic = 128 /\ f.op = OpCode.GETK => f.key # <<>>
    /\ f.magic = 129 /\ f.op = OpCode.GET => Len(f.extra) \in {0, 4}

ASSUME FramesAssumption == \A f \in Frames : ProtocolFrame(f)

ASSUME ResultsAssumption ==
    \A r \in Results :
        /\ r \in [status : Field(2), cas : Field(8), value : Seq(Byte), flags : Field(4),
                  vbucket : Field(2)]
        /\ r.status[1] = 0 /\ Fits(4 + Len(r.value))

ASSUME BucketsAssumption == \A buckets \in BucketLists : buckets \in Seq(Field(2))

-----------------------------------------------------------------------------
(***************************************************************************)
(* Utils.  Exchanging the digits is what htons and htonl do.               *)
(***************************************************************************)
(* Mutant: the halves of 64 bits stay where they are.                      *)
host_to_network_halves(v) ==
    IF Len(v) = 8 THEN Swap(SubSeq(v, 1, 4)) \o Swap(SubSeq(v, 5, 8)) ELSE Swap(v)

host_to_network(v) ==
    IF Len(v) = 8
    THEN LET low == Swap(SubSeq(v, 1, 4))
             high == Swap(SubSeq(v, 5, 8))
         IN  high \o low
    ELSE Swap(v)

network_to_host(v) == host_to_network(v)

write(v) == Swap(host_to_network(v))
Load(raw, first, w) == network_to_host(Swap(Bytes(raw, first, w)))

HDR_GET(raw) ==
    [magic |-> raw[1], op |-> raw[2], key_length |-> Number(Load(raw, 2, 2)),
     extra_length |-> raw[5], vb |-> Load(raw, 6, 2),
     body_length |-> Number(Load(raw, 8, 4)),
     opaque |-> Load(raw, 12, 4), cas |-> Load(raw, 16, 8)]

-----------------------------------------------------------------------------
(***************************************************************************)
(* The messages the code makes.  vb is the vbucket of a request and the    *)
(* status of a response.                                                   *)
(***************************************************************************)
Message(class, op, key, vb, opaque, cas) ==
    [class |-> class, op |-> op, key |-> key, vb |-> vb, opaque |-> opaque, cas |-> cas,
     flags |-> Zero(4), expiry |-> Zero(4), value |-> <<>>]

GetReq(key) == Message("GetReq", OpCode.GET, key, Zero(2), Zero(4), Zero(8))
DeleteReq(key) == Message("DeleteReq", OpCode.DELETE, key, Zero(2), Zero(4), Zero(8))

SetAddReplaceReq(op, key, vb, value, cas, flags, expiry) ==
    [Message("SetAddReplaceReq", op, key, vb, Zero(4), cas) EXCEPT
        !.value = value, !.flags = flags, !.expiry = expiry]

GetRsp(status, opaque, cas, value, flags, key) ==
    [Message("GetRsp", IF key = <<>> THEN OpCode.GET ELSE OpCode.GETK,
             key, status, opaque, cas) EXCEPT !.value = value, !.flags = flags]

(* The status parameter of these two is a uint8_t.                         *)
SetAddReplaceRsp(op, status, opaque) ==
    Message("SetAddReplaceRsp", op, <<>>, <<0, status[2]>>, opaque, Zero(8))
DeleteRsp(status, opaque) ==
    Message("DeleteRsp", OpCode.DELETE, <<>>, <<0, status[2]>>, opaque, Zero(8))

VersionRsp(status, opaque, version) ==
    [Message("VersionRsp", OpCode.VERSION, <<>>, status, opaque, Zero(8)) EXCEPT
        !.value = version]

(* DUMP, with LIST_BUCKETS and the list of them when there is one.         *)
TapConnectReq(buckets) ==
    [Message("TapConnectReq", OpCode.TAP_CONNECT, <<>>, Zero(2), Zero(4), Zero(8)) EXCEPT
        !.flags = Digits(IF buckets = <<>> THEN 2 ELSE 2 + 4, 4),
        !.value = IF buckets = <<>> THEN <<>>
                  ELSE write(Digits(Len(buckets), 2))
                           \o Join([i \in DOMAIN buckets |-> write(buckets[i])])]

is_request(m) == m.class \in {"GetReq", "DeleteReq", "SetAddReplaceReq", "TapConnectReq"}

(* Mutant: the expiry comes before the flags.                              *)
generate_extra_swapped(m) ==
    CASE m.class = "GetRsp" /\ m.vb = NO_ERROR -> write(m.flags)
      [] m.class = "SetAddReplaceReq" -> write(m.expiry) \o write(m.flags)
      [] m.class = "TapConnectReq" -> write(m.flags)
      [] OTHER -> <<>>

generate_extra(m) ==
    CASE m.class = "GetRsp" /\ m.vb = NO_ERROR -> write(m.flags)
      [] m.class = "SetAddReplaceReq" -> write(m.flags) \o write(m.expiry)
      [] m.class = "TapConnectReq" -> write(m.flags)
      [] OTHER -> <<>>

to_wire(m) ==
    LET extra == generate_extra(m)
        body_size == Len(extra) + Len(m.key) + Len(m.value)
    IN  <<IF is_request(m) THEN 128 ELSE 129, m.op>> \o write(Digits(Len(m.key), 2))
            \o <<Len(extra), 0>> \o write(m.vb) \o write(Digits(body_size, 4))
            \o write(m.opaque) \o write(m.cas) \o extra \o m.key \o m.value

-----------------------------------------------------------------------------
(***************************************************************************)
(* Reading.  A word of the extras that is not there is read from beyond    *)
(* the string: Unknown stands for whatever that gives.                     *)
(***************************************************************************)
Unknown == <<>>
Word(extra, i) == IF Len(extra) >= 4 * (i + 1) THEN Load(extra, 4 * i, 4) ELSE Unknown

is_msg_complete(raw) ==
    /\ Len(raw) >= Hdr
    /\ Len(raw) >= Hdr + HDR_GET(raw).body_length

(* The class from_wire makes of a message, by its magic byte and op code.  *)
Class(raw) ==
    LET op == HDR_GET(raw).op IN
    IF raw[1] = 128
    THEN CASE op = OpCode.TAP_MUTATE -> "TapMutateReq"
           [] op \in {OpCode.GET, OpCode.GETK} -> "GetReq"
           [] op \in Stores -> "SetAddReplaceReq"
           [] op = OpCode.DELETE -> "DeleteReq"
           [] op = OpCode.VERSION -> "VersionReq"
           [] OTHER -> "BaseReq"
    ELSE CASE op = OpCode.GET -> "GetRsp"
           [] op \in {OpCode.ADD, OpCode.REPLACE} -> "SetAddReplaceRsp"
           [] OTHER -> "BaseRsp"

(* Mutant: the flags and expiry of a mutation are looked for in front.     *)
FirstWord_front(class) == 0

(* Where the extras of a class have the flags, and after them the expiry.  *)
FirstWord(class) == IF class = "TapMutateReq" THEN 2 ELSE 0

HasFlags(class) == class \in {"GetRsp", "SetAddReplaceReq", "TapMutateReq"}
HasExpiry(class) == class \in {"SetAddReplaceReq", "TapMutateReq"}

(* The constructors that take a string.                                    *)
Parse(raw) ==
    LET hdr == HDR_GET(raw)
        class == Class(raw)
        extra == Bytes(raw, Hdr, hdr.extra_length)
        before == hdr.extra_length + hdr.key_length
    IN  [class |-> class, op |-> hdr.op, vb |-> hdr.vb, opaque |-> hdr.opaque,
         cas |-> hdr.cas,
         key |-> Bytes(raw, Hdr + hdr.extra_length, hdr.key_length),
         flags |-> IF HasFlags(class) THEN Word(extra, FirstWord(class)) ELSE Unknown,
         expiry |-> IF HasExpiry(class) THEN Word(extra, FirstWord(class) + 1) ELSE Unknown,
         value |-> IF HasFlags(class)
                   THEN Bytes(raw, Hdr + before, hdr.body_length - before) ELSE <<>>]

Trim(raw) == SubSeq(raw, Hdr + HDR_GET(raw).body_length + 1, Len(raw))

-----------------------------------------------------------------------------
VARIABLES
    sent,           \* the frames the peer has sent
    wire,           \* bytes on their way
    buffer,         \* Connection::_buffer
    handled,        \* how many messages recv has returned
    msg,            \* the last of them
    out,            \* the bytes sent last
    expected        \* history: the frame the protocol would have for them

vars == <<sent, wire, buffer, handled, msg, out, expected>>

NoMsg == Message("none", 0, <<>>, Zero(2), Zero(4), Zero(8))
NoFrame == [magic |-> 0, op |-> 0, vb |-> Zero(2), opaque |-> Zero(4), cas |-> Zero(8),
            extra |-> <<>>, key |-> <<>>, value |-> <<>>]

(***************************************************************************)
(* A connection that the code made begins with its request: that of a tap, *)
(* or the GET, SET or DELETE of the tag (poll_local_memcached,             *)
(* tag_local_memcached and untag_local_memcached).                         *)
(***************************************************************************)
Tag == [key |-> <<97, 115>>, vb |-> <<0, 3>>, value |-> <<49>>]

Requests ==
    {TapConnectReq(buckets) : buckets \in BucketLists}
    \cup {GetReq(Tag.key), DeleteReq(Tag.key),
          SetAddReplaceReq(OpCode.SET, Tag.key, Tag.vb, Tag.value, Zero(8), Zero(4), Zero(4))}

(* The same, as the protocol has them.                                     *)
ConnectFrame(buckets) ==
    [NoFrame EXCEPT !.magic = 128, !.op = OpCode.TAP_CONNECT,
        !.extra = Digits(IF buckets = <<>> THEN 2 ELSE 6, 4),
        !.value = IF buckets = <<>> THEN <<>>
                  ELSE Digits(Len(buckets), 2) \o Join(buckets)]

TagFrame(op) == [NoFrame EXCEPT !.magic = 128, !.op = op, !.key = Tag.key]

RequestFrame(m) ==
    CASE m.op = OpCode.SET -> [TagFrame(m.op) EXCEPT !.vb = Tag.vb, !.extra = Zero(8),
                                                     !.value = Tag.value]
      [] m.op \in {OpCode.GET, OpCode.DELETE} -> TagFrame(m.op)
      [] OTHER -> ConnectFrame(CHOOSE buckets \in BucketLists : m = TapConnectReq(buckets))

Init ==
    /\ sent = <<>> /\ wire = <<>> /\ buffer = <<>> /\ handled = 0 /\ msg = NoMsg
    /\ \E m \in Requests : out = to_wire(m) /\ expected = RequestFrame(m)

PeerSends(f) ==
    /\ Len(sent) < MaxFrames
    /\ sent' = Append(sent, f)
    /\ wire' = wire \o Layout(f)
    /\ UNCHANGED <<buffer, handled, msg, out, expected>>

(* QUIT, or a request it does not know, has the code close the connection. *)
Open == msg.class # "BaseReq"

(* ::recv gives any number of the bytes that have been sent.               *)
Receive ==
    /\ Open /\ ~is_msg_complete(buffer)
    /\ \E n \in DOMAIN wire :
            /\ buffer' = buffer \o SubSeq(wire, 1, n)
            /\ wire' = SubSeq(wire, n + 1, Len(wire))
    /\ UNCHANGED <<sent, handled, msg, out, expected>>

(***************************************************************************)
(* What is sent for a message m, given a result r.  For a client of the    *)
(* proxy r is the backend's; for a mutation it is the answer of the local  *)
(* memcached to the GET of the key, a frame that is read in its turn.      *)
(***************************************************************************)
LocalAnswer(r) ==
    Parse(Layout([NoFrame EXCEPT !.magic = 129, !.op = OpCode.GET, !.vb = r.status,
                    !.cas = r.cas, !.value = r.value,
                    !.extra = IF r.status = NO_ERROR THEN r.flags ELSE <<>>]))

(* The flags are signed timestamps; TapBuckets has what becomes of two so  *)
(* far apart that their difference overflows.                              *)
Biased(flags) == [flags EXCEPT ![1] = (@ + 128) % 256]
Earlier(a, b) ==
    \E i \in 1..4 : Biased(a)[i] < Biased(b)[i] /\ \A j \in 1..(i - 1) : a[j] = b[j]

AddOrReplace(m, local, vbucket) ==
    IF local.vb = KEY_NOT_FOUND
    THEN {SetAddReplaceReq(OpCode.ADD, m.key, vbucket, m.value, Zero(8), m.flags, m.expiry)}
    ELSE IF local.vb = NO_ERROR /\ Earlier(local.flags, m.flags)
    THEN {SetAddReplaceReq(OpCode.REPLACE, m.key, vbucket, m.value, local.cas,
                           m.flags, m.expiry)}
    ELSE {}

response_needs_key(m) == m.op = OpCode.GETK

Answers(m, r) ==
    CASE m.class = "GetReq" ->
            {GetRsp(r.status, m.opaque, r.cas, r.value, Zero(4),
                    IF response_needs_key(m) THEN m.key ELSE <<>>)}
      [] m.class = "SetAddReplaceReq" -> {SetAddReplaceRsp(m.op, r.status, m.opaque)}
      [] m.class = "DeleteReq" -> {DeleteRsp(r.status, m.opaque)}
      [] m.class = "VersionReq" -> {VersionRsp(NO_ERROR, m.opaque, Version)}
      [] m.class = "TapMutateReq" -> AddOrReplace(m, LocalAnswer(r), r.vbucket)
      [] OTHER -> {}

(* The same, as the protocol has it.                                       *)
Reference(f, r) ==
    IF f.op = OpCode.TAP_MUTATE
    THEN [NoFrame EXCEPT !.magic = 128,
            !.op = IF r.status = KEY_NOT_FOUND THEN OpCode.ADD
                   ELSE IF Earlier(r.flags, Bytes(f.extra, 8, 4)) THEN OpCode.REPLACE
                   ELSE f.op,           \* nothing is to be stored
            !.vb = r.vbucket, !.cas = IF r.status = NO_ERROR THEN r.cas ELSE Zero(8),
            !.extra = Bytes(f.extra, 8, 8), !.key = f.key, !.value = f.value]
    ELSE LET get == f.op \in {OpCode.GET, OpCode.GETK}
             version == f.op = OpCode.VERSION
         IN  [NoFrame EXCEPT !.magic = 129, !.op = f.op, !.opaque = f.opaque,
                !.vb = IF version THEN NO_ERROR ELSE r.status,
                !.cas = IF get THEN r.cas ELSE Zero(8),
                !.extra = IF get /\ r.status = NO_ERROR THEN Zero(4) ELSE <<>>,
                !.key = IF f.op = OpCode.GETK THEN f.key ELSE <<>>,
                !.value = IF get THEN r.value ELSE IF version THEN Version ELSE <<>>]

from_wire ==
    /\ is_msg_complete(buffer)
    /\ msg' = Parse(buffer)
    /\ buffer' = Trim(buffer)

(* recv returns a message and it is handled.                               *)
Handle ==
    /\ Open /\ from_wire
    /\ handled' = handled + 1
    /\ \E r \in Results :
            \/ /\ Answers(msg', r) = {}
               /\ UNCHANGED <<out, expected>>
            \/ \E m \in Answers(msg', r) :
                    out' = to_wire(m) /\ expected' = Reference(sent[handled + 1], r)
    /\ UNCHANGED <<sent, wire>>

(* The next connection, when this one is closed or has nothing left.       *)
Reconnect ==
    /\ ~Open \/ (handled = Len(sent) /\ handled > 0)
    /\ sent' = <<>> /\ handled' = 0 /\ msg' = NoMsg
    /\ wire' = <<>> /\ buffer' = <<>>
    /\ \E m \in Requests : out' = to_wire(m) /\ expected' = RequestFrame(m)

Next == (\E f \in Frames : PeerSends(f)) \/ Receive \/ Handle \/ Reconnect

Spec == Init /\ [][Next]_vars

-----------------------------------------------------------------------------
(* What of a frame the code is to see: the extras by the kind of message.  *)
FlagsOf(f) == IF f.op = OpCode.TAP_MUTATE THEN Bytes(f.extra, 8, 4)
              ELSE IF f.extra = <<>> THEN Unknown ELSE Bytes(f.extra, 0, 4)
ExpiryOf(f) == Bytes(f.extra, IF f.op = OpCode.TAP_MUTATE THEN 12 ELSE 4, 4)

(***************************************************************************)
(* Whatever pieces the bytes come in, from_wire gives the messages that    *)
(* were sent, in their order and field by field: the op code, key, opaque, *)
(* 64-bit CAS and vbucket or status of all of them, and the value, flags   *)
(* and expiry of those that are read for them.                             *)
(***************************************************************************)
DecodedAsSent ==
    handled > 0 =>
        LET f == sent[handled] IN
        /\ handled <= Len(sent)
        /\ msg.op = f.op /\ msg.key = f.key /\ msg.opaque = f.opaque
        /\ msg.cas = f.cas /\ msg.vb = f.vb
        /\ msg.class \in {"GetRsp", "SetAddReplaceReq", "TapMutateReq"} =>
                msg.value = f.value /\ msg.flags = FlagsOf(f)
        /\ msg.class \in {"SetAddReplaceReq", "TapMutateReq"} => msg.expiry = ExpiryOf(f)

(* What was sent last is a record a tap passes on.                         *)
Relayed == expected.magic = 128 /\ expected.op \in {OpCode.ADD, OpCode.REPLACE}

(***************************************************************************)
(* The requests and responses the code sends have the bytes the protocol   *)
(* gives them; a response has the op code and opaque of its request, the   *)
(* key if and only if that was a GETK, and flags if and only if a record   *)
(* was found.                                                              *)
(***************************************************************************)
SentIsProtocol == ~Relayed => out = Layout(expected)

(***************************************************************************)
(* A record passes through Astaire unchanged: the ADD or REPLACE that the  *)
(* local memcached gets for a TAP_MUTATE has its key, value, flags and     *)
(* expiry, and a REPLACE the CAS id the local memcached gave out.          *)
(***************************************************************************)
RecordKept == Relayed => out = Layout(expected)
=============================================================================
