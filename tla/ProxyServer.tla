---------------------------- MODULE ProxyServer ----------------------------
(***************************************************************************)
(* ProxyServer and Memcached::Connection: the listening thread accepts     *)
(* connections and makes a thread for each, which takes requests off the   *)
(* byte stream and answers them one by one.                                *)
(*                                                                         *)
(* A message is its kind, the offset in its client's stream at which it    *)
(* starts and the length of its body; its opaque field is its number.      *)
(* What the backend does with a request is the module MemcachedBackend.    *)
(***************************************************************************)
EXTENDS Naturals, Sequences, FiniteSets

CONSTANTS
    Client,
    Kind,           \* the kinds of message clients send
    Hdr,            \* sizeof(MsgHdr), in units of the byte stream
    MaxBody,        \* bound: the longest body, in the same units
    MaxMessages,    \* bound: messages each client sends
    MaxFaults,      \* bound: connections lost and sends that fail
    MaxNoThread     \* bound: calls of pthread_create that fail

Answered == {"get", "store", "delete", "version"}
Closing == {"quit", "unknown", "response"}

ASSUME KindAssumption == Kind \subseteq Answered \cup Closing
ASSUME SizeAssumption ==
    /\ Hdr \in Nat \ {0} /\ MaxBody \in Nat /\ MaxMessages \in Nat
    /\ MaxFaults \in Nat /\ MaxNoThread \in Nat

VARIABLES
    server,         \* "new", "listening", "deaf" (no listening thread) or "exited"
    conn,           \* per client: where its connection is
    sent,           \* per client: the messages it has sent
    written,        \* per client: how much of its stream the network will deliver
    peer_open,      \* per client: it has not closed its end
    received,       \* per connection: how much ::recv has appended to _buffer
    consumed,       \* per connection: how much from_wire has trimmed from _buffer
    sock_open,      \* per connection: _sock # -1
    replies,        \* per client: the opaque fields of the answers sent to it
    num_active_threads,
    faults, no_thread

streams == <<sent, written, peer_open>>
buffers == <<received, consumed, replies>>
vars == <<server, conn, streams, buffers, sock_open, num_active_threads, faults, no_thread>>

Init ==
    /\ server = "new"
    /\ conn = [c \in Client |-> "none"]
    /\ sent = [c \in Client |-> <<>>]
    /\ written = [c \in Client |-> 0]
    /\ peer_open = [c \in Client |-> FALSE]
    /\ received = [c \in Client |-> 0]
    /\ consumed = [c \in Client |-> 0]
    /\ sock_open = [c \in Client |-> FALSE]
    /\ replies = [c \in Client |-> <<>>]
    /\ num_active_threads = 0
    /\ faults = 0 /\ no_thread = 0

Fault == faults < MaxFaults /\ faults' = faults + 1
NoThread == no_thread < MaxNoThread /\ no_thread' = no_thread + 1

-----------------------------------------------------------------------------
(***************************************************************************)
(* Starting: a false return ends the process (proxy_main).  pthread_create *)
(* reports a failure with a positive number, which "rc < 0" does not see.  *)
(***************************************************************************)
start ==
    /\ server = "new"
    /\ \/ server' = "listening" /\ UNCHANGED <<faults, no_thread>>
       \/ server' = "exited" /\ Fault /\ UNCHANGED no_thread
       \/ server' = "deaf" /\ NoThread /\ UNCHANGED faults
    /\ UNCHANGED <<conn, streams, buffers, sock_open, num_active_threads>>

(* The listening thread takes a connection and makes a thread for it.      *)
accept(c) ==
    /\ server = "listening" /\ conn[c] = "queued"
    /\ sock_open' = [sock_open EXCEPT ![c] = TRUE]
    /\ \/ /\ conn' = [conn EXCEPT ![c] = "created"]
          /\ UNCHANGED no_thread
       \/ /\ conn' = [conn EXCEPT ![c] = "no thread"]
          /\ NoThread
    /\ UNCHANGED <<server, streams, buffers, num_active_threads, faults>>

(* accept fails: exit(1), which closes every socket.                       *)
accept_fails ==
    /\ server = "listening"
    /\ Fault
    /\ server' = "exited"
    /\ conn' = [c \in Client |-> IF conn[c] = "none" THEN "none" ELSE "closed"]
    /\ sock_open' = [c \in Client |-> FALSE]
    /\ num_active_threads' = 0
    /\ UNCHANGED <<streams, buffers, no_thread>>

StartThread(c) ==
    /\ conn[c] = "created"
    /\ conn' = [conn EXCEPT ![c] = "serving"]
    /\ num_active_threads' = num_active_threads + 1
    /\ UNCHANGED <<server, streams, buffers, sock_open, faults, no_thread>>

-----------------------------------------------------------------------------
(***************************************************************************)
(* Connection::recv.  The message at the front of _buffer is the one that  *)
(* starts where from_wire has trimmed to; anywhere else the bytes are not  *)
(* a header, and what is read there is not a message of the client.        *)
(***************************************************************************)
Total(c) == IF sent[c] = <<>> THEN 0
            ELSE LET m == sent[c][Len(sent[c])] IN m.start + Hdr + m.body

Misread == [kind |-> "unknown", start |-> 0, body |-> 0]

FrontNumber(c) == {i \in DOMAIN sent[c] : sent[c][i].start = consumed[c]}
Front(c) == IF FrontNumber(c) = {} THEN Misread
            ELSE sent[c][CHOOSE i \in FrontNumber(c) : TRUE]
Opaque(c) == IF FrontNumber(c) = {} THEN 0 ELSE CHOOSE i \in FrontNumber(c) : TRUE

(* Mutant: the length of the body is not looked at.                        *)
is_msg_complete_header(c) == received[c] - consumed[c] >= Hdr

(* Mutant: an off-by-one in the second comparison.                         *)
is_msg_complete_more(c) == received[c] - consumed[c] > Hdr + Front(c).body

is_msg_complete(c) ==
    LET raw_length == received[c] - consumed[c]
    IN  /\ raw_length >= Hdr
        /\ raw_length >= Hdr + Front(c).body

(* Bytes come in any pieces.                                               *)
recv(c) ==
    /\ conn[c] = "serving" /\ sock_open[c]
    /\ ~is_msg_complete(c)
    /\ \E n \in received[c] + 1 .. written[c] : received' = [received EXCEPT ![c] = n]
    /\ UNCHANGED <<server, conn, streams, consumed, replies, sock_open,
                   num_active_threads, faults, no_thread>>

(* The thread leaves its loop, deletes the connection and ends.            *)
EndThread(c) ==
    /\ conn' = [conn EXCEPT ![c] = "closed"]
    /\ sock_open' = [sock_open EXCEPT ![c] = FALSE]
    /\ num_active_threads' = num_active_threads - 1

(* Mutant: a message cut off in the middle is waited for.                  *)
recv_disconnected_waits(c) ==
    /\ conn[c] = "serving"
    /\ \/ ~sock_open[c]
       \/ ~peer_open[c] /\ received[c] = written[c] /\ received[c] = consumed[c]
    /\ EndThread(c)
    /\ UNCHANGED <<server, streams, buffers, faults, no_thread>>

(* DISCONNECTED: the peer has closed, or an earlier send has failed.       *)
recv_disconnected(c) ==
    /\ conn[c] = "serving"
    /\ \/ ~sock_open[c]
       \/ ~is_msg_complete(c) /\ ~peer_open[c] /\ received[c] = written[c]
    /\ EndThread(c)
    /\ UNCHANGED <<server, streams, buffers, faults, no_thread>>

recv_error(c) ==
    /\ conn[c] = "serving" /\ sock_open[c]
    /\ ~is_msg_complete(c)
    /\ Fault
    /\ EndThread(c)
    /\ UNCHANGED <<server, streams, buffers, no_thread>>

(* Mutant: the message is left in _buffer.                                 *)
Trimmed_not(c) == consumed[c]

(* from_wire trims the message off _buffer.                                *)
Trimmed(c) == consumed[c] + Hdr + Front(c).body

(***************************************************************************)
(* A request with an answer: the answer carries its opaque field.  Whether *)
(* send worked is not looked at; if not, it has closed the socket.         *)
(***************************************************************************)
handle_request(c) ==
    /\ conn[c] = "serving" /\ sock_open[c]
    /\ is_msg_complete(c)
    /\ Front(c).kind \in Answered
    /\ consumed' = [consumed EXCEPT ![c] = Trimmed(c)]
    /\ \/ /\ replies' = [replies EXCEPT ![c] = Append(@, Opaque(c))]
          /\ UNCHANGED <<sock_open, faults>>
       \/ /\ Fault
          /\ sock_open' = [sock_open EXCEPT ![c] = FALSE]
          /\ UNCHANGED replies
    /\ UNCHANGED <<server, conn, streams, received, num_active_threads, no_thread>>

(* QUIT, an unrecognised request or a response: the connection is closed.  *)
handle_other(c) ==
    /\ conn[c] = "serving" /\ sock_open[c]
    /\ is_msg_complete(c)
    /\ Front(c).kind \in Closing
    /\ consumed' = [consumed EXCEPT ![c] = Trimmed(c)]
    /\ EndThread(c)
    /\ UNCHANGED <<server, streams, received, replies, faults, no_thread>>

-----------------------------------------------------------------------------
(***************************************************************************)
(* The clients.  One that closes may leave any part of what it has sent    *)
(* undelivered, and may send requests without waiting for answers.         *)
(***************************************************************************)
Connects(c) ==
    /\ server \in {"listening", "deaf"} /\ conn[c] = "none"
    /\ conn' = [conn EXCEPT ![c] = "queued"]
    /\ peer_open' = [peer_open EXCEPT ![c] = TRUE]
    /\ UNCHANGED <<server, sent, written, buffers, sock_open, num_active_threads,
                   faults, no_thread>>

Sends(c, kind, body) ==
    /\ peer_open[c] /\ Len(sent[c]) < MaxMessages
    /\ sent' = [sent EXCEPT ![c] = Append(@,
                    [kind |-> kind, start |-> Total(c), body |-> body])]
    /\ written' = [written EXCEPT ![c] = Total(c) + Hdr + body]
    /\ UNCHANGED <<server, conn, peer_open, buffers, sock_open, num_active_threads,
                   faults, no_thread>>

Closes(c) ==
    /\ peer_open[c]
    /\ peer_open' = [peer_open EXCEPT ![c] = FALSE]
    /\ \E n \in received[c] .. written[c] : written' = [written EXCEPT ![c] = n]
    /\ UNCHANGED <<server, conn, sent, buffers, sock_open, num_active_threads,
                   faults, no_thread>>

Serve(c) ==
    \/ StartThread(c) \/ recv(c) \/ recv_disconnected(c)
    \/ handle_request(c) \/ handle_other(c)

Next ==
    \/ start \/ accept_fails
    \/ \E c \in Client :
            \/ accept(c) \/ Serve(c) \/ recv_error(c)
            \/ Connects(c) \/ Closes(c)
            \/ \E kind \in Kind, body \in 0..MaxBody : Sends(c, kind, body)

Spec == Init /\ [][Next]_vars

(* The server's threads go on; clients and faults owe nothing.             *)
FairSpec ==
    /\ Spec
    /\ WF_vars(start)
    /\ \A c \in Client : WF_vars(accept(c)) /\ WF_vars(Serve(c))

-----------------------------------------------------------------------------
Message == [kind : Kind, start : Nat, body : 0..MaxBody]

(* The variables have the shape the classes give them.                     *)
TypeOK ==
    /\ server \in {"new", "listening", "deaf", "exited"}
    /\ conn \in [Client -> {"none", "queued", "created", "no thread", "serving", "closed"}]
    /\ sent \in [Client -> Seq(Message)]
    /\ written \in [Client -> Nat]
    /\ peer_open \in [Client -> BOOLEAN]
    /\ received \in [Client -> Nat]
    /\ consumed \in [Client -> Nat]
    /\ sock_open \in [Client -> BOOLEAN]
    /\ replies \in [Client -> Seq(Nat)]
    /\ num_active_threads \in Nat
    /\ faults \in 0..MaxFaults /\ no_thread \in 0..MaxNoThread

(***************************************************************************)
(* However the stream is cut into pieces, from_wire trims _buffer to the   *)
(* start of a message, never past what has been received.                  *)
(***************************************************************************)
FramingKept ==
    \A c \in Client :
        /\ consumed[c] <= received[c]
        /\ consumed[c] = Total(c) \/ FrontNumber(c) # {}

(***************************************************************************)
(* A client's answers are those to its first requests, each once and in    *)
(* order, and none after a message that closes the connection.             *)
(***************************************************************************)
AnswersInOrder ==
    \A c \in Client : \A i \in DOMAIN replies[c] :
        replies[c][i] = i /\ sent[c][i].kind \in Answered

(***************************************************************************)
(* A request sent on a connection that has its thread is answered, or the  *)
(* connection is closed: recv looks into _buffer before it waits for more  *)
(* bytes, so a request that came with an earlier one is not left there.    *)
(***************************************************************************)
NoClientLeftWaiting ==
    \A c \in Client : \A i \in 1..MaxMessages :
        (conn[c] \in {"created", "serving"} /\ i <= Len(sent[c]))
            ~> (Len(replies[c]) >= i \/ conn[c] = "closed" \/ ~peer_open[c])

(***************************************************************************)
(* A connection that has its thread is given up once the client has closed *)
(* its end or an answer could not be sent: whatever requests are still in  *)
(* _buffer, whole or cut off, the thread comes to a recv that says so, and *)
(* ends.  The limit on threads would otherwise be used up by clients that  *)
(* have gone.                                                              *)
(***************************************************************************)
DeadConnectionIsClosed ==
    \A c \in Client :
        (conn[c] \in {"created", "serving"} /\ (~peer_open[c] \/ ~sock_open[c]))
            ~> conn[c] = "closed"
=============================================================================
