------------------------- MODULE ProxyServerProofs -------------------------
(***************************************************************************)
(* Proofs about the proxy's connections, for any number of clients and any *)
(* stream of messages, cut into any pieces.                                *)
(***************************************************************************)
EXTENDS ProxyServer, FiniteSetTheorems, TLAPS

Serving == {c \in Client : conn[c] = "serving"}

(* num_active_threads counts a finite set, so it is never decremented at 0. *)
CountInv == IsFiniteSet(Serving) /\ num_active_threads = Cardinality(Serving)

(* Typing apart from the two functions to BOOLEAN.                         *)
Flags == peer_open \in [Client -> BOOLEAN] /\ sock_open \in [Client -> BOOLEAN]
State == {"none", "queued", "created", "no thread", "serving", "closed"}
Rest ==
    /\ server \in {"new", "listening", "deaf", "exited"}
    /\ conn \in [Client -> State]
    /\ sent \in [Client -> Seq(Message)]
    /\ written \in [Client -> Nat]
    /\ received \in [Client -> Nat]
    /\ consumed \in [Client -> Nat]
    /\ replies \in [Client -> Seq(Nat)]
    /\ num_active_threads \in Nat
    /\ faults \in 0..MaxFaults /\ no_thread \in 0..MaxNoThread

Inv == Flags /\ Rest /\ CountInv

LEMMA Typed == TypeOK <=> Flags /\ Rest
BY Zenon DEF TypeOK, Flags, Rest, State

LEMMA EndType ==
    ASSUME Inv, NEW c \in Client, conn[c] = "serving", EndThread(c), UNCHANGED peer_open
    PROVE  Flags' /\ conn' \in [Client -> State] /\ num_active_threads' \in Nat /\ CountInv'
<1>1. conn' \in [Client -> State]
  BY Zenon DEF EndThread, Inv, Rest, State
<1>2. Flags'
  BY Zenon DEF EndThread, Inv, Flags
<1>3. Serving' = Serving \ {c} /\ c \in Serving
  BY Zenon DEF EndThread, Inv, Rest, Serving
<1>4. IsFiniteSet(Serving) /\ num_active_threads = Cardinality(Serving)
  BY Zenon DEF Inv, CountInv
<1>5. IsFiniteSet(Serving \ {c}) /\ Cardinality(Serving \ {c}) = Cardinality(Serving) - 1
  BY <1>3, <1>4, FS_RemoveElement, Zenon
<1>6. num_active_threads' = Cardinality(Serving \ {c}) /\ num_active_threads' \in Nat
  BY <1>4, <1>5, FS_CardinalityType, Zenon DEF EndThread
<1> QED BY <1>1, <1>2, <1>3, <1>5, <1>6, Zenon DEF CountInv

(* A step that serves the same connections keeps the count.                *)
LEMMA SameCount ==
    ASSUME Inv, num_active_threads' = num_active_threads,
           \A c \in Client : conn'[c] = "serving" <=> conn[c] = "serving"
    PROVE  CountInv'
<1>1. Serving' = Serving
  BY Zenon DEF Serving
<1> QED BY <1>1, Zenon DEF Inv, CountInv

LEMMA TotalType ==
    ASSUME Rest, NEW c \in Client
    PROVE  Total(c) \in Nat
<1>1. CASE sent[c] = <<>>
  BY <1>1, Zenon DEF Total
<1>2. CASE sent[c] # <<>>
  <2>1. sent[c] \in Seq(Message)
    BY Zenon DEF Rest
  <2>2. sent[c][Len(sent[c])] \in Message
    BY <1>2, <2>1
  <2> QED BY <1>2, <2>2, SizeAssumption DEF Total, Message
<1> QED BY <1>1, <1>2, Zenon

(* The message from_wire trims is one of the client's, or a misread one.   *)
LEMMA FrontType ==
    ASSUME Rest, NEW c \in Client
    PROVE  Front(c).body \in Nat /\ Opaque(c) \in Nat /\ Trimmed(c) \in Nat
<1>1. Front(c).body \in Nat /\ Opaque(c) \in Nat
  <2>1. CASE FrontNumber(c) = {}
    BY <2>1, Zenon DEF Front, Opaque, Misread
  <2>2. CASE FrontNumber(c) # {}
    <3>1. sent[c] \in Seq(Message)
      BY Zenon DEF Rest
    <3>2. (CHOOSE i \in FrontNumber(c) : TRUE) \in FrontNumber(c)
      BY <2>2, Zenon
    <3>3. PICK i \in DOMAIN sent[c] : Front(c) = sent[c][i] /\ Opaque(c) = i
      BY <2>2, <3>2, Zenon DEF Front, Opaque, FrontNumber
    <3>4. i \in 1..Len(sent[c])
      BY <3>1
    <3>5. sent[c][i] \in Message /\ i \in Nat
      BY <3>1, <3>4
    <3> QED BY <3>3, <3>5, SizeAssumption DEF Message
  <2> QED BY <2>1, <2>2, Zenon
<1> QED BY <1>1, SizeAssumption DEF Trimmed, Rest

LEMMA InvInit == Init => Inv
<1> SUFFICES ASSUME Init PROVE Inv
  BY Zenon
<1>1. Flags
  BY Zenon DEF Init, Flags
<1>2. sent \in [Client -> Seq(Message)] /\ replies \in [Client -> Seq(Nat)]
  <2>1. <<>> \in Seq(Message) /\ <<>> \in Seq(Nat)
    OBVIOUS
  <2> QED BY <2>1, Zenon DEF Init
<1>3. Rest
  BY <1>2, SizeAssumption DEF Init, Rest, State
<1>4. Serving = {}
  BY Zenon DEF Init, Serving
<1> QED BY <1>1, <1>3, <1>4, FS_EmptySet, Zenon DEF Inv, CountInv, Init

(* One case for each action; for each, the flags, the rest and the count.  *)
LEMMA InvStep == ASSUME Inv, [Next]_vars PROVE Inv'
<1> USE SizeAssumption
<1>0. /\ Flags /\ Rest /\ CountInv
      /\ conn \in [Client -> State]
      /\ num_active_threads \in Nat /\ faults \in 0..MaxFaults /\ no_thread \in 0..MaxNoThread
  BY Zenon DEF Inv, Rest
<1>1. CASE start
  <2>1. Flags'
    BY <1>0, <1>1, Zenon DEF start, streams, Flags
  <2>2. CountInv'
    BY <1>0, <1>1, SameCount, Zenon DEF start, Rest
  <2>3. server' \in {"listening", "exited", "deaf"}
        /\ faults' \in 0..MaxFaults /\ no_thread' \in 0..MaxNoThread
    BY <1>0, <1>1 DEF start, Fault, NoThread, Rest
  <2>4. Rest'
    BY <1>0, <1>1, <2>3, Zenon DEF start, streams, buffers, Rest
  <2> QED BY <2>1, <2>2, <2>4, Zenon DEF Inv
<1>2. CASE accept_fails
  <2>1. Flags'
    BY <1>0, <1>2, Zenon DEF accept_fails, streams, Flags
  <2>2. Serving' = {}
    BY <1>2, Zenon DEF accept_fails, Serving
  <2>3. CountInv'
    BY <1>2, <2>2, FS_EmptySet, Zenon DEF accept_fails, CountInv
  <2>4. conn' \in [Client -> State]
    BY <1>0, <1>2, Zenon DEF accept_fails, State
  <2>5. faults' \in 0..MaxFaults
    BY <1>0, <1>2 DEF accept_fails, Fault
  <2>6. Rest'
    BY <1>0, <1>2, <2>4, <2>5, Zenon DEF accept_fails, streams, buffers, Rest
  <2> QED BY <2>1, <2>3, <2>6, Zenon DEF Inv
<1>3. ASSUME NEW c \in Client, accept(c) PROVE Inv'
  <2>1. Flags'
    BY <1>0, <1>3, Zenon DEF accept, streams, Flags
  <2>2. CountInv'
    BY <1>0, <1>3, SameCount, Zenon DEF accept, Rest
  <2>3. conn' \in [Client -> State]
    <3>1. PICK st \in State : conn' = [conn EXCEPT ![c] = st]
      BY <1>3, Zenon DEF accept, State
    <3> QED BY <1>0, <3>1, Zenon
  <2>4. no_thread' \in 0..MaxNoThread
    <3>1. no_thread' = no_thread \/ NoThread
      BY <1>3, Zenon DEF accept
    <3> QED BY <1>0, <3>1 DEF NoThread
  <2>5. Rest'
    BY <1>0, <1>3, <2>3, <2>4, Zenon DEF accept, streams, buffers, Rest
  <2> QED BY <2>1, <2>2, <2>5, Zenon DEF Inv
<1>4. ASSUME NEW c \in Client, StartThread(c) PROVE Inv'
  <2>1. Flags'
    BY <1>0, <1>4, Zenon DEF StartThread, streams, Flags
  <2>2. Serving' = Serving \cup {c} /\ c \notin Serving
    BY <1>0, <1>4, Zenon DEF StartThread, Rest, Serving
  <2>3. IsFiniteSet(Serving) /\ num_active_threads = Cardinality(Serving)
    BY <1>0, Zenon DEF CountInv
  <2>4. /\ IsFiniteSet(Serving \cup {c})
        /\ Cardinality(Serving \cup {c}) = Cardinality(Serving) + 1
    BY <2>2, <2>3, FS_AddElement, Zenon
  <2>5. CountInv'
    BY <1>4, <2>2, <2>3, <2>4, Zenon DEF StartThread, CountInv
  <2>6. conn' \in [Client -> State]
    BY <1>0, <1>4, Zenon DEF StartThread, State
  <2>7. num_active_threads' \in Nat
    BY <1>0, <1>4 DEF StartThread
  <2>8. Rest'
    BY <1>0, <1>4, <2>6, <2>7, Zenon DEF StartThread, streams, buffers, Rest
  <2> QED BY <2>1, <2>5, <2>8, Zenon DEF Inv
<1>5. ASSUME NEW c \in Client, recv(c) PROVE Inv'
  <2>1. Flags'
    BY <1>0, <1>5, Zenon DEF recv, streams, Flags
  <2>2. CountInv'
    BY <1>0, <1>5, SameCount, Zenon DEF recv, Rest
  <2>3. received' \in [Client -> Nat]
    BY <1>0, <1>5 DEF recv, Rest
  <2>4. Rest'
    BY <1>0, <1>5, <2>3, Zenon DEF recv, streams, Rest
  <2> QED BY <2>1, <2>2, <2>4, Zenon DEF Inv
<1>6. ASSUME NEW c \in Client, recv_disconnected(c) PROVE Inv'
  <2>1. conn[c] = "serving" /\ EndThread(c) /\ UNCHANGED peer_open
    BY <1>6, Zenon DEF recv_disconnected, streams
  <2>2. Flags' /\ conn' \in [Client -> State] /\ num_active_threads' \in Nat /\ CountInv'
    BY <2>1, EndType, Zenon
  <2>3. Rest'
    BY <1>0, <1>6, <2>2, Zenon DEF recv_disconnected, streams, buffers, Rest
  <2> QED BY <2>2, <2>3, Zenon DEF Inv
<1>7. ASSUME NEW c \in Client, recv_error(c) PROVE Inv'
  <2>1. conn[c] = "serving" /\ EndThread(c) /\ UNCHANGED peer_open
    BY <1>7, Zenon DEF recv_error, streams
  <2>2. Flags' /\ conn' \in [Client -> State] /\ num_active_threads' \in Nat /\ CountInv'
    BY <2>1, EndType, Zenon
  <2>3. Rest'
    BY <1>0, <1>7, <2>2 DEF recv_error, Fault, streams, buffers, Rest
  <2> QED BY <2>2, <2>3, Zenon DEF Inv
<1>8. ASSUME NEW c \in Client, handle_request(c) PROVE Inv'
  <2>1. Flags'
    BY <1>0, <1>8, Zenon DEF handle_request, streams, Flags
  <2>2. CountInv'
    BY <1>0, <1>8, SameCount, Zenon DEF handle_request, Rest
  <2>3. consumed' \in [Client -> Nat]
    BY <1>0, <1>8, FrontType, Zenon DEF handle_request, Rest
  <2>4. replies' \in [Client -> Seq(Nat)]
    <3>1. Opaque(c) \in Nat /\ replies[c] \in Seq(Nat)
      BY <1>0, FrontType, Zenon DEF Rest
    <3>2. Append(replies[c], Opaque(c)) \in Seq(Nat)
      BY <3>1
    <3> QED BY <1>0, <1>8, <3>2, Zenon DEF handle_request, Rest
  <2>5. faults' \in 0..MaxFaults
    BY <1>0, <1>8, SMTT(60) DEF handle_request, Fault, Rest
  <2>6. Rest'
    BY <1>0, <1>8, <2>5, <2>3, <2>4, ZenonT(60) DEF handle_request, streams, Rest
  <2> QED BY <2>1, <2>2, <2>6, Zenon DEF Inv
<1>9. ASSUME NEW c \in Client, handle_other(c) PROVE Inv'
  <2>1. conn[c] = "serving" /\ EndThread(c) /\ UNCHANGED peer_open
    BY <1>9, Zenon DEF handle_other, streams
  <2>2. Flags' /\ conn' \in [Client -> State] /\ num_active_threads' \in Nat /\ CountInv'
    BY <2>1, EndType, Zenon
  <2>3. consumed' \in [Client -> Nat]
    BY <1>0, <1>9, FrontType, Zenon DEF handle_other, Rest
  <2>4. Rest'
    BY <1>0, <1>9, <2>2, <2>3, Zenon DEF handle_other, streams, Rest
  <2> QED BY <2>2, <2>4, Zenon DEF Inv
<1>10. ASSUME NEW c \in Client, Connects(c) PROVE Inv'
  <2>1. Flags'
    BY <1>0, <1>10, Zenon DEF Connects, Flags
  <2>2. CountInv'
    BY <1>0, <1>10, SameCount, Zenon DEF Connects, Rest
  <2>3. Rest'
    BY <1>0, <1>10, Zenon DEF Connects, buffers, Rest, State
  <2> QED BY <2>1, <2>2, <2>3, Zenon DEF Inv
<1>11. ASSUME NEW c \in Client, Closes(c) PROVE Inv'
  <2>1. Flags'
    BY <1>0, <1>11, Zenon DEF Closes, Flags
  <2>2. CountInv'
    BY <1>0, <1>11, SameCount, Zenon DEF Closes, Rest
  <2>3. written' \in [Client -> Nat]
    BY <1>0, <1>11 DEF Closes, Rest
  <2>4. Rest'
    BY <1>0, <1>11, <2>3, Zenon DEF Closes, buffers, Rest
  <2> QED BY <2>1, <2>2, <2>4, Zenon DEF Inv
<1>12. ASSUME NEW c \in Client, NEW kind \in Kind, NEW body \in 0..MaxBody,
             Sends(c, kind, body)
       PROVE Inv'
  <2>1. Flags'
    BY <1>0, <1>12, Zenon DEF Sends, Flags
  <2>2. CountInv'
    BY <1>0, <1>12, SameCount, Zenon DEF Sends, Rest
  <2>3. Total(c) \in Nat
    BY <1>0, TotalType, Zenon
  <2>4. [kind |-> kind, start |-> Total(c), body |-> body] \in Message
    BY <2>3, Zenon DEF Message
  <2>5. written' \in [Client -> Nat]
    BY <1>0, <1>12, <2>3 DEF Sends, Rest
  <2>6. sent' \in [Client -> Seq(Message)]
    <3>1. sent[c] \in Seq(Message)
      BY <1>0, Zenon DEF Rest
    <3>2. Append(sent[c], [kind |-> kind, start |-> Total(c), body |-> body]) \in Seq(Message)
      BY <3>1, <2>4
    <3> QED BY <1>0, <1>12, <3>2, Zenon DEF Sends, Rest
  <2>7. Rest'
    BY <1>0, <1>12, <2>5, <2>6, Zenon DEF Sends, buffers, Rest
  <2> QED BY <2>1, <2>2, <2>7, Zenon DEF Inv
<1>13. CASE UNCHANGED vars
  <2>1. Flags'
    BY <1>0, <1>13, Zenon DEF vars, streams, Flags
  <2>2. CountInv'
    BY <1>0, <1>13, SameCount, Zenon DEF vars, Rest
  <2>3. Rest'
    BY <1>0, <1>13, Zenon DEF vars, streams, buffers, Rest
  <2> QED BY <2>1, <2>2, <2>3, Zenon DEF Inv
<1> QED
  BY <1>1, <1>2, <1>3, <1>4, <1>5, <1>6, <1>7, <1>8, <1>9, <1>10, <1>11, <1>12, <1>13, Zenon
  DEF Next, Serve

LEMMA InvHolds == Spec => []Inv
<1>1. Inv /\ [Next]_vars => Inv'
  BY InvStep, Zenon
<1> QED BY <1>1, InvInit, PTL DEF Spec

(* The variables keep their shape; num_active_threads, a count of threads, *)
(* is not decremented below 0.                                             *)
THEOREM TypeCorrect == Spec => []TypeOK
<1>1. Inv => TypeOK
  BY Typed, Zenon DEF Inv
<1> QED BY <1>1, InvHolds, PTL

-----------------------------------------------------------------------------
(***************************************************************************)
(* The streams.  Messages lie one after the other, so that at most one     *)
(* starts at a given offset; from_wire's position is the offset of a       *)
(* message or the end of the stream, and, as long as the connection is     *)
(* usable, that of the message after the last one answered.                *)
(***************************************************************************)
End(c, i) == sent[c][i].start + Hdr + sent[c][i].body
Offset(c, n) == IF n <= Len(sent[c]) THEN sent[c][n].start ELSE Total(c)

Layout(c) ==
    /\ \A i, j \in 1..Len(sent[c]) : i < j => End(c, i) <= sent[c][j].start
    /\ \A i \in 1..Len(sent[c]) : End(c, i) = Offset(c, i + 1)
    /\ Offset(c, 1) = 0

Position(c) ==
    /\ consumed[c] <= received[c] /\ received[c] <= written[c] /\ written[c] <= Total(c)
    /\ \E n \in 1..(Len(sent[c]) + 1) : consumed[c] = Offset(c, n)

Replied(c) ==
    /\ Len(replies[c]) <= Len(sent[c])
    /\ \A i \in 1..Len(replies[c]) : replies[c][i] = i /\ sent[c][i].kind \in Answered
    /\ sock_open[c] => consumed[c] = Offset(c, Len(replies[c]) + 1)
    /\ conn[c] \in {"none", "queued"} => replies[c] = <<>> /\ consumed[c] = 0

StreamInv == \A c \in Client : Layout(c) /\ Position(c) /\ Replied(c)

LEMMA LeqTrans == \A x, y, z \in Nat : x <= y /\ y <= z => x <= z
  OBVIOUS

LEMMA MessageType ==
    ASSUME Rest, NEW c \in Client, NEW i \in 1..Len(sent[c])
    PROVE  /\ sent[c][i] \in Message
           /\ sent[c][i].start \in Nat /\ sent[c][i].body \in Nat
           /\ End(c, i) \in Nat /\ sent[c][i].start < End(c, i)
<1>1. sent[c] \in Seq(Message)
  BY Zenon DEF Rest
<1>2. sent[c][i] \in Message
  BY <1>1
<1>3. sent[c][i].start \in Nat /\ sent[c][i].body \in Nat
  BY <1>2, SizeAssumption DEF Message
<1>5. Hdr \in Nat /\ Hdr # 0
  BY SizeAssumption, Zenon
<1>6. End(c, i) = sent[c][i].start + Hdr + sent[c][i].body
  BY Zenon DEF End
<1>7. End(c, i) \in Nat /\ sent[c][i].start < End(c, i)
  <2> DEFINE s == sent[c][i].start
             b == sent[c][i].body
  <2>1. s \in Nat /\ b \in Nat
    BY <1>3, Zenon
  <2> HIDE DEF s, b
  <2>2. s + Hdr + b \in Nat /\ s < s + Hdr + b
    BY <1>5, <2>1
  <2> QED BY <1>6, <2>2, Zenon DEF s, b
<1> QED BY <1>2, <1>3, <1>7

(* Every message ends within the stream.                                   *)
LEMMA WithinTotal ==
    ASSUME Rest, NEW c \in Client, Layout(c), NEW i \in 1..Len(sent[c])
    PROVE  End(c, i) <= Total(c)
<1>0. sent[c] \in Seq(Message) /\ Len(sent[c]) \in Nat
  BY DEF Rest
<1>1. sent[c] # <<>>
  BY <1>0
<1>2. Total(c) = End(c, Len(sent[c]))
  BY <1>1, Zenon DEF Total, End
<1>3. CASE i = Len(sent[c])
  BY <1>2, <1>3, MessageType
<1>4. CASE i < Len(sent[c])
  <2>1. Len(sent[c]) \in 1..Len(sent[c])
    BY <1>0, <1>4
  <2>2. End(c, i) <= sent[c][Len(sent[c])].start
    BY <1>4, <2>1, Zenon DEF Layout
  <2>3. sent[c][Len(sent[c])].start < End(c, Len(sent[c]))
    BY <2>1, MessageType, Zenon
  <2>4. End(c, i) \in Nat /\ End(c, Len(sent[c])) \in Nat /\ sent[c][Len(sent[c])].start \in Nat
    BY <2>1, MessageType, Zenon
  <2> QED BY <1>2, <2>2, <2>3, <2>4
<1> QED BY <1>0, <1>3, <1>4

(***************************************************************************)
(* A complete message at the front of _buffer is a message of the client,  *)
(* and trimming it leads to the next one.                                  *)
(***************************************************************************)
LEMMA FrontIsMessage ==
    ASSUME Rest, NEW c \in Client, Layout(c), Position(c), is_msg_complete(c)
    PROVE  \E n \in 1..Len(sent[c]) :
              /\ consumed[c] = sent[c][n].start /\ FrontNumber(c) = {n}
              /\ Front(c) = sent[c][n] /\ Opaque(c) = n
              /\ Trimmed(c) = Offset(c, n + 1) /\ Trimmed(c) <= received[c]
<1>0. /\ sent[c] \in Seq(Message) /\ Len(sent[c]) \in Nat /\ DOMAIN sent[c] = 1..Len(sent[c])
      /\ consumed[c] \in Nat /\ received[c] \in Nat /\ written[c] \in Nat
  BY DEF Rest
<1>1. Total(c) \in Nat
  BY TotalType, Zenon
<1>2. consumed[c] # Total(c)
  BY <1>0, <1>1, SizeAssumption, SMTT(60) DEF Position, is_msg_complete
<1>3. PICK n \in 1..(Len(sent[c]) + 1) : consumed[c] = Offset(c, n)
  BY Zenon DEF Position
<1>4. n \in 1..Len(sent[c]) /\ consumed[c] = sent[c][n].start
  BY <1>0, <1>2, <1>3 DEF Offset
<1>5. ASSUME NEW i \in 1..Len(sent[c]), sent[c][i].start = consumed[c] PROVE i = n
  <2>1. /\ sent[c][i].start < End(c, i) /\ sent[c][n].start < End(c, n)
        /\ sent[c][i].start \in Nat /\ sent[c][n].start \in Nat
        /\ End(c, i) \in Nat /\ End(c, n) \in Nat
    BY <1>4, MessageType, Zenon
  <2>2. ~(i < n) /\ ~(n < i)
    BY <1>4, <1>5, <2>1, SMTT(60) DEF Layout
  <2> QED BY <1>0, <1>4, <2>2
<1>6. FrontNumber(c) = {n}
  BY <1>0, <1>4, <1>5, Zenon DEF FrontNumber
<1>7. (CHOOSE i \in FrontNumber(c) : TRUE) = n
  BY <1>6, Zenon
<1>8. Front(c) = sent[c][n] /\ Opaque(c) = n
  BY <1>6, <1>7, Zenon DEF Front, Opaque
<1>9. Trimmed(c) = End(c, n) /\ End(c, n) = Offset(c, n + 1)
  BY <1>4, <1>8, Zenon DEF Trimmed, End, Layout
<1>10. Trimmed(c) <= received[c]
  <2>1. Front(c).body \in Nat
    BY <1>4, <1>8, MessageType, Zenon
  <2>2. Hdr \in Nat /\ received[c] - consumed[c] >= Hdr + Front(c).body
    BY SizeAssumption, Zenon DEF is_msg_complete
  <2>3. \A a, b, h, d \in Nat : a - b >= h + d => b + h + d <= a
    OBVIOUS
  <2> QED BY <1>0, <2>1, <2>2, <2>3, Zenon DEF Trimmed
<1> QED BY <1>4, <1>6, <1>8, <1>9, <1>10, Zenon

(* What the messages of d have to do with each other depends on sent only. *)
LEMMA SameStream ==
    ASSUME NEW d \in Client, sent'[d] = sent[d]
    PROVE  /\ Layout(d) => Layout(d)'
           /\ Total(d)' = Total(d)
           /\ \A n \in Nat : Offset(d, n)' = Offset(d, n)
<1>1. Total(d)' = Total(d)
  BY Zenon DEF Total
<1>2. \A n : Offset(d, n)' = Offset(d, n)
  BY <1>1, Zenon DEF Offset
<1>3. \A i : End(d, i)' = End(d, i)
  BY Zenon DEF End
<1> QED BY <1>1, <1>2, <1>3, Zenon DEF Layout

(* The position of d stays good while bytes only arrive or are cut off.    *)
LEMMA SamePosition ==
    ASSUME NEW d \in Client, sent'[d] = sent[d], consumed'[d] = consumed[d],
           Len(sent[d]) \in Nat, Position(d),
           consumed[d] <= received'[d], received'[d] <= written'[d], written'[d] <= Total(d)
    PROVE  Position(d)'
<1>1. /\ Total(d)' = Total(d)
      /\ \A n \in Nat : Offset(d, n)' = Offset(d, n)
  BY SameStream, Zenon
<1>2. PICK n \in 1..(Len(sent[d]) + 1) : consumed[d] = Offset(d, n)
  BY Zenon DEF Position
<1>3. n \in Nat /\ n \in 1..(Len(sent'[d]) + 1)
  BY <1>2
<1>4. consumed'[d] = Offset(d, n)'
  BY <1>1, <1>2, <1>3, Zenon
<1>5. consumed'[d] <= received'[d] /\ received'[d] <= written'[d] /\ written'[d] <= Total(d)'
  BY <1>1, Zenon
<1> QED BY <1>3, <1>4, <1>5, Zenon DEF Position

(***************************************************************************)
(* A step that at most closes the socket of d, or moves its connection on. *)
(***************************************************************************)
StreamKept(d) ==
    /\ sent'[d] = sent[d] /\ consumed'[d] = consumed[d] /\ replies'[d] = replies[d]
    /\ sock_open'[d] => sock_open[d]
    /\ conn'[d] \in {"none", "queued"} => conn[d] \in {"none", "queued"}

Kept(d) == StreamKept(d) /\ received'[d] = received[d] /\ written'[d] = written[d]

(* Bytes that only arrive, or are cut off, leave the stream as it was.     *)
LEMMA StreamKeptInv ==
    ASSUME NEW d \in Client, Layout(d), Position(d), Replied(d), StreamKept(d),
           Len(sent[d]) \in Nat, Len(replies[d]) \in Nat,
           consumed[d] <= received'[d], received'[d] <= written'[d], written'[d] <= Total(d)
    PROVE  Layout(d)' /\ Position(d)' /\ Replied(d)'
<1>1. Layout(d)' /\ \A n \in Nat : Offset(d, n)' = Offset(d, n)
  BY SameStream, Zenon DEF StreamKept
<1>2. Position(d)'
  BY SamePosition, Zenon DEF StreamKept
<1>3. Offset(d, Len(replies[d]) + 1)' = Offset(d, Len(replies[d]) + 1)
  <2>1. Len(replies[d]) + 1 \in Nat /\ (Len(replies[d]) + 1)' = Len(replies[d]) + 1
    BY DEF StreamKept
  <2> QED BY <1>1, <2>1, ZenonT(60) DEF Offset
<1>4. (sock_open[d] => consumed[d] = Offset(d, Len(replies[d]) + 1))'
  BY <1>3, Zenon DEF Replied, StreamKept
<1>5. (conn[d] \in {"none", "queued"} => replies[d] = <<>> /\ consumed[d] = 0)'
  BY Zenon DEF Replied, StreamKept
<1>6. /\ Len(replies'[d]) <= Len(sent'[d])
      /\ \A i \in 1..Len(replies'[d]) : replies'[d][i] = i /\ sent'[d][i].kind \in Answered
  BY Zenon DEF Replied, StreamKept
<1> QED BY <1>1, <1>2, <1>4, <1>5, <1>6, Zenon DEF Replied

LEMMA KeptInv ==
    ASSUME Rest, NEW d \in Client, Layout(d), Position(d), Replied(d), Kept(d)
    PROVE  Layout(d)' /\ Position(d)' /\ Replied(d)'
<1>1. Len(sent[d]) \in Nat /\ Len(replies[d]) \in Nat
  BY DEF Rest
<1>2. consumed[d] <= received'[d] /\ received'[d] <= written'[d] /\ written'[d] <= Total(d)
  BY Zenon DEF Position, Kept
<1> QED BY <1>1, <1>2, StreamKeptInv, Zenon DEF Kept

(* Taking a message off _buffer, with its answer or without one.           *)
LEMMA TrimInv ==
    ASSUME Rest, NEW c \in Client, Layout(c), Position(c), Replied(c), is_msg_complete(c),
           sock_open[c], conn[c] = "serving",
           consumed'[c] = Trimmed(c),
           UNCHANGED <<sent[c], received[c], written[c]>>,
           conn'[c] \in {"serving", "closed"},
           \/ ~sock_open'[c] /\ replies'[c] = replies[c]
           \/ replies'[c] = Append(replies[c], Opaque(c)) /\ Front(c).kind \in Answered
    PROVE  Layout(c)' /\ Position(c)' /\ Replied(c)'
<1>1. /\ Layout(c)' /\ Total(c)' = Total(c)
      /\ \A n \in Nat : Offset(c, n)' = Offset(c, n)
  BY SameStream, Zenon
<1>2. PICK n \in 1..Len(sent[c]) :
        /\ consumed[c] = sent[c][n].start /\ FrontNumber(c) = {n}
        /\ Front(c) = sent[c][n] /\ Opaque(c) = n
        /\ Trimmed(c) = Offset(c, n + 1) /\ Trimmed(c) <= received[c]
  BY FrontIsMessage, Zenon
<1>3. /\ sent[c] \in Seq(Message) /\ Len(sent[c]) \in Nat /\ DOMAIN sent[c] = 1..Len(sent[c])
      /\ replies[c] \in Seq(Nat) /\ Len(replies[c]) \in Nat
      /\ consumed[c] \in Nat /\ received[c] \in Nat /\ written[c] \in Nat
  BY DEF Rest
<1>4. Position(c)'
  <2>1. n + 1 \in 1..(Len(sent'[c]) + 1) /\ n + 1 \in Nat
    BY <1>3, SMTT(60)
  <2>2. consumed'[c] = Offset(c, n + 1)'
    BY <1>1, <1>2, <2>1, Zenon
  <2> QED BY <1>1, <1>2, <2>1, <2>2, Zenon DEF Position
<1>5. n = Len(replies[c]) + 1
  <2>1. consumed[c] = Offset(c, Len(replies[c]) + 1)
    BY Zenon DEF Replied
  <2>2. CASE Len(replies[c]) + 1 <= Len(sent[c])
    <3>1. Len(replies[c]) + 1 \in FrontNumber(c)
      BY <1>3, <2>1, <2>2 DEF Offset, FrontNumber
    <3> QED BY <1>2, <3>1, Zenon
  <2>3. CASE ~(Len(replies[c]) + 1 <= Len(sent[c]))
    <3>1. consumed[c] = Total(c)
      BY <2>1, <2>3, Zenon DEF Offset
    <3>2. End(c, n) <= Total(c) /\ consumed[c] < End(c, n) /\ End(c, n) \in Nat
      BY <1>2, WithinTotal, MessageType, Zenon
    <3> QED BY <1>3, <3>1, <3>2
  <2> QED BY <2>2, <2>3, Zenon
<1>6. CASE ~sock_open'[c] /\ replies'[c] = replies[c]
  <2>1. /\ Len(replies'[c]) <= Len(sent'[c])
        /\ \A i \in 1..Len(replies'[c]) : replies'[c][i] = i /\ sent'[c][i].kind \in Answered
    BY <1>6, Zenon DEF Replied
  <2> QED BY <1>1, <1>4, <1>6, <2>1, Zenon DEF Replied
<1>7. CASE replies'[c] = Append(replies[c], Opaque(c)) /\ Front(c).kind \in Answered
  <2>0. n \in Nat /\ n <= Len(sent[c]) /\ Opaque(c) \in Nat
    BY <1>2, <1>3, SMTT(60)
  <2>1. /\ Len(replies'[c]) = n /\ replies'[c][n] = n
        /\ \A i \in 1..Len(replies[c]) : replies'[c][i] = replies[c][i]
    BY <1>2, <1>3, <1>5, <1>7, <2>0, SMTT(60)
  <2>2. /\ Len(replies'[c]) <= Len(sent'[c])
        /\ \A i \in 1..Len(replies'[c]) : replies'[c][i] = i /\ sent'[c][i].kind \in Answered
    <3>1. Len(replies'[c]) <= Len(sent'[c])
      BY <2>0, <2>1, Zenon
    <3>2. ASSUME NEW i \in 1..Len(replies'[c])
          PROVE  replies'[c][i] = i /\ sent'[c][i].kind \in Answered
      <4>1. i = n \/ i \in 1..Len(replies[c])
        BY <1>3, <1>5, <2>0, <2>1, <3>2, SMTT(60)
      <4>2. CASE i = n
        BY <1>2, <1>7, <2>1, <4>2, Zenon
      <4>3. CASE i \in 1..Len(replies[c])
        BY <2>1, <4>3, Zenon DEF Replied
      <4> QED BY <4>1, <4>2, <4>3, Zenon
    <3> QED BY <3>1, <3>2, Zenon
  <2>3. consumed'[c] = Offset(c, Len(replies[c]) + 1)'
    <3>1. n + 1 \in Nat /\ (Len(replies[c]) + 1)' = n + 1
      BY <2>0, <2>1
    <3>2. Offset(c, n + 1)' = Offset(c, n + 1)
      BY <1>1, <3>1, Zenon
    <3>3. Offset(c, Len(replies[c]) + 1)' = Offset(c, n + 1)'
      BY <3>1, Zenon DEF Offset
    <3> QED BY <1>2, <3>2, <3>3, Zenon
  <2>4. conn'[c] \notin {"none", "queued"}
    BY Zenon
  <2> QED BY <1>1, <1>4, <2>2, <2>3, <2>4, Zenon DEF Replied
<1> QED BY <1>6, <1>7, Zenon

(* A client's next message goes to the end of its stream.                  *)
LEMMA SendInv ==
    ASSUME Rest, NEW c \in Client, Layout(c), Position(c), Replied(c),
           NEW m \in Message, m.start = Total(c),
           sent'[c] = Append(sent[c], m), written'[c] = Total(c) + Hdr + m.body,
           UNCHANGED <<received[c], consumed[c], replies[c], sock_open[c], conn[c]>>
    PROVE  Layout(c)' /\ Position(c)' /\ Replied(c)'
<1>0. sent[c] \in Seq(Message) /\ replies[c] \in Seq(Nat)
  BY Zenon DEF Rest
<1>a. Len(sent[c]) \in Nat /\ Len(replies[c]) \in Nat
  BY <1>0
<1>b. consumed[c] \in Nat /\ received[c] \in Nat /\ written[c] \in Nat
  BY Zenon DEF Rest
<1>c. m.start \in Nat /\ m.body \in Nat /\ Total(c) \in Nat /\ Hdr \in Nat /\ Hdr # 0
  BY TotalType, SizeAssumption DEF Message
<1>1. /\ Len(sent'[c]) = Len(sent[c]) + 1 /\ sent'[c][Len(sent[c]) + 1] = m
      /\ \A i \in 1..Len(sent[c]) : sent'[c][i] = sent[c][i]
  BY <1>0, SMTT(60)
<1>2. Total(c)' = Total(c) + Hdr + m.body
  <2>1. ASSUME sent'[c] = <<>> PROVE FALSE
    <3>1. Len(sent'[c]) = 0
      BY <2>1
    <3> QED BY <1>a, <1>1, <3>1
  <2> QED BY <1>a, <1>c, <1>1, <2>1, Zenon DEF Total
<1>3. \A n \in 1..(Len(sent[c]) + 1) : Offset(c, n)' = Offset(c, n)
  <2> TAKE n \in 1..(Len(sent[c]) + 1)
  <2>1. CASE n <= Len(sent[c])
    BY <1>a, <1>1, <2>1 DEF Offset
  <2>2. CASE n = Len(sent[c]) + 1
    BY <1>a, <1>1, <2>2, SMTT(60) DEF Offset
  <2> QED BY <1>a, <2>1, <2>2, SMTT(60)
<1>4. \A n \in Nat : n > Len(sent'[c]) => Offset(c, n)' = Total(c)'
  BY <1>a, <1>1 DEF Offset
<1>5. \A i \in 1..Len(sent[c]) : End(c, i)' = End(c, i) /\ End(c, i) \in Nat /\ End(c, i) <= Total(c)
  <2> TAKE i \in 1..Len(sent[c])
  <2>1. End(c, i)' = End(c, i)
    BY <1>1, Zenon DEF End
  <2>2. End(c, i) \in Nat /\ End(c, i) <= Total(c)
    BY MessageType, WithinTotal, Zenon
  <2> QED BY <2>1, <2>2, Zenon
<1>6. Layout(c)'
  <2>1. ASSUME NEW i \in 1..Len(sent'[c]), NEW j \in 1..Len(sent'[c]), i < j
        PROVE  End(c, i)' <= sent'[c][j].start
    <3>1. i \in 1..Len(sent[c])
      BY <1>a, <1>1, <2>1
    <3>2. CASE j \in 1..Len(sent[c])
      BY <1>1, <1>5, <2>1, <3>1, <3>2, Zenon DEF Layout
    <3>3. CASE j = Len(sent[c]) + 1
      BY <1>1, <1>5, <3>1, <3>3, Zenon
    <3> QED BY <1>a, <1>1, <3>2, <3>3, SMTT(60)
  <2>2. ASSUME NEW i \in 1..Len(sent'[c]) PROVE End(c, i)' = Offset(c, i + 1)'
    <3>1. CASE i \in 1..Len(sent[c])
      <4>1. i + 1 \in 1..(Len(sent[c]) + 1)
        BY <1>a, <3>1, SMTT(60)
      <4> QED BY <1>3, <1>5, <3>1, <4>1, Zenon DEF Layout
    <3>2. CASE i = Len(sent[c]) + 1
      <4>1. End(c, i)' = Total(c)'
        BY <1>a, <1>c, <1>1, <1>2, <3>2, Zenon DEF End
      <4>2. i + 1 \in Nat /\ i + 1 > Len(sent'[c])
        BY <1>a, <1>1, <3>2, SMTT(60)
      <4> QED BY <1>4, <4>1, <4>2, Zenon
    <3> QED BY <1>a, <1>1, <3>1, <3>2, SMTT(60)
  <2>3. Offset(c, 1)' = 0
    BY <1>a, <1>3, SMTT(60) DEF Layout
  <2> QED BY <2>1, <2>2, <2>3, Zenon DEF Layout
<1>7. Position(c)'
  <2>1. PICK n \in 1..(Len(sent[c]) + 1) : consumed[c] = Offset(c, n)
    BY Zenon DEF Position
  <2>2. n \in 1..(Len(sent'[c]) + 1) /\ consumed'[c] = Offset(c, n)'
    BY <1>a, <1>1, <1>3, <2>1, SMTT(60)
  <2>3. consumed'[c] <= received'[c] /\ received'[c] <= written'[c] /\ written'[c] <= Total(c)'
    <3>1. consumed[c] <= received[c] /\ received[c] <= written[c] /\ written[c] <= Total(c)
      BY Zenon DEF Position
    <3>2. written'[c] = Total(c)' /\ Total(c)' \in Nat /\ Total(c) <= Total(c)'
      BY <1>c, <1>2
    <3>3. received[c] <= Total(c)'
      BY <1>b, <1>c, <3>1, <3>2, LeqTrans, Zenon
    <3>4. Total(c)' <= Total(c)'
      BY <3>2
    <3> QED BY <3>1, <3>2, <3>3, <3>4, Zenon
  <2> QED BY <2>2, <2>3, Zenon DEF Position
<1>8. Replied(c)'
  <2>1. /\ Len(replies'[c]) <= Len(sent'[c])
        /\ \A i \in 1..Len(replies'[c]) : replies'[c][i] = i /\ sent'[c][i].kind \in Answered
    BY <1>a, <1>1, SMTT(60) DEF Replied
  <2>2. Offset(c, Len(replies[c]) + 1)' = Offset(c, Len(replies[c]) + 1)
    <3>1. Len(replies[c]) + 1 \in 1..(Len(sent[c]) + 1) /\ (Len(replies[c]) + 1)' = Len(replies[c]) + 1
      BY <1>a, SMTT(60) DEF Replied
    <3> QED BY <1>3, <3>1, Zenon DEF Offset
  <2>3. (sock_open[c] => consumed[c] = Offset(c, Len(replies[c]) + 1))'
    BY <2>2, Zenon DEF Replied
  <2>4. (conn[c] \in {"none", "queued"} => replies[c] = <<>> /\ consumed[c] = 0)'
    BY Zenon DEF Replied
  <2> QED BY <2>1, <2>3, <2>4, Zenon DEF Replied
<1> QED BY <1>6, <1>7, <1>8, Zenon

(* A step of client c, or of its connection, keeps every other stream.     *)
LEMMA OthersKept ==
    ASSUME Inv, NEW c \in Client, NEW d \in Client, d # c,
           \/ accept(c) \/ Serve(c) \/ recv_error(c) \/ Connects(c) \/ Closes(c)
           \/ \E kind \in Kind, body \in 0..MaxBody : Sends(c, kind, body)
    PROVE  Kept(d)
<1> USE DEF Inv, Rest, Flags, Kept, StreamKept, streams, buffers
<1>1. CASE accept(c)
  BY <1>1, Zenon DEF accept
<1>2. CASE StartThread(c)
  BY <1>2, Zenon DEF StartThread
<1>3. CASE recv(c)
  BY <1>3, Zenon DEF recv
<1>4. CASE recv_disconnected(c)
  BY <1>4, Zenon DEF recv_disconnected, EndThread
<1>5. CASE handle_request(c)
  BY <1>5, Zenon DEF handle_request
<1>6. CASE handle_other(c)
  BY <1>6, Zenon DEF handle_other, EndThread
<1>7. CASE recv_error(c)
  BY <1>7, Zenon DEF recv_error, EndThread
<1>8. CASE Connects(c)
  BY <1>8, Zenon DEF Connects
<1>9. CASE Closes(c)
  BY <1>9, Zenon DEF Closes
<1>10. CASE \E kind \in Kind, body \in 0..MaxBody : Sends(c, kind, body)
  BY <1>10, Zenon DEF Sends
<1> QED BY <1>1, <1>2, <1>3, <1>4, <1>5, <1>6, <1>7, <1>8, <1>9, <1>10, Zenon DEF Serve

(* A step of client c, or of its connection, keeps its own stream.         *)
LEMMA OwnStream ==
    ASSUME Inv, NEW c \in Client, Layout(c), Position(c), Replied(c),
           \/ accept(c) \/ Serve(c) \/ recv_error(c) \/ Connects(c) \/ Closes(c)
           \/ \E kind \in Kind, body \in 0..MaxBody : Sends(c, kind, body)
    PROVE  Layout(c)' /\ Position(c)' /\ Replied(c)'
<1>0. /\ Rest /\ Flags
      /\ consumed \in [Client -> Nat] /\ replies \in [Client -> Seq(Nat)]
  BY Zenon DEF Inv, Rest
<1>a. Len(sent[c]) \in Nat /\ Len(replies[c]) \in Nat
  BY <1>0 DEF Rest
<1>b. consumed[c] \in Nat /\ received[c] \in Nat /\ written[c] \in Nat /\ Total(c) \in Nat
  BY <1>0, TotalType, Zenon DEF Rest
<1>c. consumed[c] <= received[c] /\ received[c] <= written[c] /\ written[c] <= Total(c)
  BY Zenon DEF Position
<1>1. CASE accept(c)
  <2>0. conn[c] = "queued" /\ conn'[c] \in {"created", "no thread"}
    BY <1>0, <1>1, Zenon DEF accept, Rest
  <2>1. UNCHANGED <<sent, received, consumed, written, replies>>
    BY <1>1, Zenon DEF accept, streams, buffers
  <2>2. /\ Layout(c)' /\ Total(c)' = Total(c)
        /\ \A n \in Nat : Offset(c, n)' = Offset(c, n)
    BY <2>1, SameStream, Zenon
  <2>3. Position(c)'
    <3>1. consumed[c] <= received'[c] /\ received'[c] <= written'[c] /\ written'[c] <= Total(c)
      BY <1>b, <1>c, <2>1, Zenon
    <3> QED BY <1>a, <2>1, <3>1, SamePosition, Zenon
  <2>4. replies[c] = <<>> /\ consumed[c] = 0 /\ Len(replies[c]) = 0
    BY <2>0, Zenon DEF Replied
  <2>5. consumed'[c] = Offset(c, Len(replies[c]) + 1)'
    <3>1. (Len(replies[c]) + 1)' = 1
      <4>1. 0 + 1 = 1
        OBVIOUS
      <4> QED BY <2>1, <2>4, <4>1, Zenon
    <3>2. Offset(c, 1)' = 0
      BY <2>2, Zenon DEF Layout
    <3> QED BY <2>1, <2>4, <3>1, <3>2, Zenon
  <2> QED BY <1>a, <2>0, <2>1, <2>2, <2>3, <2>4, <2>5, Zenon DEF Replied
<1>2. CASE StartThread(c)
  <2>1. Kept(c)
    BY <1>0, <1>2, Zenon DEF StartThread, Kept, StreamKept, Rest, streams, buffers
  <2> QED BY <1>0, <2>1, KeptInv, Zenon
<1>3. CASE recv(c)
  <2>1. UNCHANGED <<sent, consumed, written, replies, sock_open, conn>>
    BY <1>3, Zenon DEF recv, streams
  <2>2. received[c] <= received'[c] /\ received'[c] <= written[c] /\ received'[c] \in Nat
    BY <1>0, <1>3 DEF recv, Rest
  <2>3. consumed[c] <= received'[c]
    BY <1>b, <1>c, <2>2, LeqTrans, Zenon
  <2>4. received'[c] <= written'[c] /\ written'[c] <= Total(c)
    BY <1>c, <2>1, <2>2, Zenon
  <2>5. StreamKept(c)
    BY <2>1, Zenon DEF StreamKept
  <2> QED BY <1>a, <2>3, <2>4, <2>5, StreamKeptInv, Zenon
<1>4. CASE recv_disconnected(c) \/ recv_error(c)
  <2>1. conn'[c] = "closed" /\ UNCHANGED <<sent, received, consumed, written, replies>>
    BY <1>0, <1>4, Zenon DEF recv_disconnected, recv_error, EndThread, streams, buffers, Rest
  <2>2. ~sock_open'[c]
    BY <1>0, <1>4, Zenon DEF recv_disconnected, recv_error, EndThread, Flags
  <2>3. Kept(c)
    BY <2>1, <2>2, Zenon DEF Kept, StreamKept
  <2> QED BY <1>0, <2>3, KeptInv, Zenon
<1>5. CASE handle_request(c)
  <2>1. /\ UNCHANGED <<sent[c], received[c], written[c]>> /\ is_msg_complete(c)
        /\ sock_open[c] /\ conn[c] = "serving" /\ conn'[c] = conn[c]
    BY <1>5, Zenon DEF handle_request, streams
  <2>2. consumed'[c] = Trimmed(c)
    BY <1>0, <1>5, Zenon DEF handle_request
  <2>3. \/ ~sock_open'[c] /\ replies'[c] = replies[c]
        \/ replies'[c] = Append(replies[c], Opaque(c)) /\ Front(c).kind \in Answered
    <3>1. CASE replies' = [replies EXCEPT ![c] = Append(@, Opaque(c))]
      BY <1>0, <1>5, <3>1, Zenon DEF handle_request
    <3>2. CASE sock_open' = [sock_open EXCEPT ![c] = FALSE] /\ replies' = replies
      BY <1>0, <3>2, Zenon DEF Flags
    <3> QED BY <1>5, <3>1, <3>2, Zenon DEF handle_request
  <2> QED BY <1>0, <2>1, <2>2, <2>3, TrimInv, Zenon
<1>6. CASE handle_other(c)
  <2>1. /\ UNCHANGED <<sent[c], received[c], written[c], replies[c]>> /\ is_msg_complete(c)
        /\ sock_open[c] /\ conn[c] = "serving"
    BY <1>6, Zenon DEF handle_other, streams
  <2>2. consumed'[c] = Trimmed(c) /\ conn'[c] = "closed"
    BY <1>0, <1>6, Zenon DEF handle_other, EndThread, Rest
  <2>3. ~sock_open'[c]
    BY <1>0, <1>6, Zenon DEF handle_other, EndThread, Flags
  <2> QED BY <1>0, <2>1, <2>2, <2>3, TrimInv, Zenon
<1>7. CASE Connects(c)
  <2>1. Kept(c)
    BY <1>0, <1>7, Zenon DEF Connects, Kept, StreamKept, buffers
  <2> QED BY <1>0, <2>1, KeptInv, Zenon
<1>8. CASE Closes(c)
  <2>1. UNCHANGED <<sent, consumed, received, replies, sock_open, conn>>
    BY <1>8, Zenon DEF Closes, buffers
  <2>2. received[c] <= written'[c] /\ written'[c] <= written[c] /\ written'[c] \in Nat
    BY <1>0, <1>8, SMTT(60) DEF Closes, Rest
  <2>3. written'[c] <= Total(c)
    BY <1>b, <1>c, <2>2, LeqTrans, Zenon
  <2>4. consumed[c] <= received'[c] /\ received'[c] <= written'[c]
    BY <1>c, <2>1, <2>2, Zenon
  <2>5. StreamKept(c)
    BY <2>1, Zenon DEF StreamKept
  <2> QED BY <1>a, <2>3, <2>4, <2>5, StreamKeptInv, Zenon
<1>9. ASSUME NEW kind \in Kind, NEW body \in 0..MaxBody, Sends(c, kind, body)
      PROVE  Layout(c)' /\ Position(c)' /\ Replied(c)'
  <2> DEFINE m == [kind |-> kind, start |-> Total(c), body |-> body]
  <2>1. m \in Message /\ m.start = Total(c) /\ m.body = body
    BY <1>b, Zenon DEF Message
  <2>2. sent'[c] = Append(sent[c], m) /\ written'[c] = Total(c) + Hdr + m.body
    BY <1>0, <1>9, Zenon DEF Sends, Rest
  <2>3. UNCHANGED <<received[c], consumed[c], replies[c], sock_open[c], conn[c]>>
    BY <1>9, Zenon DEF Sends, buffers
  <2> HIDE DEF m
  <2> QED BY <1>0, <2>1, <2>2, <2>3, SendInv, Zenon
<1> QED BY <1>1, <1>2, <1>3, <1>4, <1>5, <1>6, <1>7, <1>8, <1>9, Zenon DEF Serve

LEMMA StreamStep == ASSUME Inv, StreamInv, [Next]_vars PROVE StreamInv'
<1> SUFFICES ASSUME NEW d \in Client PROVE Layout(d)' /\ Position(d)' /\ Replied(d)'
  BY Zenon DEF StreamInv
<1>0. Rest /\ Flags /\ Layout(d) /\ Position(d) /\ Replied(d)
  BY Zenon DEF Inv, StreamInv
<1>1. CASE start \/ UNCHANGED vars
  <2>1. Kept(d)
    BY <1>1, Zenon DEF start, vars, Kept, StreamKept, streams, buffers
  <2> QED BY <1>0, <2>1, KeptInv, Zenon
<1>2. CASE accept_fails
  <2>1. ~sock_open'[d]
    BY <1>2, Zenon DEF accept_fails
  <2>2. conn'[d] = "none" => conn[d] = "none"
    BY <1>2, Zenon DEF accept_fails
  <2>3. conn'[d] # "queued"
    BY <1>2, Zenon DEF accept_fails
  <2>4. Kept(d)
    BY <1>2, <2>1, <2>2, <2>3, Zenon DEF accept_fails, Kept, StreamKept, streams, buffers
  <2> QED BY <1>0, <2>4, KeptInv, Zenon
<1>3. ASSUME NEW c \in Client,
             \/ accept(c) \/ Serve(c) \/ recv_error(c) \/ Connects(c) \/ Closes(c)
             \/ \E kind \in Kind, body \in 0..MaxBody : Sends(c, kind, body)
      PROVE  Layout(d)' /\ Position(d)' /\ Replied(d)'
  <2>1. CASE d # c
    <3>1. Kept(d)
      BY <1>3, <2>1, OthersKept, Zenon
    <3> QED BY <1>0, <3>1, KeptInv, Zenon
  <2>2. CASE d = c
    BY <1>0, <1>3, <2>2, OwnStream, Zenon
  <2> QED BY <2>1, <2>2, Zenon
<1> QED BY <1>1, <1>2, <1>3, Zenon DEF Next

LEMMA StreamInit == Init => StreamInv
<1> SUFFICES ASSUME Init, NEW c \in Client PROVE Layout(c) /\ Position(c) /\ Replied(c)
  BY Zenon DEF StreamInv
<1>1. /\ sent[c] = <<>> /\ replies[c] = <<>> /\ Len(sent[c]) = 0 /\ Len(replies[c]) = 0
      /\ consumed[c] = 0 /\ received[c] = 0 /\ written[c] = 0
  BY Zenon DEF Init
<1>2. Total(c) = 0
  BY <1>1, Zenon DEF Total
<1>3. Offset(c, 1) = 0
  BY <1>1, <1>2 DEF Offset
<1>4. ~sock_open[c]
  BY Zenon DEF Init
<1>5. Position(c)
  BY <1>1, <1>2, <1>3 DEF Position
<1>6. Layout(c)
  BY <1>1, <1>3 DEF Layout
<1> QED BY <1>1, <1>4, <1>5, <1>6, SMTT(60) DEF Replied

LEMMA StreamsHold == Spec => [](Inv /\ StreamInv)
<1>1. Inv /\ StreamInv /\ [Next]_vars => (Inv /\ StreamInv)'
  BY InvStep, StreamStep, Zenon
<1> QED BY <1>1, InvInit, StreamInit, PTL DEF Spec

(***************************************************************************)
(* from_wire trims _buffer to the start of a message, for any messages and *)
(* any pieces in which recv gets them.                                     *)
(***************************************************************************)
THEOREM FramingIsKept == Spec => []FramingKept
<1>1. Inv /\ StreamInv => FramingKept
  <2> SUFFICES ASSUME Inv, StreamInv, NEW c \in Client
               PROVE  /\ consumed[c] <= received[c]
                      /\ consumed[c] = Total(c) \/ FrontNumber(c) # {}
    BY Zenon DEF FramingKept
  <2>1. Position(c) /\ sent[c] \in Seq(Message) /\ Len(sent[c]) \in Nat
    BY DEF StreamInv, Inv, Rest
  <2>2. PICK n \in 1..(Len(sent[c]) + 1) : consumed[c] = Offset(c, n)
    BY <2>1, Zenon DEF Position
  <2>3. CASE n <= Len(sent[c])
    <3>1. n \in FrontNumber(c)
      BY <2>1, <2>2, <2>3 DEF Offset, FrontNumber
    <3> QED BY <2>1, <3>1, Zenon DEF Position
  <2>4. CASE ~(n <= Len(sent[c]))
    BY <2>1, <2>2, <2>4, Zenon DEF Offset, Position
  <2> QED BY <2>3, <2>4, Zenon
<1> QED BY <1>1, StreamsHold, PTL

(***************************************************************************)
(* The answers a client gets are to its first requests, each once and in   *)
(* order, for any number of clients and requests in flight.                *)
(***************************************************************************)
THEOREM AnswersAreInOrder == Spec => []AnswersInOrder
<1>1. Inv /\ StreamInv => AnswersInOrder
  <2> SUFFICES ASSUME Inv, StreamInv, NEW c \in Client, NEW i \in DOMAIN replies[c]
               PROVE  replies[c][i] = i /\ sent[c][i].kind \in Answered
    BY Zenon DEF AnswersInOrder
  <2>1. Replied(c) /\ replies[c] \in Seq(Nat)
    BY Zenon DEF StreamInv, Inv, Rest
  <2>2. i \in 1..Len(replies[c])
    BY <2>1
  <2> QED BY <2>1, <2>2, Zenon DEF Replied
<1> QED BY <1>1, StreamsHold, PTL
=============================================================================
