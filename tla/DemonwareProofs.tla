--------------------------- MODULE DemonwareProofs ---------------------------
(***************************************************************************)
(* Proofs about the emulated backend, for any number of servers, sockets,  *)
(* threads of the game and packets: what Datagrams and Demonware state of  *)
(* the bytes that come back through the sockets.                           *)
(***************************************************************************)
EXTENDS Datagrams, Demonware, SequenceLemmas

-----------------------------------------------------------------------------
(* Datagrams: the answers of the STUN servers.                             *)

DatagramsSpec == DatagramsInit /\ [][DatagramsNext]_datagramVars

Datagram == [from : StunServer, type : Kinds, number : Nat]
UdpQueue == [exists : BOOLEAN, packets : Seq(Datagram), life : Nat]
SendCall == [op : {"send"}, socket : UdpSocket, server : StunServer, kind : Kinds, number : Nat]
RecvCall == [op : {"recv"}, socket : UdpSocket, blocking : BOOLEAN, life : Nat]

\* The type invariant of Datagrams (demonware.cpp, stun_server.cpp).
DatagramsTypeOK ==
  /\ datagram_packets \in [UdpSocket -> UdpQueue]
  /\ udp_blocking \in [UdpSocket -> BOOLEAN]
  /\ stun_servers \subseteq StunServer
  /\ host \in [GameThread -> StunServer \cup {NoServer}]
  /\ io_call \in [GameThread -> {Done} \cup SendCall \cup RecvCall]
  /\ datagrams_asked \in Nat
  /\ answered \in [UdpSocket -> Seq(Datagram)]
  /\ popped \in [UdpSocket -> Seq(Datagram)]

\* A queue that is gone has left nothing.
QueuesGone == \A s \in UdpSocket : ~datagram_packets[s].exists => datagram_packets[s].packets = <<>>

LEMMA DatagramsInitial == DatagramsInit => DatagramsTypeOK /\ QueuesGone /\ DatagramsInOrder
<1> SUFFICES ASSUME DatagramsInit PROVE DatagramsTypeOK /\ QueuesGone /\ DatagramsInOrder
  OBVIOUS
<1>1. NoQueue \in UdpQueue /\ NoQueue.packets = <<>>
  BY DEF NoQueue, UdpQueue
<1>2. <<>> \o <<>> = <<>>
  BY ConcatEmptySeq
<1>3. \A s \in UdpSocket : /\ datagram_packets[s] = NoQueue
                           /\ popped[s] = <<>> /\ answered[s] = <<>>
  BY DEF DatagramsInit
<1>4. DatagramsTypeOK
  BY <1>1 DEF DatagramsInit, DatagramsTypeOK
<1> QED BY <1>1, <1>2, <1>3, <1>4 DEF QueuesGone, DatagramsInOrder

LEMMA DatagramsStepTypes == DatagramsTypeOK /\ [DatagramsNext]_datagramVars => DatagramsTypeOK'
<1> SUFFICES ASSUME DatagramsTypeOK, [DatagramsNext]_datagramVars PROVE DatagramsTypeOK'
  OBVIOUS
<1> USE DEF DatagramsTypeOK
<1>1. ASSUME NEW t \in GameThread, NEW v \in StunServer, get_host_by_name(t, v)
      PROVE  DatagramsTypeOK'
  BY <1>1 DEF get_host_by_name
<1>2. ASSUME NEW t \in GameThread, NEW s \in UdpSocket, NEW kind \in Kinds, SendTo(t, s, kind)
      PROVE  DatagramsTypeOK'
  <2>1. host[t] \in StunServer
    BY <1>2 DEF SendTo
  <2>2. [op |-> "send", socket |-> s, server |-> host[t], kind |-> kind,
         number |-> datagrams_asked + 1] \in SendCall
    BY <2>1 DEF SendCall
  <2>3. io_call' \in [GameThread -> {Done} \cup SendCall \cup RecvCall]
    BY <1>2, <2>2 DEF SendTo
  <2> QED BY <1>2, <2>3 DEF SendTo
<1>3. ASSUME NEW t \in GameThread, NEW s \in UdpSocket, RecvFrom(t, s)
      PROVE  DatagramsTypeOK'
  <2>1. [op |-> "recv", socket |-> s, blocking |-> udp_blocking[s],
         life |-> datagram_packets[s].life] \in RecvCall
    BY DEF RecvCall, UdpQueue
  <2>2. io_call' \in [GameThread -> {Done} \cup SendCall \cup RecvCall]
    BY <1>3, <2>1 DEF RecvFrom
  <2> QED BY <1>3, <2>2 DEF RecvFrom
<1>4. ASSUME NEW t \in GameThread, io_call' = [io_call EXCEPT ![t] = Done],
             UNCHANGED <<udp_blocking, stun_servers, host, datagrams_asked>>,
             datagram_packets' \in [UdpSocket -> UdpQueue],
             answered' \in [UdpSocket -> Seq(Datagram)], popped' \in [UdpSocket -> Seq(Datagram)]
      PROVE  DatagramsTypeOK'
  <2>1. io_call' \in [GameThread -> {Done} \cup SendCall \cup RecvCall]
    BY <1>4
  <2> QED BY <1>4, <2>1
<1>5. ASSUME NEW t \in GameThread, StunSend(t)
      PROVE  DatagramsTypeOK'
  <2> DEFINE call == io_call[t]
  <2>1. call \in SendCall
    BY <1>5 DEF StunSend, Done, RecvCall
  <2>2. PICK type \in TypeRead(call.kind) :
          IF type = "other" THEN UNCHANGED <<datagram_packets, answered>>
          ELSE send_datagram_packet(call.socket, StunReply(call, type))
    BY <1>5 DEF StunSend
  <2>3. call.socket \in UdpSocket /\ type \in Kinds /\ StunReply(call, type) \in Datagram
    BY <2>1, <2>2 DEF SendCall, TypeRead, StunReply, Datagram
  <2> HIDE DEF call
  <2>4. CASE type = "other"
    BY <1>4, <1>5, <2>2, <2>4 DEF StunSend
  <2>5. CASE type # "other"
    <3> DEFINE s == call.socket
               p == StunReply(call, type)
    <3>1. /\ datagram_packets' = [datagram_packets EXCEPT ![s] =
               [exists |-> TRUE, packets |-> Append(datagram_packets[s].packets, p),
                life |-> datagram_packets[s].life]]
          /\ answered' = [answered EXCEPT ![s] = Append(answered[s], p)]
      BY <2>2, <2>5 DEF send_datagram_packet
    <3>2. s \in UdpSocket /\ p \in Datagram
      BY <2>3
    <3> HIDE DEF s, p
    <3>3. datagram_packets[s].packets \in Seq(Datagram) /\ datagram_packets[s].life \in Nat
      BY <3>2 DEF UdpQueue
    <3>4. Append(datagram_packets[s].packets, p) \in Seq(Datagram) /\ Append(answered[s], p) \in Seq(Datagram)
      BY <3>2, <3>3, AppendProperties
    <3>5. datagram_packets' \in [UdpSocket -> UdpQueue] /\ answered' \in [UdpSocket -> Seq(Datagram)]
      BY <3>1, <3>2, <3>3, <3>4 DEF UdpQueue
    <3> QED BY <1>4, <1>5, <3>5 DEF StunSend
  <2> QED BY <2>4, <2>5
<1>6. ASSUME NEW t \in GameThread, RecvWait(t)
      PROVE  DatagramsTypeOK'
  <2>1. io_call[t] \in RecvCall
    <3>1. io_call[t].op = "recv"
      BY <1>6 DEF RecvWait
    <3> QED BY <3>1 DEF Done, SendCall
  <2>2. [io_call[t] EXCEPT !.blocking = FALSE] \in RecvCall
    BY <2>1 DEF RecvCall
  <2>3. io_call' \in [GameThread -> {Done} \cup SendCall \cup RecvCall]
    BY <1>6, <2>2 DEF RecvWait
  <2> QED BY <1>6, <2>3 DEF RecvWait
<1>7. ASSUME NEW t \in GameThread, RecvLocked(t)
      PROVE  DatagramsTypeOK'
  <2> DEFINE s == io_call[t].socket
             queue == datagram_packets[s].packets
  <2>1. io_call[t] \in RecvCall /\ RecvPop(t)
    BY <1>7 DEF RecvLocked, Done, SendCall
  <2>2. s \in UdpSocket /\ queue \in Seq(Datagram)
    BY <2>1 DEF RecvCall, UdpQueue
  <2>3. CASE queue = <<>>
    BY <1>4, <2>1, <2>3 DEF RecvPop
  <2>4. CASE queue # <<>>
    <3>1. /\ datagram_packets' = [datagram_packets EXCEPT ![s].packets = Tail(queue)]
          /\ popped' = [popped EXCEPT ![s] = Append(popped[s], Head(queue))]
      BY <2>1, <2>4 DEF RecvPop
    <3>2. Head(queue) \in Datagram /\ Tail(queue) \in Seq(Datagram)
      BY <2>2, <2>4, HeadTailProperties
    <3> HIDE DEF s, queue
    <3>3. Append(popped[s], Head(queue)) \in Seq(Datagram)
      BY <2>2, <3>2, AppendProperties
    <3>4. datagram_packets' \in [UdpSocket -> UdpQueue] /\ popped' \in [UdpSocket -> Seq(Datagram)]
      BY <2>2, <3>1, <3>2, <3>3 DEF UdpQueue
    <3> QED BY <1>4, <2>1, <3>4 DEF RecvPop
  <2> QED BY <2>3, <2>4
<1>8. ASSUME NEW t \in GameThread, RecvDangling(t)
      PROVE  DatagramsTypeOK'
  BY <1>4, <1>8 DEF RecvDangling
<1>9. ASSUME NEW sockets, Ended(sockets), stun_servers' \subseteq StunServer
      PROVE  DatagramsTypeOK'
  <2>1. \A queue \in UdpQueue : Erased(queue) \in UdpQueue
    <3> TAKE queue \in UdpQueue
    <3>1. queue.exists => Erased(queue) = [exists |-> FALSE, packets |-> <<>>, life |-> queue.life + 1]
      BY DEF Erased, NoQueue
    <3>2. ~queue.exists => Erased(queue) = queue
      BY DEF Erased
    <3>3. queue.life + 1 \in Nat
      BY DEF UdpQueue
    <3>4. [exists |-> FALSE, packets |-> <<>>, life |-> queue.life + 1] \in UdpQueue
      BY <3>3 DEF UdpQueue
    <3> QED BY <3>1, <3>2, <3>4
  <2>2. datagram_packets' \in [UdpSocket -> UdpQueue]
    BY <1>9, <2>1 DEF Ended
  <2> QED BY <1>9, <2>2 DEF Ended
<1>10. ASSUME NEW s \in UdpSocket, NEW blocking \in BOOLEAN, ioctl_socket(s, blocking)
       PROVE  DatagramsTypeOK'
  BY <1>10 DEF ioctl_socket
<1>11. CASE pre_destroy
  BY <1>9, <1>11 DEF pre_destroy
<1>12. ASSUME NEW s \in UdpSocket, close_socket(s)
       PROVE  DatagramsTypeOK'
  BY <1>9, <1>12 DEF close_socket
<1>13. CASE UNCHANGED datagramVars
  BY <1>13 DEF datagramVars
<1> QED
  BY <1>1, <1>2, <1>3, <1>5, <1>6, <1>7, <1>8, <1>10, <1>11, <1>12, <1>13 DEF DatagramsNext

LEMMA DatagramsStep ==
  DatagramsTypeOK /\ QueuesGone /\ DatagramsInOrder /\ [DatagramsNext]_datagramVars
    => QueuesGone' /\ DatagramsInOrder'
<1> SUFFICES ASSUME DatagramsTypeOK, QueuesGone, DatagramsInOrder, [DatagramsNext]_datagramVars
             PROVE  QueuesGone' /\ DatagramsInOrder'
  OBVIOUS
<1>1. ASSUME UNCHANGED <<datagram_packets, answered, popped>>
      PROVE  QueuesGone' /\ DatagramsInOrder'
  BY <1>1 DEF QueuesGone, DatagramsInOrder
<1>2. ASSUME NEW t \in GameThread, StunSend(t)
      PROVE  QueuesGone' /\ DatagramsInOrder'
  <2> DEFINE call == io_call[t]
  <2>1. call \in SendCall /\ popped' = popped
    BY <1>2 DEF StunSend, Done, RecvCall, DatagramsTypeOK
  <2>2. PICK type \in TypeRead(call.kind) :
          IF type = "other" THEN UNCHANGED <<datagram_packets, answered>>
          ELSE send_datagram_packet(call.socket, StunReply(call, type))
    BY <1>2 DEF StunSend
  <2>3. call.socket \in UdpSocket /\ StunReply(call, type) \in Datagram
    BY <2>1, <2>2 DEF SendCall, TypeRead, StunReply, Datagram
  <2> HIDE DEF call
  <2>4. CASE type = "other"
    BY <1>1, <2>1, <2>2, <2>4
  <2>5. CASE type # "other"
    <3>1. PICK s \in UdpSocket, p \in Datagram : send_datagram_packet(s, p)
      BY <2>2, <2>3, <2>5
    <3> DEFINE q == Append(datagram_packets[s].packets, p)
               a == Append(answered[s], p)
    <3>2. popped[s] \o q = a
      <4>1. datagram_packets[s].packets \in Seq(Datagram) /\ popped[s] \in Seq(Datagram)
        BY DEF DatagramsTypeOK, UdpQueue
      <4>2. popped[s] \o datagram_packets[s].packets = answered[s]
        BY DEF DatagramsInOrder
      <4>3. \A x, y \in Seq(Datagram) : x \o Append(y, p) = Append(x \o y, p)
        BY ConcatAppend
      <4> QED BY <4>1, <4>2, <4>3
    <3>3. /\ datagram_packets' = [datagram_packets EXCEPT ![s] =
               [exists |-> TRUE, packets |-> q, life |-> datagram_packets[s].life]]
          /\ answered' = [answered EXCEPT ![s] = a]
      BY <3>1 DEF send_datagram_packet
    <3> HIDE DEF q, a
    <3>4. \A r \in UdpSocket :
            /\ r = s => /\ datagram_packets'[r].packets = q /\ datagram_packets'[r].exists
                        /\ answered'[r] = a
            /\ r # s => datagram_packets'[r] = datagram_packets[r] /\ answered'[r] = answered[r]
      BY <3>3 DEF DatagramsTypeOK
    <3>5. QueuesGone'
      BY <3>4 DEF QueuesGone
    <3>6. DatagramsInOrder'
      BY <2>1, <3>2, <3>4 DEF DatagramsInOrder
    <3> QED BY <3>5, <3>6
  <2> QED BY <2>4, <2>5
<1>3. ASSUME NEW t \in GameThread, RecvLocked(t)
      PROVE  QueuesGone' /\ DatagramsInOrder'
  <2>1. io_call[t] \in RecvCall /\ RecvPop(t)
    BY <1>3 DEF RecvLocked, Done, SendCall, DatagramsTypeOK
  <2>2. PICK s \in UdpSocket : s = io_call[t].socket
    BY <2>1 DEF RecvCall
  <2> DEFINE queue == datagram_packets[s].packets
  <2>3. CASE queue = <<>>
    BY <1>1, <2>1, <2>2, <2>3 DEF RecvPop
  <2>4. CASE queue # <<>>
    <3>1. /\ datagram_packets' = [datagram_packets EXCEPT ![s].packets = Tail(queue)]
          /\ popped' = [popped EXCEPT ![s] = Append(popped[s], Head(queue))]
          /\ answered' = answered /\ datagram_packets[s].exists
      BY <2>1, <2>2, <2>4 DEF RecvPop, Dangling
    <3>2. queue \in Seq(Datagram) /\ popped[s] \in Seq(Datagram)
      BY DEF DatagramsTypeOK, UdpQueue
    <3>3. Append(popped[s], Head(queue)) \o Tail(queue) = answered[s]
      BY <2>4, <3>2, ConcatHead DEF DatagramsInOrder
    <3>4. \A r \in UdpSocket :
            /\ r = s => /\ datagram_packets'[r].packets = Tail(queue) /\ datagram_packets'[r].exists
                        /\ popped'[r] = Append(popped[s], Head(queue))
            /\ r # s => datagram_packets'[r] = datagram_packets[r] /\ popped'[r] = popped[r]
      BY <3>1 DEF DatagramsTypeOK, UdpQueue
    <3> HIDE DEF queue
    <3>5. QueuesGone'
      BY <3>4 DEF QueuesGone
    <3>6. DatagramsInOrder'
      BY <3>1, <3>3, <3>4 DEF DatagramsInOrder
    <3> QED BY <3>5, <3>6
  <2> QED BY <2>3, <2>4
<1>4. ASSUME NEW sockets, Ended(sockets)
      PROVE  QueuesGone' /\ DatagramsInOrder'
  <2>1. ASSUME NEW s \in UdpSocket
        PROVE  /\ s \in sockets => /\ datagram_packets'[s].packets = <<>>
                                   /\ popped'[s] = <<>> /\ answered'[s] = <<>>
               /\ s \notin sockets => /\ datagram_packets'[s] = datagram_packets[s]
                                      /\ popped'[s] = popped[s] /\ answered'[s] = answered[s]
    <3>1. Erased(datagram_packets[s]).packets = <<>>
      BY DEF Erased, NoQueue, QueuesGone
    <3> QED BY <1>4, <3>1 DEF Ended
  <2>2. <<>> \o <<>> = <<>>
    BY ConcatEmptySeq
  <2>3. QueuesGone'
    BY <2>1 DEF QueuesGone
  <2>4. DatagramsInOrder'
    BY <2>1, <2>2 DEF DatagramsInOrder
  <2> QED BY <2>3, <2>4
<1>5. ASSUME NEW t \in GameThread,
             \/ \E v \in StunServer : get_host_by_name(t, v)
             \/ \E s \in UdpSocket, kind \in Kinds : SendTo(t, s, kind)
             \/ \E s \in UdpSocket : RecvFrom(t, s)
             \/ RecvWait(t) \/ RecvDangling(t)
      PROVE  QueuesGone' /\ DatagramsInOrder'
  BY <1>1, <1>5 DEF get_host_by_name, SendTo, RecvFrom, RecvWait, RecvDangling
<1>6. ASSUME NEW s \in UdpSocket, NEW blocking, ioctl_socket(s, blocking)
      PROVE  QueuesGone' /\ DatagramsInOrder'
  BY <1>1, <1>6 DEF ioctl_socket
<1>7. CASE UNCHANGED datagramVars
  BY <1>1, <1>7 DEF datagramVars
<1> QED
  BY <1>2, <1>3, <1>4, <1>5, <1>6, <1>7 DEF DatagramsNext, close_socket, pre_destroy

\* For any threads, sockets and servers: the answers of the STUN servers are
\* taken in the order in which they were given, each once, whatever is closed
\* meanwhile (recv_datagam_packet, send_datagram_packet, unlink_socket).
THEOREM DatagramAnswers == DatagramsSpec => []DatagramsInOrder
BY DatagramsInitial, DatagramsStepTypes, DatagramsStep, PTL DEF DatagramsSpec
-----------------------------------------------------------------------------
(* Demonware: the bytes of the service servers.                            *)

\* What the first h packets of s are answered.
Answers(s, h) == FlattenSeq([n \in 1..h |-> parse_packet(n, s[n])])

\* The answers to a packet are bytes.
LEMMA ParseType ==
  ASSUME NEW n \in Nat, NEW packet \in Packet
  PROVE  parse_packet(n, packet) \in Seq(Byte)
<1> DEFINE reply(m) == [k \in 1..ReplyLength |-> <<n, m, k>>]
           replies == [m \in DOMAIN packet |->
             IF m \in Reached(packet) /\ Answered(packet[m]) THEN reply(m) ELSE <<>>]
<1>1. packet \in Seq(Kind) /\ ReplyLength \in Nat
  BY ServiceServerAssumption
<1>2. Len(packet) \in Nat /\ DOMAIN packet = 1..Len(packet)
  BY <1>1, LenProperties
<1>3. ASSUME NEW m \in DOMAIN packet
      PROVE  reply(m) \in Seq(Byte)
  <2>1. m \in Nat
    BY <1>2
  <2>2. reply(m) \in [1..ReplyLength -> Byte]
    BY <2>1 DEF Byte
  <2> HIDE DEF reply
  <2> QED BY <1>1, <2>2, FunctionIsSeq
<1>4. <<>> \in Seq(Byte)
  BY EmptySeq
<1>5. replies \in [1..Len(packet) -> Seq(Byte)]
  <2> HIDE DEF reply
  <2> QED BY <1>2, <1>3, <1>4
<1>6. replies \in Seq(Seq(Byte))
  <2> HIDE DEF replies
  <2> QED BY <1>2, <1>5, FunctionIsSeq
<1>7. parse_packet(n, packet) = FlattenSeq(replies)
  BY Zenon DEF parse_packet
<1> HIDE DEF replies
<1> QED BY <1>6, <1>7, FlattenType

\* The answers to the first packets, packet after packet.
LEMMA AnswersSeq ==
  ASSUME NEW s \in Seq(Packet), NEW h \in Nat, h <= Len(s)
  PROVE  LET a == [n \in 1..h |-> parse_packet(n, s[n])] IN
         a \in Seq(Seq(Byte)) /\ Len(a) = h
<1> DEFINE a == [n \in 1..h |-> parse_packet(n, s[n])]
<1>1. ASSUME NEW n \in 1..h
      PROVE  parse_packet(n, s[n]) \in Seq(Byte)
  <2>1. n \in Nat /\ n \in 1..Len(s)
    BY LenProperties
  <2>2. s[n] \in Packet
    BY <2>1, ElementOfSeq
  <2> QED BY <2>1, <2>2, ParseType
<1>2. a \in [1..h -> Seq(Byte)]
  BY <1>1
<1> HIDE DEF a
<1>3. a \in Seq(Seq(Byte)) /\ Len(a) = h
  BY <1>2, FunctionIsSeq
<1> QED BY <1>3 DEF a

\* One packet more: its answers follow the others.
LEMMA AnswersNext ==
  ASSUME NEW s \in Seq(Packet), NEW h \in Nat, h + 1 <= Len(s)
  PROVE  /\ Answers(s, h) \in Seq(Byte)
         /\ parse_packet(h + 1, s[h + 1]) \in Seq(Byte)
         /\ Answers(s, h + 1) = Answers(s, h) \o parse_packet(h + 1, s[h + 1])
<1> DEFINE a == [n \in 1..h |-> parse_packet(n, s[n])]
           b == [n \in 1..h + 1 |-> parse_packet(n, s[n])]
<1>1. Len(s) \in Nat /\ h <= Len(s) /\ h + 1 \in Nat /\ h + 1 \in 1..h + 1 /\ h + 1 \in 1..Len(s)
  BY LenProperties
<1>2. a \in Seq(Seq(Byte)) /\ Len(a) = h
  BY <1>1, AnswersSeq, Zenon
<1>3. b \in Seq(Seq(Byte)) /\ Len(b) = h + 1
  BY <1>1, AnswersSeq, Zenon
<1>4. \A n \in 1..h : n \in 1..h + 1
  OBVIOUS
<1>5. \A n \in 1..h : b[n] = a[n]
  BY <1>4, Zenon
<1>6. b[h + 1] = parse_packet(h + 1, s[h + 1])
  BY <1>1, Zenon
<1>7. Answers(s, h) = FlattenSeq(a) /\ Answers(s, h + 1) = FlattenSeq(b)
  BY Zenon DEF Answers
<1>8. s[h + 1] \in Packet
  BY <1>1, ElementOfSeq
<1>9. parse_packet(h + 1, s[h + 1]) \in Seq(Byte)
  BY <1>1, <1>8, ParseType
<1> HIDE DEF a, b
<1>10. FlattenSeq(a) \in Seq(Byte)
  BY <1>2, FlattenType
<1>11. FlattenSeq(b) = FlattenSeq(a) \o b[Len(b)]
  BY <1>2, <1>3, <1>5, FlattenStep
<1> QED BY <1>3, <1>6, <1>7, <1>9, <1>10, <1>11, Zenon

\* Packets sent later do not change what the first ones are answered.
LEMMA AnswersSame ==
  ASSUME NEW s, NEW t, NEW h \in Nat, \A n \in 1..h : t[n] = s[n]
  PROVE  Answers(t, h) = Answers(s, h)
<1>1. [n \in 1..h |-> parse_packet(n, t[n])] = [n \in 1..h |-> parse_packet(n, s[n])]
  OBVIOUS
<1> QED BY <1>1, Zenon DEF Answers

\* What AnswersInOrder says of one server: q is its queue, s what it was sent,
\* d what was delivered and o what is to go out.
Ordered(q, s, d, o) ==
  /\ q \in Seq(1..MaxPackets) /\ s \in Seq(Packet) /\ d \in Seq(Byte) /\ o \in Seq(Byte)
  /\ Len(q) <= Len(s)
  /\ \A k \in 1..Len(q) : q[k] = (Len(s) - Len(q)) + k
  /\ d \o o = Answers(s, Len(s) - Len(q))

\* service_server::send.
LEMMA SendKeepsOrder ==
  ASSUME NEW q, NEW s, NEW d, NEW o, Ordered(q, s, d, o), NEW packet \in Packet, Len(s) < MaxPackets
  PROVE  Ordered(Append(q, Len(Append(s, packet))), Append(s, packet), d, o)
<1> DEFINE t == Append(s, packet)
           p == Append(q, Len(s) + 1)
           h == Len(s) - Len(q)
<1>1. q \in Seq(1..MaxPackets) /\ s \in Seq(Packet) /\ MaxPackets \in Nat
  BY ServiceServerAssumption DEF Ordered
<1>2. Len(q) \in Nat /\ Len(s) \in Nat /\ h \in Nat /\ h <= Len(s)
  <2>1. Len(q) \in Nat /\ Len(s) \in Nat
    BY <1>1, LenProperties
  <2>2. Len(q) <= Len(s)
    BY DEF Ordered
  <2> QED BY <2>1, <2>2
<1>3. t \in Seq(Packet) /\ Len(t) = Len(s) + 1 /\ \A n \in 1..Len(s) : t[n] = s[n]
  BY <1>1, AppendProperties
<1>4. Len(s) + 1 \in 1..MaxPackets
  BY <1>1, <1>2
<1>5. p \in Seq(1..MaxPackets) /\ Len(p) = Len(q) + 1
      /\ p[Len(q) + 1] = Len(s) + 1 /\ \A k \in 1..Len(q) : p[k] = q[k]
  BY <1>1, <1>4, AppendProperties
<1> HIDE DEF t, p
<1>6. Len(t) - Len(p) = h /\ Len(p) <= Len(t)
  BY <1>2, <1>3, <1>5
<1>7. \A k \in 1..Len(p) : p[k] = (Len(t) - Len(p)) + k
  <2>1. \A k \in 1..Len(q) : q[k] = h + k
    BY DEF Ordered
  <2> QED BY <1>2, <1>3, <1>5, <2>1
<1>8. d \o o = Answers(t, h)
  <2>1. \A n \in 1..h : t[n] = s[n]
    BY <1>2, <1>3
  <2>2. Answers(t, h) = Answers(s, h)
    BY <1>2, <2>1, AnswersSame
  <2>3. d \o o = Answers(s, h)
    BY Zenon DEF Ordered
  <2> QED BY <2>2, <2>3, Zenon
<1>9. d \in Seq(Byte) /\ o \in Seq(Byte)
  BY DEF Ordered
<1>10. Ordered(p, t, d, o)
  BY <1>3, <1>5, <1>6, <1>7, <1>8, <1>9, Zenon DEF Ordered
<1>11. p = Append(q, Len(t))
  BY <1>3, Zenon DEF p
<1> QED BY <1>10, <1>11, Zenon DEF t

\* service_server::run_frame with a packet in the queue.
LEMMA FrameKeepsOrder ==
  ASSUME NEW q, NEW s, NEW d, NEW o, Ordered(q, s, d, o), q # <<>>
  PROVE  Ordered(Tail(q), s, d, o \o parse_packet(Head(q), s[Head(q)]))
<1> DEFINE h == Len(s) - Len(q)
           p == parse_packet(h + 1, s[h + 1])
<1>1. q \in Seq(1..MaxPackets) /\ s \in Seq(Packet) /\ d \in Seq(Byte) /\ o \in Seq(Byte)
  BY DEF Ordered
<1>2. Len(q) \in Nat /\ Len(q) # 0 /\ Len(s) \in Nat /\ Len(q) <= Len(s)
  <2>1. Len(q) \in Nat /\ Len(q) # 0 /\ Len(s) \in Nat
    BY <1>1, LenProperties, EmptySeq
  <2> QED BY <2>1 DEF Ordered
<1>3. h \in Nat /\ h + 1 <= Len(s) /\ \A k \in 1..Len(q) : q[k] = h + k
  BY <1>2 DEF Ordered
<1>4. Head(q) = h + 1
  <2>1. 1 \in 1..Len(q)
    BY <1>2
  <2>2. Head(q) = q[1]
    BY <1>1
  <2> QED BY <1>3, <2>1, <2>2
<1>5. Tail(q) \in Seq(1..MaxPackets) /\ Len(Tail(q)) = Len(q) - 1
      /\ \A k \in 1..Len(Tail(q)) : Tail(q)[k] = q[k + 1]
  BY <1>1, HeadTailProperties
<1> DEFINE r == Tail(q)
<1> HIDE DEF r
<1>6. r \in Seq(1..MaxPackets) /\ Len(r) = Len(q) - 1 /\ \A k \in 1..Len(r) : r[k] = q[k + 1]
  BY <1>5 DEF r
<1>7. Len(r) <= Len(s) /\ Len(s) - Len(r) = h + 1
  BY <1>2, <1>6
<1>8. \A k \in 1..Len(r) : r[k] = (Len(s) - Len(r)) + k
  <2> TAKE k \in 1..Len(r)
  <2>1. k + 1 \in 1..Len(q)
    BY <1>2, <1>6
  <2>2. r[k] = q[k + 1] /\ q[k + 1] = h + (k + 1)
    BY <1>3, <1>6, <2>1
  <2> QED BY <1>3, <1>7, <2>2
<1>9. /\ p \in Seq(Byte)
      /\ Answers(s, h + 1) = Answers(s, h) \o p
  BY <1>1, <1>3, AnswersNext
<1>10. d \o o = Answers(s, h)
  BY Zenon DEF Ordered
<1> HIDE DEF p
<1>11. d \o (o \o p) = (d \o o) \o p
  <2>1. \A x, y, z \in Seq(Byte) : (x \o y) \o z = x \o (y \o z)
    BY ConcatAssociative
  <2> QED BY <1>1, <1>9, <2>1, Zenon
<1>12. d \o (o \o p) = Answers(s, Len(s) - Len(r))
  BY <1>7, <1>9, <1>10, <1>11, Zenon
<1>13. o \o p \in Seq(Byte)
  BY <1>1, <1>9, ConcatProperties
<1>14. Ordered(r, s, d, o \o p)
  BY <1>1, <1>6, <1>7, <1>8, <1>12, <1>13, Zenon DEF Ordered
<1> QED BY <1>4, <1>14, Zenon DEF r, p

\* service_server::recv that gives n bytes.
LEMMA RecvKeepsOrder ==
  ASSUME NEW q, NEW s, NEW d, NEW o, Ordered(q, s, d, o), NEW n \in 0..Len(o)
  PROVE  Ordered(q, s, d \o SubSeq(o, 1, n), SubSeq(o, n + 1, Len(o)))
<1> DEFINE a == SubSeq(o, 1, n)
           b == SubSeq(o, n + 1, Len(o))
<1>1. /\ q \in Seq(1..MaxPackets) /\ s \in Seq(Packet) /\ d \in Seq(Byte) /\ o \in Seq(Byte)
      /\ Len(q) <= Len(s)
      /\ \A k \in 1..Len(q) : q[k] = (Len(s) - Len(q)) + k
      /\ d \o o = Answers(s, Len(s) - Len(q))
  BY Zenon DEF Ordered
<1>2. a \in Seq(Byte) /\ b \in Seq(Byte) /\ a \o b = o
  BY <1>1, SubSeqCut
<1> HIDE DEF a, b
<1>3. (d \o a) \o b = d \o (a \o b)
  <2>1. \A x, y, z \in Seq(Byte) : (x \o y) \o z = x \o (y \o z)
    BY ConcatAssociative
  <2> QED BY <1>1, <1>2, <2>1, Zenon
<1>4. d \o a \in Seq(Byte)
  BY <1>1, <1>2, ConcatProperties
<1>5. Ordered(q, s, d \o a, b)
  BY <1>1, <1>2, <1>3, <1>4, Zenon DEF Ordered
<1> QED BY <1>5, Zenon DEF a, b

\* The bytes of every server are in order: the inductive form of AnswersInOrder.
ServersOK ==
  /\ ServiceServerTypeOK
  /\ \A v \in Server : Ordered(incoming_queue_[v], sent[v], delivered[v], outgoing_queue_[v])

SendRequest == [op : {"send"}, server : Server, packet : Packet]
FindRequest == [op : {"find"}, server : Server]
ReadRequest == [op : {"poll", "take"}, server : Server, blocking : BOOLEAN]

\* The calls a socket can have under way.
LEMMA CallIs == Call = {Idle} \cup SendRequest \cup FindRequest \cup ReadRequest
BY Zenon DEF Call, SendRequest, FindRequest, ReadRequest

\* What a call carries.
LEMMA CallFields ==
  ASSUME NEW call \in Call
  PROVE  /\ call.op = "send" => call.server \in Server /\ call.packet \in Packet
         /\ call.op = "find" => call \in FindRequest /\ call.server \in Server
         /\ call.op \in {"poll", "take"} => call \in ReadRequest /\ call.server \in Server
<1>1. CASE call = Idle
  BY <1>1 DEF Idle
<1>2. CASE call \in SendRequest
  BY <1>2 DEF SendRequest
<1>3. CASE call \in FindRequest
  BY <1>3 DEF FindRequest
<1>4. CASE call \in ReadRequest
  BY <1>4 DEF ReadRequest
<1> QED BY <1>1, <1>2, <1>3, <1>4, CallIs, Zenon

CallsOK == calls \in [Socket -> Call] /\ readers \in [Server -> SUBSET Socket]

TablesOK ==
  /\ socket_links \in [Socket -> Server \cup {None}]
  /\ blocking_sockets \in [Socket -> BOOLEAN]
  /\ registered \in BOOLEAN

ThreadsOK ==
  /\ terminate \in BOOLEAN
  /\ server_mutex \in {"free", "thread", "destroyer"}
  /\ message_thread \in {"starting", "testing", "locking", "frame", "sleeping", "exited"}
  /\ visiting \subseteq Server
  /\ destroyer \in {"none", "joining", "done"}

\* The parts of the type invariant.
LEMMA TypesAre == TypeOK <=> ServiceServerTypeOK /\ TablesOK /\ ThreadsOK /\ CallsOK
BY DEF TypeOK, TablesOK, ThreadsOK, CallsOK

\* Nothing is sent and nothing waits at first.
LEMMA ServersInitial == Init => ServersOK
<1> SUFFICES ASSUME Init PROVE ServersOK
  OBVIOUS
<1>1. \A v \in Server : incoming_queue_[v] = <<>> /\ sent[v] = <<>> /\ delivered[v] = <<>> /\ outgoing_queue_[v] = <<>>
  BY DEF Init, ServiceServerInit
<1>2. /\ <<>> \in Seq(1..MaxPackets) /\ <<>> \in Seq(Packet) /\ <<>> \in Seq(Byte) /\ Len(<<>>) = 0
  BY EmptySeq
<1>3. Answers(<<>>, 0) = <<>>
  <2> DEFINE a == [n \in 1..0 |-> parse_packet(n, <<>>[n])]
  <2>1. a \in Seq(Seq(Byte)) /\ Len(a) = 0
    <3>1. 0 \in Nat /\ 0 <= Len(<<>>) /\ <<>> \in Seq(Packet)
      BY <1>2
    <3> QED BY <3>1, AnswersSeq, Zenon
  <2>2. Answers(<<>>, 0) = FlattenSeq(a)
    BY Zenon DEF Answers
  <2> HIDE DEF a
  <2>3. FlattenSeq(a) = a
    BY <2>1, Zenon DEF FlattenSeq
  <2>4. a = <<>>
    BY <2>1, EmptySeq
  <2> QED BY <2>2, <2>3, <2>4, Zenon
<1>4. <<>> \o <<>> = <<>>
  BY ConcatEmptySeq
<1>5. Len(<<>>) - Len(<<>>) = 0 /\ Len(<<>>) <= Len(<<>>) /\ \A k : k \notin 1..Len(<<>>)
  BY <1>2
<1>6. Ordered(<<>>, <<>>, <<>>, <<>>)
  BY <1>2, <1>3, <1>4, <1>5, Zenon DEF Ordered
<1>7. ServiceServerTypeOK
  BY <1>2 DEF Init, ServiceServerInit, ServiceServerTypeOK
<1> QED BY <1>1, <1>6, <1>7 DEF ServersOK

\* Whatever a step does to the bytes of one server keeps them in order.
LEMMA ServerChanged ==
  ASSUME ServersOK, NEW v \in Server, NEW q, NEW s, NEW d, NEW o, Ordered(q, s, d, o),
         incoming_queue_' = [incoming_queue_ EXCEPT ![v] = q],
         sent' = [sent EXCEPT ![v] = s],
         delivered' = [delivered EXCEPT ![v] = d],
         outgoing_queue_' = [outgoing_queue_ EXCEPT ![v] = o]
  PROVE  ServersOK'
<1>1. q \in Seq(1..MaxPackets) /\ s \in Seq(Packet) /\ d \in Seq(Byte) /\ o \in Seq(Byte)
  BY DEF Ordered
<1>2. ServiceServerTypeOK'
  BY <1>1 DEF ServersOK, ServiceServerTypeOK
<1>3. ASSUME NEW w \in Server
      PROVE  Ordered(incoming_queue_[w], sent[w], delivered[w], outgoing_queue_[w])'
  <2>1. CASE w = v
    <3>1. incoming_queue_'[w] = q /\ sent'[w] = s /\ delivered'[w] = d /\ outgoing_queue_'[w] = o
      BY <2>1 DEF ServersOK, ServiceServerTypeOK
    <3> QED BY <3>1, Zenon
  <2>2. CASE w # v
    <3>1. /\ incoming_queue_'[w] = incoming_queue_[w] /\ sent'[w] = sent[w]
          /\ delivered'[w] = delivered[w] /\ outgoing_queue_'[w] = outgoing_queue_[w]
      BY <2>2 DEF ServersOK, ServiceServerTypeOK
    <3>2. Ordered(incoming_queue_[w], sent[w], delivered[w], outgoing_queue_[w])
      BY Zenon DEF ServersOK
    <3> QED BY <3>1, <3>2, Zenon
  <2> QED BY <2>1, <2>2
<1> QED BY <1>2, <1>3, Zenon DEF ServersOK

\* A function with a value replaced by itself.
LEMMA Unchanging ==
  ASSUME ServersOK, NEW v \in Server
  PROVE  /\ incoming_queue_ = [incoming_queue_ EXCEPT ![v] = incoming_queue_[v]]
         /\ sent = [sent EXCEPT ![v] = sent[v]]
         /\ delivered = [delivered EXCEPT ![v] = delivered[v]]
         /\ outgoing_queue_ = [outgoing_queue_ EXCEPT ![v] = outgoing_queue_[v]]
BY DEF ServersOK, ServiceServerTypeOK

\* Only SendPush, RunFrame and RecvTake touch the bytes of a server.
LEMMA ServersStep == ServersOK /\ CallsOK /\ [Next]_vars => ServersOK'
<1> SUFFICES ASSUME ServersOK, CallsOK, [Next]_vars PROVE ServersOK'
  OBVIOUS
<1>1. ASSUME NEW s \in Socket, SendPush(s)
      PROVE  ServersOK'
  <2>1. PICK v \in Server, packet \in Packet : send(v, packet)
    <3>1. calls[s] \in Call /\ calls[s].op = "send"
      BY <1>1 DEF SendPush, CallsOK
    <3>2. send(calls[s].server, calls[s].packet)
      BY <1>1 DEF SendPush
    <3> QED BY <3>1, <3>2, CallFields, Zenon
  <2> DEFINE t == Append(sent[v], packet)
  <2>2. Ordered(Append(incoming_queue_[v], Len(t)), t, delivered[v], outgoing_queue_[v])
    <3>1. Len(sent[v]) < MaxPackets
      BY <2>1 DEF send
    <3>2. Ordered(incoming_queue_[v], sent[v], delivered[v], outgoing_queue_[v])
      BY Zenon DEF ServersOK
    <3> QED BY <3>1, <3>2, SendKeepsOrder, Zenon
  <2>3. sent' = [sent EXCEPT ![v] = t] /\ sent'[v] = t
    BY <2>1 DEF send, ServersOK, ServiceServerTypeOK
  <2>4. incoming_queue_' = [incoming_queue_ EXCEPT ![v] = Append(incoming_queue_[v], Len(t))]
    BY <2>1, <2>3, Zenon DEF send
  <2>5. delivered' = delivered /\ outgoing_queue_' = outgoing_queue_
    BY <2>1 DEF send
  <2> HIDE DEF t
  <2>6. /\ delivered' = [delivered EXCEPT ![v] = delivered[v]]
        /\ outgoing_queue_' = [outgoing_queue_ EXCEPT ![v] = outgoing_queue_[v]]
    BY <2>5, Unchanging
  <2> QED BY <2>2, <2>3, <2>4, <2>6, ServerChanged, Zenon
<1>2. ASSUME NEW v \in Server, RunFrame(v)
      PROVE  ServersOK'
  <2>1. CASE incoming_queue_[v] = <<>>
    BY <1>2, <2>1 DEF RunFrame, run_frame, serverVars, ServersOK, ServiceServerTypeOK
  <2>2. CASE incoming_queue_[v] # <<>>
    <3> DEFINE n == Head(incoming_queue_[v])
    <3>1. /\ incoming_queue_' = [incoming_queue_ EXCEPT ![v] = Tail(@)]
          /\ outgoing_queue_' = [outgoing_queue_ EXCEPT ![v] = @ \o parse_packet(n, sent[v][n])]
          /\ sent' = sent /\ delivered' = delivered
      BY <1>2, <2>2, Zenon DEF RunFrame, run_frame
    <3>2. Ordered(Tail(incoming_queue_[v]), sent[v], delivered[v],
                  outgoing_queue_[v] \o parse_packet(n, sent[v][n]))
      BY <2>2, FrameKeepsOrder, Zenon DEF ServersOK
    <3> HIDE DEF n
    <3>3. /\ sent' = [sent EXCEPT ![v] = sent[v]]
          /\ delivered' = [delivered EXCEPT ![v] = delivered[v]]
      BY <3>1, Unchanging
    <3>4. /\ incoming_queue_' = [incoming_queue_ EXCEPT ![v] = Tail(incoming_queue_[v])]
          /\ outgoing_queue_' = [outgoing_queue_ EXCEPT ![v] =
               outgoing_queue_[v] \o parse_packet(n, sent[v][n])]
      BY <3>1, Zenon
    <3> QED BY <3>2, <3>3, <3>4, ServerChanged, Zenon
  <2> QED BY <2>1, <2>2
<1>3. ASSUME NEW s \in Socket, NEW len \in 1..MaxRead, RecvTake(s, len)
      PROVE  ServersOK'
  <2>1. PICK v \in Server : recv(v, len)
    <3>1. calls[s] \in Call /\ calls[s].op \in {"poll", "take"}
      BY <1>3 DEF RecvTake, CallsOK
    <3>2. recv(calls[s].server, len)
      BY <1>3 DEF RecvTake
    <3> QED BY <3>1, <3>2, CallFields, Zenon
  <2> DEFINE n == Min({len, Len(outgoing_queue_[v])})
  <2>2. n \in 0..Len(outgoing_queue_[v])
    <3>1. len \in Nat
      BY DemonwareAssumption
    <3>2. Len(outgoing_queue_[v]) \in Nat
      BY LenProperties DEF ServersOK, ServiceServerTypeOK
    <3>3. n \in Nat /\ n <= Len(outgoing_queue_[v])
      BY <3>1, <3>2, MinOfTwo
    <3> HIDE DEF n
    <3> QED BY <3>2, <3>3
  <2>3. /\ delivered' = [delivered EXCEPT ![v] = @ \o SubSeq(outgoing_queue_[v], 1, n)]
        /\ outgoing_queue_' = [outgoing_queue_ EXCEPT ![v] = SubSeq(@, n + 1, Len(@))]
        /\ incoming_queue_' = incoming_queue_ /\ sent' = sent
    BY <2>1, Zenon DEF recv
  <2> HIDE DEF n
  <2>4. Ordered(incoming_queue_[v], sent[v], delivered[v] \o SubSeq(outgoing_queue_[v], 1, n),
                SubSeq(outgoing_queue_[v], n + 1, Len(outgoing_queue_[v])))
    BY <2>2, RecvKeepsOrder, Zenon DEF ServersOK
  <2>5. /\ incoming_queue_' = [incoming_queue_ EXCEPT ![v] = incoming_queue_[v]]
        /\ sent' = [sent EXCEPT ![v] = sent[v]]
    BY <2>3, Unchanging
  <2>6. /\ delivered' = [delivered EXCEPT ![v] = delivered[v] \o SubSeq(outgoing_queue_[v], 1, n)]
        /\ outgoing_queue_' = [outgoing_queue_ EXCEPT ![v] =
             SubSeq(outgoing_queue_[v], n + 1, Len(outgoing_queue_[v]))]
    BY <2>3, Zenon
  <2> QED BY <2>4, <2>5, <2>6, ServerChanged, Zenon
<1>4. ASSUME UNCHANGED serverVars
      PROVE  ServersOK'
  BY <1>4, Zenon DEF serverVars, ServersOK, ServiceServerTypeOK
<1>5. ASSUME NEW s \in Socket,
             \/ \E v \in Server : Connect(s, v)
             \/ Close(s)
             \/ \E blocking \in BOOLEAN : Ioctl(s, blocking)
             \/ \E packet \in Packet : Send(s, packet)
             \/ Recv(s) \/ RecvMode(s) \/ RecvPoll(s)
      PROVE  ServersOK'
  BY <1>4, <1>5, Zenon DEF Connect, Close, Ioctl, Send, Recv, RecvMode, RecvPoll
<1>6. ASSUME \/ ThreadStart \/ ThreadTest \/ ThreadLock \/ ThreadUnlock \/ ThreadWake
             \/ PreDestroy \/ Join
      PROVE  ServersOK'
  BY <1>4, <1>6, Zenon DEF ThreadStart, ThreadTest, ThreadLock, ThreadUnlock, ThreadWake, PreDestroy, Join
<1>7. CASE UNCHANGED vars
  BY <1>4, <1>7, Zenon DEF vars
<1> QED BY <1>1, <1>2, <1>3, <1>5, <1>6, <1>7, Zenon DEF Next, Game, CallStep, ServerThread

\* No call is under way at first.
LEMMA CallsInitial == Init => TablesOK /\ ThreadsOK /\ CallsOK
<1> SUFFICES ASSUME Init PROVE TablesOK /\ ThreadsOK /\ CallsOK
  OBVIOUS
<1>1. Idle \in Call
  BY CallIs
<1> QED BY <1>1 DEF Init, TablesOK, ThreadsOK, CallsOK

\* Every new call is one, of a server that the socket is linked to.
LEMMA CallsStep == TablesOK /\ ThreadsOK /\ CallsOK /\ [Next]_vars => TablesOK' /\ ThreadsOK' /\ CallsOK'
<1> SUFFICES ASSUME TablesOK, ThreadsOK, CallsOK, [Next]_vars
             PROVE  TablesOK' /\ ThreadsOK' /\ CallsOK'
  OBVIOUS
<1>1. ASSUME NEW s \in Socket, NEW call \in Call, calls' = [calls EXCEPT ![s] = call],
             readers' = readers, UNCHANGED <<tableVars, threadVars>>
      PROVE  TablesOK' /\ ThreadsOK' /\ CallsOK'
  BY <1>1 DEF TablesOK, ThreadsOK, CallsOK, tableVars, threadVars
<1>2. Idle \in Call
  BY CallIs
<1>3. ASSUME NEW s \in Socket, NEW v \in Server, Connect(s, v)
      PROVE  TablesOK' /\ ThreadsOK' /\ CallsOK'
  BY <1>3 DEF Connect, TablesOK, ThreadsOK, CallsOK, threadVars, callVars
<1>4. ASSUME NEW s \in Socket, Close(s)
      PROVE  TablesOK' /\ ThreadsOK' /\ CallsOK'
  BY <1>4 DEF Close, TablesOK, ThreadsOK, CallsOK, threadVars, callVars
<1>5. ASSUME NEW s \in Socket, NEW blocking \in BOOLEAN, Ioctl(s, blocking)
      PROVE  TablesOK' /\ ThreadsOK' /\ CallsOK'
  BY <1>5 DEF Ioctl, TablesOK, ThreadsOK, CallsOK, threadVars, callVars
<1>6. ASSUME NEW s \in Socket, NEW packet \in Packet, Send(s, packet)
      PROVE  TablesOK' /\ ThreadsOK' /\ CallsOK'
  <2>1. socket_links[s] \in Server
    BY <1>6 DEF Send, TablesOK
  <2>2. [op |-> "send", server |-> socket_links[s], packet |-> packet] \in Call
    BY <2>1, CallIs DEF SendRequest
  <2> QED BY <1>1, <1>6, <2>2, Zenon DEF Send
<1>7. ASSUME NEW s \in Socket, SendPush(s)
      PROVE  TablesOK' /\ ThreadsOK' /\ CallsOK'
  BY <1>1, <1>2, <1>7, Zenon DEF SendPush
<1>8. ASSUME NEW s \in Socket, Recv(s)
      PROVE  TablesOK' /\ ThreadsOK' /\ CallsOK'
  <2>1. socket_links[s] \in Server
    BY <1>8 DEF Recv, TablesOK
  <2>2. [op |-> "find", server |-> socket_links[s]] \in Call
    BY <2>1, CallIs DEF FindRequest
  <2>3. CallsOK'
    BY <1>8, <2>1, <2>2 DEF Recv, CallsOK
  <2> QED BY <1>8, <2>3 DEF Recv, TablesOK, ThreadsOK, tableVars, threadVars
<1>9. ASSUME NEW s \in Socket, RecvMode(s)
      PROVE  TablesOK' /\ ThreadsOK' /\ CallsOK'
  <2>1. calls[s] \in Call /\ calls[s].op = "find" /\ blocking_sockets[s] \in BOOLEAN
    BY <1>9 DEF RecvMode, CallsOK, TablesOK
  <2>2. calls[s].server \in Server
    BY <2>1, CallFields, Zenon
  <2>3. [op |-> "poll", server |-> calls[s].server, blocking |-> blocking_sockets[s]] \in Call
    BY <2>1, <2>2, CallIs DEF ReadRequest
  <2> QED BY <1>1, <1>9, <2>3, Zenon DEF RecvMode
<1>10. ASSUME NEW s \in Socket, RecvPoll(s)
       PROVE  TablesOK' /\ ThreadsOK' /\ CallsOK'
  <2>1. calls[s] \in ReadRequest
    BY <1>10, CallFields DEF RecvPoll, CallsOK
  <2>2. [calls[s] EXCEPT !.op = "take"] \in Call
    <3>1. [calls[s] EXCEPT !.op = "take"] \in ReadRequest
      BY <2>1 DEF ReadRequest
    <3> QED BY <3>1, CallIs
  <2>3. calls' = [calls EXCEPT ![s].op = "take"] => calls' = [calls EXCEPT ![s] = [calls[s] EXCEPT !.op = "take"]]
    OBVIOUS
  <2> QED BY <1>1, <1>2, <1>10, <2>2, <2>3, Zenon DEF RecvPoll
<1>11. ASSUME NEW s \in Socket, NEW len \in 1..MaxRead, RecvTake(s, len)
       PROVE  TablesOK' /\ ThreadsOK' /\ CallsOK'
  BY <1>1, <1>2, <1>11, Zenon DEF RecvTake
<1>12. CASE ThreadStart
  BY <1>12 DEF ThreadStart, TablesOK, ThreadsOK, CallsOK, tableVars, callVars
<1>13. CASE ThreadTest
  <2>1. message_thread' \in {"exited", "locking"}
    BY <1>13, Zenon DEF ThreadTest
  <2> QED BY <1>13, <2>1 DEF ThreadTest, TablesOK, ThreadsOK, CallsOK, tableVars, callVars
<1>14. CASE ThreadLock
  <2>1. visiting' \subseteq Server
    BY <1>14, Zenon DEF ThreadLock
  <2> QED BY <1>14, <2>1 DEF ThreadLock, TablesOK, ThreadsOK, CallsOK, tableVars, callVars
<1>15. ASSUME NEW v \in Server, RunFrame(v)
       PROVE  TablesOK' /\ ThreadsOK' /\ CallsOK'
  BY <1>15 DEF RunFrame, TablesOK, ThreadsOK, CallsOK, tableVars, callVars
<1>16. CASE ThreadUnlock
  BY <1>16 DEF ThreadUnlock, TablesOK, ThreadsOK, CallsOK, tableVars, callVars
<1>17. CASE ThreadWake
  BY <1>17 DEF ThreadWake, TablesOK, ThreadsOK, CallsOK, tableVars, callVars
<1>18. CASE PreDestroy
  BY <1>18 DEF PreDestroy, TablesOK, ThreadsOK, CallsOK, tableVars, callVars
<1>19. CASE Join
  BY <1>19 DEF Join, TablesOK, ThreadsOK, CallsOK, callVars
<1>20. CASE UNCHANGED vars
  BY <1>20 DEF vars, TablesOK, ThreadsOK, CallsOK, tableVars, threadVars, callVars
<1> QED
  BY <1>3, <1>4, <1>5, <1>6, <1>7, <1>8, <1>9, <1>10, <1>11, <1>12, <1>13, <1>14, <1>15, <1>16,
     <1>17, <1>18, <1>19, <1>20, Zenon
  DEF Next, Game, CallStep, ServerThread

\* The inductive invariant.
DemonwareInv == ServersOK /\ TablesOK /\ ThreadsOK /\ CallsOK

\* The inductive invariant.
LEMMA DemonwareInvariant == Spec => []DemonwareInv
<1>1. Init => DemonwareInv
  BY ServersInitial, CallsInitial DEF DemonwareInv
<1>2. DemonwareInv /\ [Next]_vars => DemonwareInv'
  BY ServersStep, CallsStep, Zenon DEF DemonwareInv
<1> QED BY <1>1, <1>2, PTL DEF Spec

\* For any servers, sockets, packets and buffers: what the state of the emulated
\* backend is made of.
THEOREM DemonwareTypes == Spec => []TypeOK
<1>1. DemonwareInv => TypeOK
  BY TypesAre DEF DemonwareInv, ServersOK
<1> QED BY <1>1, DemonwareInvariant, PTL

\* For any servers, sockets, packets and buffers: the bytes a server has given to
\* recv, and those it still holds, are the answers to the packets it has taken
\* from its queue, in the order of the requests (service_server.cpp).
THEOREM ServiceAnswers == Spec => []AnswersInOrder
<1>1. ASSUME DemonwareInv PROVE AnswersInOrder
  <2> SUFFICES ASSUME NEW v \in Server
               PROVE  LET handled == Len(sent[v]) - Len(incoming_queue_[v]) IN
                      /\ incoming_queue_[v] = [k \in 1..Len(incoming_queue_[v]) |-> handled + k]
                      /\ delivered[v] \o outgoing_queue_[v] =
                           FlattenSeq([n \in 1..handled |-> parse_packet(n, sent[v][n])])
    BY Zenon DEF AnswersInOrder
  <2> DEFINE q == incoming_queue_[v]
             h == Len(sent[v]) - Len(q)
  <2>1. Ordered(q, sent[v], delivered[v], outgoing_queue_[v])
    BY <1>1, Zenon DEF DemonwareInv, ServersOK
  <2>2. delivered[v] \o outgoing_queue_[v] = FlattenSeq([n \in 1..h |-> parse_packet(n, sent[v][n])])
    BY <2>1, Zenon DEF Ordered, Answers
  <2>3. q = [k \in 1..Len(q) |-> h + k]
    <3>1. q \in Seq(1..MaxPackets) /\ \A k \in 1..Len(q) : q[k] = h + k
      BY <2>1, Zenon DEF Ordered
    <3> HIDE DEF q, h
    <3>2. q = [k \in 1..Len(q) |-> q[k]]
      BY <3>1, LenProperties
    <3> QED BY <3>1, <3>2
  <2> QED BY <2>2, <2>3, Zenon
<1> QED BY <1>1, DemonwareInvariant, PTL

\* No socket can be linked once servers is empty: what makes QuietWhenDestroyed
\* inductive.
Quiet == QuietWhenDestroyed /\ (destroyer = "done" => ~registered)

\* For any servers and sockets: once pre_destroy is done the thread has ended and
\* no socket is linked to a server (demonware.cpp).
THEOREM QuietForEver == Spec => []QuietWhenDestroyed
<1>1. Init => Quiet
  BY DEF Init, Quiet, QuietWhenDestroyed
<1>2. CallsOK /\ TablesOK /\ Quiet /\ [Next]_vars => Quiet'
  <2> SUFFICES ASSUME CallsOK, TablesOK, Quiet, [Next]_vars, destroyer' = "done"
               PROVE  message_thread' = "exited" /\ ~registered' /\ \A s \in Socket : socket_links'[s] = None
    BY DEF Quiet, QuietWhenDestroyed
  <2>1. CASE Join
    BY <2>1 DEF Join
  <2>2. ASSUME ~Join PROVE destroyer = "done"
    <3>1. CASE UNCHANGED vars
      BY <3>1 DEF vars, threadVars
    <3>2. ASSUME NEW s \in Socket, Game(s) PROVE destroyer' = destroyer
      BY <3>2, Zenon DEF Game, CallStep, Connect, Close, Ioctl, Send, Recv, SendPush, RecvMode, RecvPoll, RecvTake, threadVars
    <3>3. CASE ServerThread
      BY <3>3, Zenon DEF ServerThread, ThreadStart, ThreadTest, ThreadLock, ThreadUnlock, ThreadWake, RunFrame
    <3>4. CASE PreDestroy
      BY <3>4 DEF PreDestroy
    <3> QED BY <2>2, <3>1, <3>2, <3>3, <3>4, Zenon DEF Next
  <2>3. ASSUME destroyer = "done" PROVE message_thread = "exited" /\ ~registered /\ \A s \in Socket : socket_links[s] = None
    BY <2>3 DEF Quiet, QuietWhenDestroyed
  <2>4. ASSUME ~Join, UNCHANGED tableVars, message_thread' = message_thread
        PROVE  message_thread' = "exited" /\ ~registered' /\ \A s \in Socket : socket_links'[s] = None
    BY <2>2, <2>3, <2>4, Zenon DEF tableVars
  <2>5. ASSUME NEW s \in Socket, Game(s), ~Join
        PROVE  message_thread' = "exited" /\ ~registered' /\ \A r \in Socket : socket_links'[r] = None
    <3>1. CASE Close(s)
      BY <2>2, <2>3, <2>5, <3>1 DEF Close, threadVars, TablesOK
    <3>2. CASE \E blocking \in BOOLEAN : Ioctl(s, blocking)
      BY <2>2, <2>3, <2>5, <3>2 DEF Ioctl, threadVars
    <3>3. CASE UNCHANGED <<tableVars, threadVars>>
      BY <2>4, <2>5, <3>3 DEF threadVars
    <3>4. \A v \in Server : ~Connect(s, v)
      BY <2>2, <2>3, <2>5, Zenon DEF Connect
    <3> QED
      BY <2>5, <3>1, <3>2, <3>3, <3>4, Zenon
      DEF Game, CallStep, Send, Recv, SendPush, RecvMode, RecvPoll, RecvTake
  <2>6. ASSUME ServerThread, ~Join
        PROVE  message_thread' = "exited" /\ ~registered' /\ \A r \in Socket : socket_links'[r] = None
    <3>1. message_thread = "exited"
      BY <2>2, <2>3, <2>6, Zenon
    <3>2. CASE \E v \in Server : RunFrame(v)
      BY <2>4, <2>6, <3>2, Zenon DEF RunFrame
    <3> QED BY <2>6, <3>1, <3>2 DEF ServerThread, ThreadStart, ThreadTest, ThreadLock, ThreadUnlock, ThreadWake
  <2>7. ASSUME PreDestroy, ~Join PROVE FALSE
    BY <2>2, <2>7 DEF PreDestroy
  <2>8. CASE UNCHANGED vars /\ ~Join
    BY <2>4, <2>8 DEF vars, threadVars
  <2> QED BY <2>1, <2>5, <2>6, <2>7, <2>8, Zenon DEF Next
<1>3. Quiet => QuietWhenDestroyed
  BY DEF Quiet
<1>4. DemonwareInv => CallsOK /\ TablesOK
  BY DEF DemonwareInv
<1> QED BY <1>1, <1>2, <1>3, <1>4, DemonwareInvariant, PTL DEF Spec

Reading == {"find", "poll", "take"}

\* A socket that is about to read from a server is one of its readers.
ReadersKnown == \A s \in Socket : calls[s].op \in Reading => s \in readers[calls[s].server]

\* The inductive form of SoleReaderFindsBytes.
SoleInv == ReadersKnown /\ SoleReaderFindsBytes

\* Nobody reads at first.
LEMMA SoleInitial == Init => SoleInv
BY DEF Init, SoleInv, ReadersKnown, SoleReaderFindsBytes, SoleReader, Reading, Idle

\* A step of some sockets, or of none, that takes no bytes from a server that
\* only others read from.
LEMMA SoleKept ==
  ASSUME CallsOK, CallsOK', SoleInv,
         \A v \in Server : readers[v] \subseteq readers'[v],
         NEW movers \in SUBSET Socket,
         \A r \in Socket : r \notin movers => calls'[r] = calls[r],
         \A s \in movers : calls'[s].op \in Reading => s \in readers'[calls'[s].server],
         \A s \in movers : calls'[s].op = "take" => SeesBytes(calls[s].server)',
         \A v \in Server : SeesBytes(v) => SeesBytes(v)' \/ \E s \in movers : s \in readers[v]
  PROVE  SoleInv'
<1>1. ASSUME NEW r \in Socket, calls'[r].op \in Reading
      PROVE  r \in readers'[calls'[r].server]
  <2>1. CASE r \in movers
    BY <1>1, <2>1
  <2>2. CASE r \notin movers
    <3>1. calls'[r] = calls[r]
      BY <2>2
    <3>2. r \in readers[calls[r].server]
      BY <1>1, <3>1, Zenon DEF SoleInv, ReadersKnown
    <3>3. calls[r].server \in Server
      <4>1. calls[r] \in Call /\ calls[r].op \in Reading
        BY <1>1, <3>1 DEF CallsOK
      <4> QED BY <4>1, CallFields DEF Reading
    <3> QED BY <3>1, <3>2, <3>3
  <2> QED BY <2>1, <2>2
<1>2. ASSUME NEW r \in Socket, SoleReader(r)', calls'[r].op = "take"
      PROVE  SeesBytes(calls[r].server)'
  <2>1. CASE r \in movers
    BY <1>2, <2>1, Zenon
  <2>2. CASE r \notin movers
    <3>1. calls'[r] = calls[r] /\ readers'[calls'[r].server] = {r}
      BY <1>2, <2>2 DEF SoleReader
    <3>2. PICK v \in Server : v = calls[r].server
      <4>1. calls[r] \in Call /\ calls[r].op = "take"
        BY <1>2, <3>1 DEF CallsOK
      <4> QED BY <4>1, CallFields
    <3>3. r \in readers[v] /\ readers'[v] = {r} /\ readers[v] \subseteq readers'[v]
      <4>1. calls[r].op \in Reading
        BY <1>2, <3>1 DEF Reading
      <4> QED BY <3>1, <3>2, <4>1 DEF SoleInv, ReadersKnown
    <3>4. readers[v] = {r} /\ ~ \E s \in movers : s \in readers[v]
      BY <2>2, <3>3
    <3>5. SeesBytes(v)
      <4>1. SoleReader(r) /\ calls[r].op = "take"
        BY <1>2, <3>1, <3>2, <3>4 DEF SoleReader
      <4> QED BY <3>2, <4>1, Zenon DEF SoleInv, SoleReaderFindsBytes
    <3>6. SeesBytes(v)'
      BY <3>4, <3>5, Zenon
    <3>7. calls'[r].server = v
      BY <3>1, <3>2
    <3> QED BY <3>6, <3>7, Zenon DEF SeesBytes
  <2> QED BY <2>1, <2>2
<1> QED BY <1>1, <1>2, Zenon DEF SoleInv, ReadersKnown, SoleReaderFindsBytes

\* The step of one socket.
LEMMA OneMover ==
  ASSUME CallsOK, CallsOK', SoleInv,
         \A v \in Server : readers[v] \subseteq readers'[v],
         NEW s \in Socket,
         \A r \in Socket : r # s => calls'[r] = calls[r],
         calls'[s].op \in Reading => s \in readers'[calls'[s].server],
         calls'[s].op = "take" => SeesBytes(calls[s].server)',
         \A v \in Server : SeesBytes(v) => SeesBytes(v)' \/ s \in readers[v]
  PROVE  SoleInv'
<1>1. {s} \in SUBSET Socket
  OBVIOUS
<1>2. \A r \in Socket : r \notin {s} => calls'[r] = calls[r]
  OBVIOUS
<1>3. \A t \in {s} : calls'[t].op \in Reading => t \in readers'[calls'[t].server]
  OBVIOUS
<1>4. \A t \in {s} : calls'[t].op = "take" => SeesBytes(calls[t].server)'
  OBVIOUS
<1>5. \A v \in Server : SeesBytes(v) => SeesBytes(v)' \/ \E t \in {s} : t \in readers[v]
  OBVIOUS
<1> QED BY <1>1, <1>2, <1>3, <1>4, <1>5, SoleKept

\* One step per action.
LEMMA SoleStep == DemonwareInv /\ CallsOK' /\ SoleInv /\ [Next]_vars => SoleInv'
<1> SUFFICES ASSUME DemonwareInv, CallsOK', SoleInv, [Next]_vars PROVE SoleInv'
  OBVIOUS
<1>1. CallsOK /\ ServersOK
  BY DEF DemonwareInv
<1>2. \A s \in Socket : calls[s] \in Call
  BY <1>1 DEF CallsOK
<1>3. ASSUME readers' = readers, outgoing_queue_' = outgoing_queue_
      PROVE  /\ \A v \in Server : readers[v] \subseteq readers'[v]
             /\ \A v \in Server : SeesBytes(v)' = SeesBytes(v)
  BY <1>3 DEF SeesBytes
<1>4. ASSUME NEW s \in Socket, readers' = readers, outgoing_queue_' = outgoing_queue_,
             NEW call \in Call, calls' = [calls EXCEPT ![s] = call],
             call.op \in Reading => s \in readers[call.server],
             call.op = "take" => SeesBytes(call.server)
      PROVE  SoleInv'
  <2>1. calls'[s] = call /\ \A r \in Socket : r # s => calls'[r] = calls[r]
    BY <1>1, <1>4 DEF CallsOK
  <2>2. call.op = "take" => SeesBytes(calls[s].server)'
    BY <1>4, <2>1 DEF SeesBytes
  <2> QED BY <1>1, <1>3, <1>4, <2>1, <2>2, OneMover, Zenon
<1>5. ASSUME calls' = calls, readers' = readers,
             \A v \in Server : SeesBytes(v) => SeesBytes(v)'
      PROVE  SoleInv'
  <2>1. {} \in SUBSET Socket
    OBVIOUS
  <2>2. \A r \in Socket : calls'[r] = calls[r]
    BY <1>5
  <2>3. \A v \in Server : readers[v] \subseteq readers'[v]
    BY <1>5
  <2> QED BY <1>1, <1>5, <2>1, <2>2, <2>3, SoleKept, Zenon
<1>6. ASSUME outgoing_queue_' = outgoing_queue_
      PROVE  \A v \in Server : SeesBytes(v) => SeesBytes(v)'
  BY <1>6 DEF SeesBytes
<1>7. Idle \in Call /\ Idle.op \notin Reading /\ Idle.op # "take"
  BY CallIs DEF Idle, Reading
<1>8. ASSUME NEW s \in Socket, NEW packet \in Packet, Send(s, packet)
      PROVE  SoleInv'
  <2> DEFINE call == [op |-> "send", server |-> socket_links[s], packet |-> packet]
  <2>1. calls' = [calls EXCEPT ![s] = call] /\ readers' = readers /\ outgoing_queue_' = outgoing_queue_
    BY <1>8 DEF Send, serverVars
  <2>2. call.op \notin Reading /\ call.op # "take" /\ calls'[s] = call
    BY <2>1, <1>1 DEF Reading, CallsOK
  <2>3. call \in Call
    BY <2>2 DEF CallsOK
  <2> HIDE DEF call
  <2> QED BY <1>4, <2>1, <2>2, <2>3, Zenon
<1>9. ASSUME NEW s \in Socket, SendPush(s)
      PROVE  SoleInv'
  BY <1>4, <1>7, <1>9, Zenon DEF SendPush, send
<1>10. ASSUME NEW s \in Socket, Recv(s)
       PROVE  SoleInv'
  <2> DEFINE v == socket_links[s]
             call == [op |-> "find", server |-> v]
  <2>1. v \in Server
    BY <1>10 DEF Recv, DemonwareInv, TablesOK
  <2>2. /\ calls' = [calls EXCEPT ![s] = call]
        /\ readers' = [readers EXCEPT ![v] = readers[v] \cup {s}]
        /\ outgoing_queue_' = outgoing_queue_
    BY <1>10 DEF Recv, serverVars
  <2> HIDE DEF v
  <2>3. calls'[s] = call /\ \A r \in Socket : r # s => calls'[r] = calls[r]
    BY <1>1, <2>2 DEF CallsOK
  <2>4. \A w \in Server : readers[w] \subseteq readers'[w]
    BY <1>1, <2>2 DEF CallsOK
  <2>5. s \in readers'[v]
    BY <1>1, <2>1, <2>2 DEF CallsOK
  <2>6. calls'[s].server = v /\ calls'[s].op # "take"
    BY <2>3
  <2> QED BY <1>1, <1>6, <2>2, <2>3, <2>4, <2>5, <2>6, OneMover, Zenon
<1>11. ASSUME NEW s \in Socket, RecvMode(s)
       PROVE  SoleInv'
  <2> DEFINE call == [op |-> "poll", server |-> calls[s].server, blocking |-> blocking_sockets[s]]
  <2>1. calls' = [calls EXCEPT ![s] = call] /\ readers' = readers /\ outgoing_queue_' = outgoing_queue_
    BY <1>11 DEF RecvMode, serverVars
  <2>2. s \in readers[calls[s].server]
    BY <1>11 DEF RecvMode, SoleInv, ReadersKnown, Reading
  <2>3. call.op # "take" /\ call.server = calls[s].server /\ calls'[s] = call
    BY <2>1, <1>1 DEF CallsOK
  <2>4. call \in Call
    BY <2>3 DEF CallsOK
  <2> HIDE DEF call
  <2> QED BY <1>4, <2>1, <2>2, <2>3, <2>4, Zenon
<1>12. ASSUME NEW s \in Socket, RecvPoll(s)
       PROVE  SoleInv'
  <2>1. readers' = readers /\ outgoing_queue_' = outgoing_queue_ /\ calls[s].op = "poll"
    BY <1>12 DEF RecvPoll, serverVars
  <2>2. CASE calls' = [calls EXCEPT ![s] = Idle]
    BY <1>4, <1>7, <2>1, <2>2, Zenon
  <2>3. CASE calls' = [calls EXCEPT ![s].op = "take"] /\ SeesBytes(calls[s].server)
    <3> DEFINE call == [calls[s] EXCEPT !.op = "take"]
    <3>1. calls' = [calls EXCEPT ![s] = call] /\ calls'[s] = call
      BY <2>3, <1>1 DEF CallsOK
    <3>2. call \in Call
      BY <3>1 DEF CallsOK
    <3>3. call.server = calls[s].server
      <4>1. calls[s] \in ReadRequest
        BY <1>2, <2>1, CallFields
      <4> QED BY <4>1 DEF ReadRequest
    <3>4. s \in readers[calls[s].server]
      BY <2>1 DEF SoleInv, ReadersKnown, Reading
    <3> HIDE DEF call
    <3> QED BY <1>4, <2>1, <2>3, <3>1, <3>2, <3>3, <3>4, Zenon
  <2> QED BY <1>12, <2>2, <2>3, Zenon DEF RecvPoll
<1>13. ASSUME NEW s \in Socket, NEW len \in 1..MaxRead, RecvTake(s, len)
       PROVE  SoleInv'
  <2>1. PICK v \in Server : v = calls[s].server
    <3>1. calls[s].op = "take"
      BY <1>13 DEF RecvTake
    <3> QED BY <1>2, <3>1, CallFields
  <2>2. s \in readers[v]
    BY <1>13, <2>1 DEF RecvTake, SoleInv, ReadersKnown, Reading
  <2>3. recv(v, len) /\ calls' = [calls EXCEPT ![s] = Idle] /\ readers' = readers
    BY <1>13, <2>1 DEF RecvTake
  <2>4. \A w \in Server : w # v => outgoing_queue_'[w] = outgoing_queue_[w]
    BY <1>1, <2>3 DEF recv, ServersOK, ServiceServerTypeOK
  <2>5. \A w \in Server : SeesBytes(w) => SeesBytes(w)' \/ s \in readers[w]
    BY <2>2, <2>4 DEF SeesBytes
  <2>6. calls'[s] = Idle /\ \A r \in Socket : r # s => calls'[r] = calls[r]
    BY <1>1, <2>3 DEF CallsOK
  <2>7. \A w \in Server : readers[w] \subseteq readers'[w]
    BY <2>3
  <2> QED BY <1>1, <1>7, <2>5, <2>6, <2>7, OneMover, Zenon
<1>14. ASSUME NEW v \in Server, RunFrame(v)
       PROVE  SoleInv'
  <2>1. CASE incoming_queue_[v] = <<>>
    BY <1>5, <1>6, <1>14, <2>1, Zenon DEF RunFrame, run_frame, serverVars, callVars
  <2>2. CASE incoming_queue_[v] # <<>>
    <3>1. PICK p : outgoing_queue_' = [outgoing_queue_ EXCEPT ![v] = outgoing_queue_[v] \o p]
                   /\ p = parse_packet(Head(incoming_queue_[v]), sent[v][Head(incoming_queue_[v])])
      BY <1>14, <2>2, Zenon DEF RunFrame, run_frame
    <3>2. p \in Seq(Byte) /\ outgoing_queue_[v] \in Seq(Byte)
      <4>1. Ordered(incoming_queue_[v], sent[v], delivered[v], outgoing_queue_[v])
        BY <1>1, Zenon DEF ServersOK
      <4>2. LET q == incoming_queue_[v]
                s == sent[v]
            IN q \in Seq(1..MaxPackets) /\ s \in Seq(Packet) /\ outgoing_queue_[v] \in Seq(Byte)
               /\ Len(q) <= Len(s) /\ \A k \in 1..Len(q) : q[k] = (Len(s) - Len(q)) + k
        BY <4>1, Zenon DEF Ordered
      <4>3. PICK q \in Seq(1..MaxPackets), s \in Seq(Packet) :
              /\ q = incoming_queue_[v] /\ s = sent[v]
              /\ Len(q) <= Len(s) /\ \A k \in 1..Len(q) : q[k] = (Len(s) - Len(q)) + k
        BY <4>2, Zenon
      <4>4. Len(q) \in Nat /\ Len(q) # 0 /\ Len(s) \in Nat
        BY <2>2, <4>3, LenProperties, EmptySeq
      <4>5. Head(q) = q[1] /\ 1 \in 1..Len(q)
        BY <4>4
      <4>6. Head(q) = (Len(s) - Len(q)) + 1
        BY <4>3, <4>5, Zenon
      <4>7. Head(q) \in Nat /\ Head(q) \in 1..Len(s)
        <5>1. PICK n : n = Head(q)
          OBVIOUS
        <5>2. Len(q) <= Len(s) /\ n = (Len(s) - Len(q)) + 1
          BY <4>3, <4>6, <5>1, Zenon
        <5>3. n \in Nat /\ n \in 1..Len(s)
          BY <4>4, <5>2
        <5> QED BY <5>1, <5>3, Zenon
      <4>8. s[Head(q)] \in Packet
        BY <4>7, ElementOfSeq
      <4>9. parse_packet(Head(q), s[Head(q)]) \in Seq(Byte)
        BY <4>7, <4>8, ParseType, Zenon
      <4> QED BY <3>1, <4>2, <4>3, <4>9, Zenon
    <3>3. ASSUME NEW w \in Server, SeesBytes(w) PROVE SeesBytes(w)'
      <4>1. CASE w # v
        BY <1>1, <3>1, <3>3, <4>1 DEF SeesBytes, ServersOK, ServiceServerTypeOK
      <4>2. CASE w = v
        <5>1. outgoing_queue_'[w] = outgoing_queue_[v] \o p
          BY <1>1, <3>1, <4>2, Zenon DEF ServersOK, ServiceServerTypeOK
        <5>2. outgoing_queue_[v] # <<>>
          BY <3>3, <4>2 DEF SeesBytes
        <5>3. \A x, y \in Seq(Byte) : x \o y = <<>> => x = <<>>
          BY ConcatEqualIffEmpty
        <5> QED BY <3>2, <5>1, <5>2, <5>3, Zenon DEF SeesBytes
      <4> QED BY <4>1, <4>2
    <3> QED BY <1>5, <1>14, <3>3, Zenon DEF RunFrame, callVars
  <2> QED BY <2>1, <2>2
<1>15. ASSUME UNCHANGED <<serverVars, callVars>>
       PROVE  SoleInv'
  BY <1>5, <1>6, <1>15, Zenon DEF serverVars, callVars
<1>16. ASSUME NEW s \in Socket,
              \/ \E v \in Server : Connect(s, v)
              \/ Close(s)
              \/ \E blocking \in BOOLEAN : Ioctl(s, blocking)
       PROVE  SoleInv'
  BY <1>15, <1>16, Zenon DEF Connect, Close, Ioctl
<1>17. ASSUME \/ ThreadStart \/ ThreadTest \/ ThreadLock \/ ThreadUnlock \/ ThreadWake
              \/ PreDestroy \/ Join
       PROVE  SoleInv'
  BY <1>15, <1>17, Zenon DEF ThreadStart, ThreadTest, ThreadLock, ThreadUnlock, ThreadWake, PreDestroy, Join
<1>18. CASE UNCHANGED vars
  BY <1>15, <1>18, Zenon DEF vars
<1> QED
  BY <1>8, <1>9, <1>10, <1>11, <1>12, <1>13, <1>14, <1>16, <1>17, <1>18, Zenon
  DEF Next, Game, CallStep, ServerThread

\* For any servers and sockets: a recv that saw bytes finds them under the lock, if
\* its socket is the only one that reads from the server (demonware.cpp,
\* service_server.cpp).
THEOREM SoleReaders == Spec => []SoleReaderFindsBytes
<1>1. SoleInv => SoleReaderFindsBytes
  BY DEF SoleInv
<1>2. DemonwareInv => CallsOK
  BY DEF DemonwareInv
<1> QED BY <1>1, <1>2, SoleInitial, SoleStep, DemonwareInvariant, PTL DEF Spec
=============================================================================
