---------------------------- MODULE ServiceServer ----------------------------
(***************************************************************************)
(* client/game/demonware/service_server.cpp: one emulated lobby server.    *)
(*                                                                         *)
(* Callers push request packets; the Demonware thread takes one packet per *)
(* frame, handles the messages in it and queues the bytes of the replies;  *)
(* callers take bytes, as many as fit their buffer.  send, run_frame and   *)
(* the taking of bytes hold mutex_ and are one step each.  What recv does  *)
(* before it locks, looking whether there are bytes at all, is a step of   *)
(* its own.                                                                *)
(*                                                                         *)
(* A packet is the sequence of the kinds of its messages; a byte of a      *)
(* reply is known by the packet, the message and its place in the reply.   *)
(***************************************************************************)
EXTENDS Integers, Sequences, SequencesExt

CONSTANTS
  Server,       \* the registered service servers
  Packet,       \* the packets the game sends, sequences of message kinds
  ReplyLength,  \* bytes of a reply
  MaxPackets    \* BOUND: packets sent to a server

Kind == {"service", "hello", "throws", "connection", "empty", "short"}

ASSUME ServiceServerAssumption ==
  /\ Packet \subseteq Seq(Kind)
  /\ ReplyLength \in Nat \ {0} /\ MaxPackets \in Nat

VARIABLES
  incoming_queue_,  \* [Server -> Seq(Nat)] numbers of the packets waiting
  outgoing_queue_,  \* [Server -> Seq(Byte)]
  sent,             \* history: [Server -> Seq(Packet)] all packets accepted
  delivered         \* history: [Server -> Seq(Byte)] bytes given to callers

serverVars == <<incoming_queue_, outgoing_queue_, sent, delivered>>

Byte == Nat \X Nat \X (1..ReplyLength)

ServiceServerTypeOK ==
  /\ incoming_queue_ \in [Server -> Seq(1..MaxPackets)]
  /\ outgoing_queue_ \in [Server -> Seq(Byte)]
  /\ sent \in [Server -> Seq(Packet)]
  /\ delivered \in [Server -> Seq(Byte)]

ServiceServerInit ==
  /\ incoming_queue_ = [v \in Server |-> <<>>]
  /\ outgoing_queue_ = [v \in Server |-> <<>>]
  /\ sent = [v \in Server |-> <<>>]
  /\ delivered = [v \in Server |-> <<>>]
-----------------------------------------------------------------------------
\* service_server::send, for packets of more than three bytes.
send(v, packet) ==
  /\ Len(sent[v]) < MaxPackets
  /\ sent' = [sent EXCEPT ![v] = Append(@, packet)]
  /\ incoming_queue_' = [incoming_queue_ EXCEPT ![v] = Append(@, Len(sent'[v]))]
  /\ UNCHANGED <<outgoing_queue_, delivered>>

\* A service answers its message itself or gets the default answer, once.
\* The LSG hello, type 7, stays without one; so does a handler that throws.
Answered(kind) == kind \in {"service", "connection", "empty"}

\* After these kinds parse_packet returns and the rest of the packet is lost:
\* size 200 and sizes up to 0 are answered first, a size beyond the buffer
\* and an exception are not.
Ends(kind) == kind \in {"throws", "connection", "empty", "short"}

\* The messages of a packet parse_packet comes to.
Reached(packet) == {m \in DOMAIN packet : \A k \in 1..m - 1 : ~Ends(packet[k])}

\* The bytes parse_packet queues for a packet, message after message.
parse_packet(n, packet) ==
  FlattenSeq([m \in DOMAIN packet |->
    IF m \in Reached(packet) /\ Answered(packet[m])
    THEN [k \in 1..ReplyLength |-> <<n, m, k>>] ELSE <<>>])

\* Fault: the answers replace the bytes not read yet.
RunFrameReplaces(v) ==
  IF incoming_queue_[v] = <<>> THEN UNCHANGED serverVars
  ELSE
    LET n == Head(incoming_queue_[v]) IN
    /\ incoming_queue_' = [incoming_queue_ EXCEPT ![v] = Tail(@)]
    /\ outgoing_queue_' = [outgoing_queue_ EXCEPT ![v] = parse_packet(n, sent[v][n])]
    /\ UNCHANGED <<sent, delivered>>

\* Fault: no packet is taken while bytes wait to be read.
RunFrameWaits(v) ==
  IF incoming_queue_[v] = <<>> \/ outgoing_queue_[v] # <<>> THEN UNCHANGED serverVars
  ELSE
    LET n == Head(incoming_queue_[v]) IN
    /\ incoming_queue_' = [incoming_queue_ EXCEPT ![v] = Tail(@)]
    /\ outgoing_queue_' = [outgoing_queue_ EXCEPT ![v] = @ \o parse_packet(n, sent[v][n])]
    /\ UNCHANGED <<sent, delivered>>

\* service_server::run_frame: one packet, if there is one.
run_frame(v) ==
  IF incoming_queue_[v] = <<>> THEN UNCHANGED serverVars
  ELSE
    LET n == Head(incoming_queue_[v]) IN
    /\ incoming_queue_' = [incoming_queue_ EXCEPT ![v] = Tail(@)]
    /\ outgoing_queue_' = [outgoing_queue_ EXCEPT ![v] = @ \o parse_packet(n, sent[v][n])]
    /\ UNCHANGED <<sent, delivered>>

\* service_server::recv, the look before the lock ...
SeesBytes(v) == outgoing_queue_[v] # <<>>

\* Fault: what does not fit the buffer is dropped.
RecvDrops(v, len) ==
  LET n == Min({len, Len(outgoing_queue_[v])}) IN
  /\ delivered' = [delivered EXCEPT ![v] = @ \o SubSeq(outgoing_queue_[v], 1, n)]
  /\ outgoing_queue_' = [outgoing_queue_ EXCEPT ![v] = <<>>]
  /\ UNCHANGED <<incoming_queue_, sent>>

\* ... and what follows it under the lock.
recv(v, len) ==
  LET n == Min({len, Len(outgoing_queue_[v])}) IN
  /\ delivered' = [delivered EXCEPT ![v] = @ \o SubSeq(outgoing_queue_[v], 1, n)]
  /\ outgoing_queue_' = [outgoing_queue_ EXCEPT ![v] = SubSeq(@, n + 1, Len(@))]
  /\ UNCHANGED <<incoming_queue_, sent>>
-----------------------------------------------------------------------------
(* Properties                                                              *)

\* The packets a server has taken from its queue are the first ones it was
\* sent, and what its callers got, followed by what still waits for them, is
\* the answers to those packets: in the order of the requests, every byte
\* once, nothing in between.
AnswersInOrder ==
  \A v \in Server :
    LET handled == Len(sent[v]) - Len(incoming_queue_[v]) IN
    /\ incoming_queue_[v] = [k \in 1..Len(incoming_queue_[v]) |-> handled + k]
    /\ delivered[v] \o outgoing_queue_[v] =
         FlattenSeq([n \in 1..handled |-> parse_packet(n, sent[v][n])])
=============================================================================
