----------------------------- MODULE Datagrams -----------------------------
(***************************************************************************)
(* client/component/demonware.cpp, UDP side, and stun_server.cpp: the      *)
(* emulated STUN servers behind the datagram sockets of the game.          *)
(*                                                                         *)
(* send_to of a request to a STUN server puts its answer in the queue of   *)
(* the socket, which is made with the first; recv_from of a socket that    *)
(* has a queue takes from it alone.  Threads of the game share sockets.    *)
(* recv_from looks the queue up, lets go of server_mutex while a blocking  *)
(* socket waits, and goes on with the queue it found: if close_socket or   *)
(* pre_destroy has destroyed it meanwhile, it is used after its life.      *)
(***************************************************************************)
EXTENDS Integers, Sequences, SequencesExt

CONSTANTS
  UdpSocket,
  StunServer,
  GameThread,
  NoServer,       \* what a name resolves to outside the emulation
  MaxAsked        \* BOUND: datagrams sent

ASSUME DatagramsAssumption == NoServer \notin StunServer /\ MaxAsked \in Nat

VARIABLES
  datagram_packets,  \* the queue of each socket, or NoQueue
  udp_blocking,      \* blocking_sockets, for these sockets
  stun_servers,      \* those registered
  host,              \* what each thread found by a server's name
  io_call,           \* the call each thread has under way
  datagrams_asked,   \* history: datagrams sent so far
  answered,          \* history: the answers put in a queue since it was made
  popped,            \* history: those taken from it
  outcome            \* what the last recv_from gave, and to which socket

datagramVars == <<datagram_packets, udp_blocking, stun_servers, host, io_call,
                  datagrams_asked, answered, popped, outcome>>

NoQueue == [exists |-> FALSE, packets |-> <<>>, life |-> 0]
Done == [op |-> "none"]
IsDone(t) == io_call[t] = Done

\* The bytes a request begins with: ip and nat discovery, and others.  One that
\* is shorter than a type leaves it uninitialized.
Kinds == {"ip_discovery", "nat_discovery", "other", "short"}
TypeRead(kind) == IF kind = "short" THEN Kinds \ {"short"} ELSE {kind}

-----------------------------------------------------------------------------
(* Names: get_host_by_name, find_stun_server_by_name.                      *)

get_host_by_name(t, v) ==
  /\ IsDone(t)
  /\ host' = [host EXCEPT ![t] = IF v \in stun_servers THEN v ELSE NoServer]
  /\ UNCHANGED <<datagram_packets, udp_blocking, stun_servers, io_call, datagrams_asked, answered,
                 popped, outcome>>

-----------------------------------------------------------------------------
(* send_to: the server is found, then its answer is put in the queue, each  *)
(* under the mutex; a datagram to another address goes to the network.      *)

find_stun_server(v) == IF v \in stun_servers THEN v ELSE NoServer

SendTo(t, s, kind) ==
  /\ IsDone(t) /\ datagrams_asked < MaxAsked /\ host[t] # NoServer
  /\ datagrams_asked' = datagrams_asked + 1
  /\ io_call' = IF find_stun_server(host[t]) = NoServer THEN io_call
                ELSE [io_call EXCEPT ![t] =
                        [op |-> "send", socket |-> s, server |-> host[t], kind |-> kind,
                         number |-> datagrams_asked + 1]]
  /\ UNCHANGED <<datagram_packets, udp_blocking, stun_servers, host, answered, popped, outcome>>

\* ip_discovery and nat_discovery give the loopback address; the datagram seems
\* to come from the server that was asked.
StunReply(call, type) ==
  [from |-> call.server, type |-> type, number |-> call.number]

send_datagram_packet(s, packet) ==
  /\ datagram_packets' = [datagram_packets EXCEPT ![s] =
       [exists |-> TRUE, packets |-> Append(@.packets, packet), life |-> @.life]]
  /\ answered' = [answered EXCEPT ![s] = Append(@, packet)]

StunSend(t) ==
  /\ io_call[t].op = "send"
  /\ \E type \in TypeRead(io_call[t].kind) :
       IF type = "other" THEN UNCHANGED <<datagram_packets, answered>>
       ELSE send_datagram_packet(io_call[t].socket, StunReply(io_call[t], type))
  /\ io_call' = [io_call EXCEPT ![t] = Done]
  /\ UNCHANGED <<udp_blocking, stun_servers, host, datagrams_asked, popped, outcome>>

-----------------------------------------------------------------------------
(* recv_from: recv_datagam_packet.                                         *)

\* What recv_from gives without an answer: -1, or what the network gives.
Gives(s, result) == outcome' = <<s, result>>

RecvFrom(t, s) ==
  /\ IsDone(t)
  /\ IF ~datagram_packets[s].exists
     THEN Gives(s, "network") /\ UNCHANGED io_call
     ELSE /\ io_call' = [io_call EXCEPT ![t] =
               [op |-> "recv", socket |-> s, blocking |-> udp_blocking[s],
                life |-> datagram_packets[s].life]]
          /\ UNCHANGED outcome
  /\ UNCHANGED <<datagram_packets, udp_blocking, stun_servers, host, datagrams_asked, answered, popped>>

Dangling(t) ==
  LET queue == datagram_packets[io_call[t].socket]
  IN ~queue.exists \/ queue.life # io_call[t].life

Sees(t) == datagram_packets[io_call[t].socket].packets # <<>>

\* Two threads may have seen the same datagram; the later gives -1.  A blocking
\* socket does not get here with an empty queue but for that.
RecvPop(t) ==
  /\ io_call[t].op = "recv" /\ ~Dangling(t)
  /\ LET s == io_call[t].socket
         queue == datagram_packets[s].packets
     IN IF queue = <<>>
        THEN Gives(s, "would_block") /\ UNCHANGED <<datagram_packets, popped>>
        ELSE /\ datagram_packets' = [datagram_packets EXCEPT ![s].packets = Tail(@)]
             /\ popped' = [popped EXCEPT ![s] = Append(@, Head(queue))]
             /\ Gives(s, "answer")
  /\ io_call' = [io_call EXCEPT ![t] = Done]
  /\ UNCHANGED <<udp_blocking, stun_servers, host, datagrams_asked, answered>>

\* The wait of a blocking socket, unlocked: it ends when the queue is not empty.
\* Between its end and the lock another thread may take the datagram.
RecvWait(t) ==
  /\ io_call[t].op = "recv" /\ io_call[t].blocking /\ ~Dangling(t) /\ Sees(t)
  /\ io_call' = [io_call EXCEPT ![t].blocking = FALSE]
  /\ UNCHANGED <<datagram_packets, udp_blocking, stun_servers, host, datagrams_asked, answered, popped,
                 outcome>>

RecvLocked(t) == io_call[t].op = "recv" /\ ~io_call[t].blocking /\ RecvPop(t)

\* The queue is gone: any datagram may be read in what it left, or none.
RecvDangling(t) ==
  /\ io_call[t].op = "recv" /\ Dangling(t)
  /\ \/ Gives(io_call[t].socket, "would_block")
     \/ Gives(io_call[t].socket, "undefined")
  /\ io_call' = [io_call EXCEPT ![t] = Done]
  /\ UNCHANGED <<datagram_packets, udp_blocking, stun_servers, host, datagrams_asked, answered, popped>>

-----------------------------------------------------------------------------
(* ioctl_socket, close_socket and pre_destroy.                             *)

ioctl_socket(s, blocking) ==
  /\ udp_blocking' = [udp_blocking EXCEPT ![s] = blocking]
  /\ UNCHANGED <<datagram_packets, stun_servers, host, io_call, datagrams_asked, answered, popped, outcome>>

\* Fault: what has not been taken stays, for the next socket of that number.
QueueStays(queue) == queue

Erased(queue) == IF queue.exists THEN [NoQueue EXCEPT !.life = queue.life + 1] ELSE queue

Ended(sockets) ==
  /\ datagram_packets' = [s \in UdpSocket |->
       IF s \in sockets THEN Erased(datagram_packets[s]) ELSE datagram_packets[s]]
  /\ udp_blocking' = [s \in UdpSocket |-> s \notin sockets /\ udp_blocking[s]]
  /\ answered' = [s \in UdpSocket |-> IF s \in sockets THEN <<>> ELSE answered[s]]
  /\ popped' = [s \in UdpSocket |-> IF s \in sockets THEN <<>> ELSE popped[s]]
  /\ UNCHANGED <<host, io_call, datagrams_asked, outcome>>

\* remove_blocking_socket and unlink_socket.
close_socket(s) == Ended({s}) /\ UNCHANGED stun_servers

pre_destroy == stun_servers # {} /\ Ended(UdpSocket) /\ stun_servers' = {}

-----------------------------------------------------------------------------
\* After post_load: startup_dw has registered the servers.
DatagramsInit ==
  /\ datagram_packets = [s \in UdpSocket |-> NoQueue]
  /\ udp_blocking = [s \in UdpSocket |-> FALSE]
  /\ stun_servers = StunServer
  /\ host = [t \in GameThread |-> NoServer]
  /\ io_call = [t \in GameThread |-> Done]
  /\ datagrams_asked = 0
  /\ answered = [s \in UdpSocket |-> <<>>] /\ popped = [s \in UdpSocket |-> <<>>]
  /\ outcome = <<>>

DatagramsNext ==
  \/ \E t \in GameThread :
       \/ \E v \in StunServer : get_host_by_name(t, v)
       \/ \E s \in UdpSocket :
            \/ \E kind \in Kinds : SendTo(t, s, kind)
            \/ RecvFrom(t, s)
       \/ StunSend(t) \/ RecvWait(t) \/ RecvLocked(t) \/ RecvDangling(t)
  \/ \E s \in UdpSocket :
       \/ close_socket(s)
       \/ \E blocking \in BOOLEAN : ioctl_socket(s, blocking)
  \/ pre_destroy

-----------------------------------------------------------------------------
(* Property.                                                               *)

\* However many threads use a socket, and whatever is closed meanwhile: the
\* answers given to a number since it was closed last are taken in the order in
\* which they were given, each once, and none is left out or stays from before the
\* close.  That the socket asked for them in this life is not promised: a sendto
\* under way when its socket is closed is answered afterwards, into the queue that
\* the answer makes for the next socket of that number, which gets it first
\* (demonware.cpp, recv_datagam_packet, unlink_socket, send_datagram_packet).
DatagramsInOrder ==
  \A s \in UdpSocket :
    popped[s] \o datagram_packets[s].packets = answered[s]
=============================================================================
