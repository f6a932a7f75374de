------------------------------ MODULE Demonware ------------------------------
(***************************************************************************)
(* client/component/demonware.cpp: the emulated lobby behind the sockets   *)
(* of the game, TCP side.                                                  *)
(*                                                                         *)
(* Hooks of the socket functions look the socket up in tables that         *)
(* server_mutex guards, release it and call the service server they found. *)
(* A thread runs the frames of all servers with server_mutex held.         *)
(* pre_destroy stops that thread and clears the tables, with server_mutex  *)
(* held from its first line to its last.                                   *)
(*                                                                         *)
(* Each socket is used by one thread of the game at a time.  Sockets no    *)
(* server is linked to go to the operating system and are left out.        *)
(***************************************************************************)
EXTENDS ServiceServer

CONSTANTS
  Socket,   \* sockets of the game
  None,     \* no server
  MaxRead   \* the largest buffer given to recv

ASSUME DemonwareAssumption == None \notin Server /\ MaxRead \in Nat \ {0}

VARIABLES
  socket_links,      \* [Socket -> Server or None]
  blocking_sockets,  \* [Socket -> BOOLEAN], TRUE also without an entry
  registered,        \* servers is filled
  server_mutex,      \* who holds it over more than one step
  terminate,
  message_thread,    \* where the Demonware thread is
  visiting,          \* the servers its frame has yet to run
  destroyer,         \* where pre_destroy is
  calls,             \* [Socket -> Call] the call its thread has under way
  readers            \* history: [Server -> SUBSET Socket] sockets read from

tableVars  == <<socket_links, blocking_sockets, registered>>
threadVars == <<server_mutex, terminate, message_thread, visiting, destroyer>>
callVars   == <<calls, readers>>
vars == <<serverVars, tableVars, threadVars, callVars>>

Idle == [op |-> "idle"]
Call ==
  {Idle}
  \cup [op : {"send"}, server : Server, packet : Packet]
  \cup [op : {"find"}, server : Server]
  \cup [op : {"poll", "take"}, server : Server, blocking : BOOLEAN]

TypeOK ==
  /\ ServiceServerTypeOK
  /\ socket_links \in [Socket -> Server \cup {None}]
  /\ blocking_sockets \in [Socket -> BOOLEAN]
  /\ registered \in BOOLEAN /\ terminate \in BOOLEAN
  /\ server_mutex \in {"free", "thread", "destroyer"}
  /\ message_thread \in {"starting", "testing", "locking", "frame", "sleeping", "exited"}
  /\ visiting \subseteq Server
  /\ destroyer \in {"none", "joining", "done"}
  /\ calls \in [Socket -> Call]
  /\ readers \in [Server -> SUBSET Socket]

\* After post_load: the servers are registered and the thread is created.
Init ==
  /\ ServiceServerInit
  /\ socket_links = [s \in Socket |-> None]
  /\ blocking_sockets = [s \in Socket |-> TRUE]
  /\ registered = TRUE
  /\ server_mutex = "free"
  /\ terminate = FALSE
  /\ message_thread = "starting"
  /\ visiting = {}
  /\ destroyer = "none"
  /\ calls = [s \in Socket |-> Idle]
  /\ readers = [v \in Server |-> {}]
-----------------------------------------------------------------------------
(* The hooks.  A table is read or written while nobody holds the mutex.    *)

Free == server_mutex = "free"

Ready(s) == calls[s] = Idle /\ Free

\* connect: link_socket.
Connect(s, v) ==
  /\ Ready(s) /\ registered
  /\ socket_links' = [socket_links EXCEPT ![s] = v]
  /\ UNCHANGED <<serverVars, blocking_sockets, registered, threadVars, callVars>>

\* close_socket: remove_blocking_socket and unlink_socket.
Close(s) ==
  /\ Ready(s) /\ socket_links[s] # None
  /\ socket_links' = [socket_links EXCEPT ![s] = None]
  /\ blocking_sockets' = [blocking_sockets EXCEPT ![s] = TRUE]
  /\ UNCHANGED <<serverVars, registered, threadVars, callVars>>

\* ioctl_socket with FIONBIO.
Ioctl(s, blocking) ==
  /\ Ready(s)
  /\ blocking_sockets' = [blocking_sockets EXCEPT ![s] = blocking]
  /\ UNCHANGED <<serverVars, socket_links, registered, threadVars, callVars>>

\* send: the server found is kept alive, whatever happens to the tables.
Send(s, packet) ==
  /\ Ready(s) /\ socket_links[s] # None
  /\ calls' = [calls EXCEPT ![s] =
       [op |-> "send", server |-> socket_links[s], packet |-> packet]]
  /\ UNCHANGED <<serverVars, tableVars, threadVars, readers>>

SendPush(s) ==
  /\ calls[s].op = "send"
  /\ send(calls[s].server, calls[s].packet)
  /\ calls' = [calls EXCEPT ![s] = Idle]
  /\ UNCHANGED <<tableVars, threadVars, readers>>

\* recv: find_server_by_socket, then is_blocking_socket, each with the mutex
\* taken and released; then service_server::recv until it gives bytes, or
\* once if the socket does not block.
Recv(s) ==
  /\ Ready(s) /\ socket_links[s] # None
  /\ calls' = [calls EXCEPT ![s] = [op |-> "find", server |-> socket_links[s]]]
  /\ readers' = [readers EXCEPT ![socket_links[s]] = @ \cup {s}]
  /\ UNCHANGED <<serverVars, tableVars, threadVars>>

RecvMode(s) ==
  /\ calls[s].op = "find" /\ Free
  /\ calls' = [calls EXCEPT ![s] =
       [op |-> "poll", server |-> @.server, blocking |-> blocking_sockets[s]]]
  /\ UNCHANGED <<serverVars, tableVars, threadVars, readers>>

\* Fault: every round of the loop looks the server up again, under the mutex.
RecvPollLocked(s) ==
  /\ calls[s].op = "poll" /\ Free
  /\ \/ /\ SeesBytes(calls[s].server)
        /\ calls' = [calls EXCEPT ![s].op = "take"]
     \/ /\ ~SeesBytes(calls[s].server) /\ ~calls[s].blocking
        /\ calls' = [calls EXCEPT ![s] = Idle]
  /\ UNCHANGED <<serverVars, tableVars, threadVars, readers>>

RecvPoll(s) ==
  /\ calls[s].op = "poll"
  /\ \/ /\ SeesBytes(calls[s].server)
        /\ calls' = [calls EXCEPT ![s].op = "take"]
     \/ /\ ~SeesBytes(calls[s].server) /\ ~calls[s].blocking
        /\ calls' = [calls EXCEPT ![s] = Idle]
  /\ UNCHANGED <<serverVars, tableVars, threadVars, readers>>

RecvTake(s, len) ==
  /\ calls[s].op = "take"
  /\ recv(calls[s].server, len)
  /\ calls' = [calls EXCEPT ![s] = Idle]
  /\ UNCHANGED <<tableVars, threadVars, readers>>

CallStep(s) ==
  \/ SendPush(s) \/ RecvMode(s) \/ RecvPoll(s)
  \/ \E len \in 1..MaxRead : RecvTake(s, len)

Game(s) ==
  \/ \E v \in Server : Connect(s, v)
  \/ Close(s)
  \/ \E blocking \in BOOLEAN : Ioctl(s, blocking)
  \/ \E packet \in Packet : Send(s, packet)
  \/ Recv(s)
  \/ CallStep(s)
-----------------------------------------------------------------------------
(* server_thread.                                                          *)

ThreadStart ==
  /\ message_thread = "starting"
  /\ terminate' = FALSE
  /\ message_thread' = "testing"
  /\ UNCHANGED <<serverVars, tableVars, callVars, server_mutex, visiting, destroyer>>

\* Fault: terminate is tested under the mutex.
ThreadTestLocked ==
  /\ message_thread = "testing" /\ Free
  /\ message_thread' = IF terminate THEN "exited" ELSE "locking"
  /\ UNCHANGED <<serverVars, tableVars, callVars, server_mutex, terminate, visiting, destroyer>>

ThreadTest ==
  /\ message_thread = "testing"
  /\ message_thread' = IF terminate THEN "exited" ELSE "locking"
  /\ UNCHANGED <<serverVars, tableVars, callVars, server_mutex, terminate, visiting, destroyer>>

ThreadLock ==
  /\ message_thread = "locking" /\ Free
  /\ server_mutex' = "thread"
  /\ message_thread' = "frame"
  /\ visiting' = (IF registered THEN Server ELSE {})
  /\ UNCHANGED <<serverVars, tableVars, callVars, terminate, destroyer>>

RunFrame(v) ==
  /\ message_thread = "frame" /\ v \in visiting
  /\ run_frame(v)
  /\ visiting' = visiting \ {v}
  /\ UNCHANGED <<tableVars, callVars, server_mutex, terminate, message_thread, destroyer>>

ThreadUnlock ==
  /\ message_thread = "frame" /\ visiting = {}
  /\ server_mutex' = "free"
  /\ message_thread' = "sleeping"
  /\ UNCHANGED <<serverVars, tableVars, callVars, terminate, visiting, destroyer>>

ThreadWake ==
  /\ message_thread = "sleeping"
  /\ message_thread' = "testing"
  /\ UNCHANGED <<serverVars, tableVars, callVars, server_mutex, terminate, visiting, destroyer>>

ServerThread ==
  \/ ThreadStart \/ ThreadTest \/ ThreadLock \/ ThreadUnlock \/ ThreadWake
  \/ \E v \in Server : RunFrame(v)
-----------------------------------------------------------------------------
(* pre_destroy.                                                            *)

PreDestroy ==
  /\ destroyer = "none" /\ Free
  /\ server_mutex' = "destroyer"
  /\ terminate' = TRUE
  /\ destroyer' = "joining"
  /\ UNCHANGED <<serverVars, tableVars, callVars, message_thread, visiting>>

\* Fault: the thread is detached.
JoinNobody ==
  /\ destroyer = "joining"
  /\ registered' = FALSE
  /\ socket_links' = [s \in Socket |-> None]
  /\ blocking_sockets' = [s \in Socket |-> TRUE]
  /\ server_mutex' = "free"
  /\ destroyer' = "done"
  /\ UNCHANGED <<serverVars, callVars, terminate, message_thread, visiting>>

Join ==
  /\ destroyer = "joining" /\ message_thread = "exited"
  /\ registered' = FALSE
  /\ socket_links' = [s \in Socket |-> None]
  /\ blocking_sockets' = [s \in Socket |-> TRUE]
  /\ server_mutex' = "free"
  /\ destroyer' = "done"
  /\ UNCHANGED <<serverVars, callVars, terminate, message_thread, visiting>>
-----------------------------------------------------------------------------
Next ==
  \/ \E s \in Socket : Game(s)
  \/ ServerThread
  \/ PreDestroy
  \/ Join

Spec == Init /\ [][Next]_vars

\* The operating system schedules the threads, and a thread that waits for
\* server_mutex gets it if it is free again and again.  The game need not
\* call anything.
Fairness ==
  /\ SF_vars(ThreadLock)
  /\ WF_vars(ServerThread)
  /\ \A s \in Socket : WF_vars(CallStep(s))
  /\ WF_vars(Join)

FairSpec == Spec /\ Fairness
-----------------------------------------------------------------------------
(* Properties                                                              *)

SoleReader(s) == calls[s].op \in {"find", "poll", "take"} /\ readers[calls[s].server] = {s}

\* recv never gives 0, which tells the game that the peer has closed the
\* connection, on a server that one socket alone reads from: the bytes it saw
\* before it locked are still there.
SoleReaderFindsBytes ==
  \A s \in Socket : SoleReader(s) /\ calls[s].op = "take" => SeesBytes(calls[s].server)

\* Once pre_destroy is done no frame runs any more, no request is handled and
\* no new call reaches an emulated server.
QuietWhenDestroyed ==
  destroyer = "done" =>
    message_thread = "exited" /\ \A s \in Socket : socket_links[s] = None

\* Every packet sent is handled in time, one per frame, unless the process
\* shuts down.
RequestsHandled ==
  \A v \in Server, n \in 1..MaxPackets :
    n \in ToSet(incoming_queue_[v]) ~> (n \notin ToSet(incoming_queue_[v]) \/ destroyer # "none")

\* A recv waiting for bytes returns once there are some, even while pre_destroy
\* holds server_mutex, unless another socket reads from the same server.
BlockingRecvReturns ==
  \A s \in Socket :
    (SoleReader(s) /\ calls[s].op = "poll" /\ SeesBytes(calls[s].server))
      ~> (calls[s] = Idle \/ ~SoleReader(s))

\* pre_destroy returns if the thread is between two frames and has not yet
\* tested terminate, which its own start may have reset.
JoinReturnsBetweenFrames ==
  (destroyer = "joining" /\ terminate /\ message_thread \in {"testing", "sleeping"})
    ~> destroyer = "done"
=============================================================================
