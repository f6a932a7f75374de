------------------------------- MODULE Steam -------------------------------
(***************************************************************************)
(* client/steam: the calls and callbacks of the emulated Steam API.        *)
(*                                                                         *)
(* A method of an interface that is asynchronous in Steam answers at once: *)
(* register_call gives the call a handle and return_call queues its result,*)
(* each under the mutex, which is free in between; the caller registers a  *)
(* handler for the handle it is given.  The game's run_callbacks hands the *)
(* results to these handlers and to the callbacks of their type.  The      *)
(* mutex is recursive: a handler may call every one of these, on the list  *)
(* that run_callbacks goes through.                                        *)
(***************************************************************************)
EXTENDS Integers, Sequences, FiniteSets, SequencesExt

CONSTANTS
  Caller,       \* threads of the game that use the API
  CallType,     \* callback ids: lobby_created, lobby_enter, ...
  MaxHandle     \* BOUND: calls

ASSUME SteamAssumption == MaxHandle \in Nat /\ Caller # {} /\ "none" \notin Caller

VARIABLES
  call_id_,         \* the last handle given
  calls_,           \* handle -> whether it has its result
  results_,         \* calls whose results are queued
  result_handlers_, \* handles that have a handler
  callback_list_,   \* types of the callbacks registered
  calling,          \* thread -> the method it is in
  pending,          \* thread -> handles it was given and has no handler for yet
  running_,         \* the thread inside of run_callbacks, "none" if none
  result_index,     \* index of the result it has come to
  delivered,        \* history: handles whose handlers ran, in order
  missed,           \* history: handles whose results went without a handler
  maker,            \* history: handle -> the thread whose call it is
  answers,          \* history: results queued so far
  answered,         \* history: handle -> the place of its result among all, 0 before
  overtaken         \* history: a list changed while run_callbacks went through it

\* The calls in progress, and the order of all.
callVars == <<calling, maker, answers, answered>>

steamVars == <<call_id_, calls_, results_, result_handlers_, callback_list_, calling,
               pending, running_, result_index, delivered, missed, maker,
               answers, answered, overtaken>>

\* The call that has no result yet, 0 if there is none; the handle the caller
\* will get, 0 if it gets none; and whether the method joins the lobby next.
NoCall == [call |-> 0, result |-> 0, joins |-> FALSE]

SteamInit ==
  /\ call_id_ = 0 /\ calls_ = [h \in 1..MaxHandle |-> FALSE]
  /\ results_ = <<>> /\ result_handlers_ = {} /\ callback_list_ = {}
  /\ calling = [t \in Caller |-> NoCall] /\ pending = [t \in Caller |-> {}]
  /\ running_ = "none" /\ result_index = 0
  /\ maker = [h \in 1..MaxHandle |-> "none"] /\ answers = 0 /\ answered = [h \in 1..MaxHandle |-> 0]
  /\ delivered = <<>> /\ missed = {} /\ overtaken = FALSE

\* The recursive mutex is free for this thread.
Locks(t) == running_ \in {"none", t}
\* And it is in no method of its own.
Free(t) == Locks(t) /\ calling[t] = NoCall
-----------------------------------------------------------------------------
(* Calls                                                                   *)

\* The first of the two locked sections of a method.
register_call(t, gives, joins) ==
  /\ Locks(t)
  /\ call_id_ < MaxHandle
  /\ call_id_' = call_id_ + 1
  /\ calls_' = [calls_ EXCEPT ![call_id_'] = FALSE]
  /\ calling' = [calling EXCEPT ![t] =
                  [call |-> call_id_',
                   result |-> IF calling[t].joins THEN calling[t].result ELSE IF gives THEN call_id_' ELSE 0,
                   joins |-> joins]]
  /\ maker' = [maker EXCEPT ![call_id_'] = t]
  /\ UNCHANGED <<results_, result_handlers_, callback_list_, pending, running_, result_index,
                 delivered, missed, answers, answered, overtaken>>

\* What the caller of GetAuthSessionTicket and LogOnAnonymous gets is no handle.
CreateLobby(t) == calling[t] = NoCall /\ register_call(t, TRUE, TRUE)
JoinLobby(t) == calling[t] = NoCall /\ register_call(t, TRUE, FALSE)
GetAuthSessionTicket(t) == calling[t] = NoCall /\ register_call(t, FALSE, FALSE)
RequestEncryptedAppTicket(t) == calling[t] = NoCall /\ register_call(t, TRUE, FALSE)
LogOnAnonymous(t) == calling[t] = NoCall /\ register_call(t, FALSE, FALSE)

\* CreateLobby calls JoinLobby; no one learns the handle of that.
JoinCreated(t) == calling[t].joins /\ calling[t].call = 0 /\ register_call(t, FALSE, FALSE)

\* The second one, behind which the method returns, but for CreateLobby.
return_call(t) ==
  LET c == calling[t]
  IN /\ Locks(t) /\ c.call # 0
     /\ calls_' = [calls_ EXCEPT ![c.call] = TRUE]
     /\ results_' = Append(results_, c.call)
     /\ answers' = answers + 1
     /\ answered' = [answered EXCEPT ![c.call] = answers']
     /\ calling' = [calling EXCEPT ![t] = IF c.joins THEN [c EXCEPT !.call = 0] ELSE NoCall]
     /\ pending' = IF c.joins \/ c.result = 0 THEN pending ELSE [pending EXCEPT ![t] = @ \cup {c.result}]
     /\ overtaken' = (overtaken \/ running_ # "none")
     /\ UNCHANGED <<call_id_, result_handlers_, callback_list_, running_, result_index, delivered,
                    missed, maker>>

register_call_result(t, h) ==
  /\ Free(t) /\ h \in pending[t]
  /\ result_handlers_' = result_handlers_ \cup {h}
  /\ pending' = [pending EXCEPT ![t] = @ \ {h}]
  /\ UNCHANGED <<call_id_, calls_, results_, callback_list_, running_, result_index, delivered, missed,
                 overtaken, callVars>>

\* Whoever holds a handle; also one that was answered.
unregister_call_result(t, h) ==
  /\ Free(t) /\ h \in result_handlers_
  /\ result_handlers_' = result_handlers_ \ {h}
  /\ missed' = missed \cup {c \in {h} : \E i \in DOMAIN results_ : i >= result_index /\ results_[i] = c}
  /\ UNCHANGED <<call_id_, calls_, results_, callback_list_, pending, running_, result_index, delivered,
                 overtaken, callVars>>

\* In run_callbacks the list is gone through at this moment.
ChangeCallbacks(t, list) ==
  /\ Free(t)
  /\ callback_list_' = list
  /\ overtaken' = (overtaken \/ running_ # "none")
  /\ UNCHANGED <<call_id_, calls_, results_, result_handlers_, pending, running_, result_index, delivered, missed,
                 callVars>>

register_callback(t, type) == type \notin callback_list_ /\ ChangeCallbacks(t, callback_list_ \cup {type})
unregister_callback(t, type) == type \in callback_list_ /\ ChangeCallbacks(t, callback_list_ \ {type})
-----------------------------------------------------------------------------
(* run_callbacks                                                           *)

RunCallbacks(t) ==
  /\ running_ = "none" /\ Free(t)
  /\ running_' = t /\ result_index' = 1
  /\ UNCHANGED <<call_id_, calls_, results_, result_handlers_, callback_list_, pending, delivered, missed,
                 overtaken, callVars>>

\* The thread is between two results, not in a call that a handler makes.
Between == running_ # "none" /\ calling[running_] = NoCall

\* The result's handler, which stays registered; the callbacks of its type, of
\* which nothing is said here, follow.
DeliverResult ==
  /\ Between /\ result_index <= Len(results_)
  /\ LET h == results_[result_index]
     IN IF h \in result_handlers_
        THEN delivered' = Append(delivered, h) /\ UNCHANGED missed
        ELSE missed' = missed \cup {h} /\ UNCHANGED delivered
  /\ result_index' = result_index + 1
  /\ UNCHANGED <<call_id_, calls_, results_, result_handlers_, callback_list_, pending, running_,
                 overtaken, callVars>>

\* Fault: the results stay for the next run.
EndKeeps ==
  /\ Between /\ result_index > Len(results_)
  /\ running_' = "none" /\ result_index' = 0
  /\ UNCHANGED <<call_id_, calls_, results_, result_handlers_, callback_list_, pending, delivered, missed,
                 overtaken, callVars>>

EndCallbacks ==
  /\ Between /\ result_index > Len(results_)
  /\ results_' = <<>>
  /\ running_' = "none" /\ result_index' = 0
  /\ UNCHANGED <<call_id_, calls_, result_handlers_, callback_list_, pending, delivered, missed,
                 overtaken, callVars>>
\* Behind a list changed under its iteration anything may follow.
SteamNext ==
  \/ ~overtaken /\ \E t \in Caller :
       \/ CreateLobby(t)
       \/ JoinLobby(t)
       \/ GetAuthSessionTicket(t)
       \/ RequestEncryptedAppTicket(t)
       \/ LogOnAnonymous(t)
       \/ JoinCreated(t)
       \/ return_call(t)
       \/ \E h \in 1..MaxHandle : register_call_result(t, h) \/ unregister_call_result(t, h)
       \/ \E type \in CallType : register_callback(t, type) \/ unregister_callback(t, type)
       \/ RunCallbacks(t)
  \/ ~overtaken /\ (DeliverResult \/ EndCallbacks)
-----------------------------------------------------------------------------
(* Properties                                                              *)

\* However calls, registrations and runs of threads interleave, as long as no
\* handler makes a call itself: a handler is run once for its call, in the order
\* in which the results were queued, which for the calls of one thread is that of
\* the calls, but not for those of two; and a call whose handler is registered is
\* queued, or its result went by before the handler was registered (callbacks).
AnsweredInOrder ==
  ~overtaken =>
    /\ \A i, j \in 1..Len(delivered) : i < j =>
         /\ answered[delivered[i]] < answered[delivered[j]]
         /\ maker[delivered[i]] = maker[delivered[j]] => delivered[i] < delivered[j]
    /\ ToSet(delivered) \cap missed = {}
    /\ \A h \in result_handlers_ \ (missed \cup ToSet(delivered)) :
         \E i \in DOMAIN results_ : results_[i] = h /\ (running_ # "none" => i >= result_index)
=============================================================================
