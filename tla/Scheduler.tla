------------------------------ MODULE Scheduler ------------------------------
(***************************************************************************)
(* client/component/scheduler.cpp: four pipelines of deferred callbacks.   *)
(*                                                                         *)
(* Any thread adds a task to a pipeline's new_callbacks_ under its mutex.  *)
(* The thread that drives the pipeline executes it in passes: a pass locks *)
(* callbacks_, appends new_callbacks_ to it once, then walks the vector,   *)
(* calling the handlers that are due and erasing those that end.  The      *)
(* frame hooks drive renderer, server and main; a thread of its own drives *)
(* async until pre_destroy sets kill and joins it.                         *)
(*                                                                         *)
(* A task is known by an identity, given in the order of the add calls.    *)
(* last_call is kept as its distance to the clock, age; the code compares  *)
(* nothing else, and distances beyond MaxAge are not told apart.           *)
(***************************************************************************)
EXTENDS Integers, Sequences, SequencesExt

CONSTANTS
  Pipeline,    \* scheduler::pipeline, or some of it
  Async,       \* pipeline::async
  Main,        \* pipeline::main
  Delay,       \* the delays callers pass, in ticks
  Requests,    \* the calls that callers outside the scheduler make
  MaxAge,      \* BOUND: saturation of age
  MaxTasks,    \* BOUND: tasks added in a behaviour
  MaxPreempt   \* BOUND: ticks a caller is preempted between clock and add

ASSUME PipelineAssumption == {Async, Main} \subseteq Pipeline /\ Async # Main
ASSUME BoundAssumption == MaxAge \in Nat /\ MaxTasks \in Nat /\ MaxPreempt \in Nat
ASSUME DelayAssumption == Delay \subseteq 0..MaxAge /\ 0 \in Delay /\ MaxPreempt <= MaxAge

VARIABLES
  call,           \* [Id -> Call] handler and interval of a task
  nextId,         \* identity of the next task
  age,            \* [Id -> 0..MaxAge] now - last_call
  new_callbacks,  \* [Pipeline -> Seq(Id)] task_pipeline::new_callbacks_
  callbacks,      \* [Pipeline -> Seq(Id)] task_pipeline::callbacks_
  cursor,         \* [Pipeline -> Nat] iterator of the pass, 0 outside a pass
  running,        \* [Pipeline -> BOOLEAN] the handler at cursor is running
  ready,          \* Live_SyncOnlineDataFlags(0) == 0 && Sys_IsDatabaseReady2()
  thread,         \* where the "Async Scheduler" thread is
  kill,           \* the flag of the same name
  joined,         \* pre_destroy has returned
  begun,          \* history: tasks whose handler has been called
  callback_of     \* history: the task a finished on_game_initialized added

queueVars  == <<new_callbacks, callbacks, cursor, running>>
taskVars   == <<call, nextId, age, begun, callback_of>>
threadVars == <<thread, kill, joined>>
vars == <<queueVars, taskVars, threadVars, ready>>

Id   == 1..MaxTasks
Form == {"once", "loop", "schedule", "on_game_initialized"}
Call == [form : Form, pipeline : Pipeline, delay : Delay]
ASSUME RequestsAssumption == Requests \subseteq Call

Thread == {"none", "testing", "admitted", "executing", "sleeping", "exited"}

Home(c) == IF c.form = "on_game_initialized" THEN Main ELSE c.pipeline
Wait(c) == IF c.form = "on_game_initialized" THEN 0 ELSE c.delay

Added == {i \in Id : i < nextId}
Older(a) == IF a < MaxAge THEN a + 1 ELSE a

\* A task sits in one of the vectors of its pipeline until it is erased.
Queued(i) == \E p \in Pipeline : i \in ToSet(new_callbacks[p]) \cup ToSet(callbacks[p])

Current(p) == callbacks[p][cursor[p]]
InPass(p)  == cursor[p] > 0
AtTask(p)  == cursor[p] \in 1..Len(callbacks[p])

TypeOK ==
  /\ call \in [Id -> Call]
  /\ nextId \in 1..MaxTasks + 1
  /\ age \in [Id -> 0..MaxAge]
  /\ new_callbacks \in [Pipeline -> Seq(Id)]
  /\ callbacks \in [Pipeline -> Seq(Id)]
  /\ cursor \in [Pipeline -> Nat]
  /\ running \in [Pipeline -> BOOLEAN]
  /\ thread \in Thread
  /\ ready \in BOOLEAN /\ kill \in BOOLEAN /\ joined \in BOOLEAN
  /\ begun \subseteq Id
  /\ callback_of \in [Id -> 0..MaxTasks]

Init ==
  /\ call = [i \in Id |-> [form |-> "once", pipeline |-> Main, delay |-> 0]]
  /\ nextId = 1
  /\ age = [i \in Id |-> 0]
  /\ new_callbacks = [p \in Pipeline |-> <<>>]
  /\ callbacks = [p \in Pipeline |-> <<>>]
  /\ cursor = [p \in Pipeline |-> 0]
  /\ running = [p \in Pipeline |-> FALSE]
  /\ ready = FALSE
  /\ thread = "none"
  /\ kill = FALSE
  /\ joined = FALSE
  /\ begun = {}
  /\ callback_of = [i \in Id |-> 0]
-----------------------------------------------------------------------------
(* Adding tasks: schedule, loop, once and on_game_initialized, from any    *)
(* thread and from inside handlers.                                        *)

\* Fault: tasks are inserted at begin().
AddInFront(c) == new_callbacks' = [new_callbacks EXCEPT ![Home(c)] = <<nextId>> \o @]

\* task_pipeline::add, under the mutex of new_callbacks_.
add(c) == new_callbacks' = [new_callbacks EXCEPT ![Home(c)] = Append(@, nextId)]

\* Fault: last_call is set back by the delay, and the first call is due at once.
ScheduleDueAtOnce(c, a) ==
  /\ nextId \in Id
  /\ call' = [call EXCEPT ![nextId] = c]
  /\ age' = [age EXCEPT ![nextId] = a + c.delay]
  /\ nextId' = nextId + 1
  /\ add(c)

\* schedule() reads the clock into last_call, then adds: the caller may be
\* preempted between the two, so the task may enter the queue a ticks old.
schedule(c, a) ==
  /\ nextId \in Id
  /\ call' = [call EXCEPT ![nextId] = c]
  /\ age' = [age EXCEPT ![nextId] = a]
  /\ nextId' = nextId + 1
  /\ add(c)

\* Within the bound on tasks, each polling on_game_initialized keeps the room
\* for the callback it is going to add.
Polling == {i \in Added : call[i].form = "on_game_initialized" /\ callback_of[i] = 0}
HasRoom(c) ==
  nextId + Cardinality(Polling)
         + (IF c.form = "on_game_initialized" THEN 1 ELSE 0) <= MaxTasks

Schedule(c, a) ==
  /\ HasRoom(c)
  /\ schedule(c, a)
  /\ UNCHANGED <<begun, callback_of, callbacks, cursor, running, threadVars, ready>>
-----------------------------------------------------------------------------
(* task_pipeline::execute, one pass over the pipeline's callbacks.         *)

\* The exit path runs on the main thread and never comes back to its frames.
Driven(p) ==
  /\ p = Main => ~kill
  /\ p = Async => thread = "executing"

\* Fault: new_callbacks_ is not cleared after the move.
BeginPassCopies(p) ==
  /\ ~InPass(p)
  /\ callbacks' = [callbacks EXCEPT ![p] = @ \o new_callbacks[p]]
  /\ cursor' = [cursor EXCEPT ![p] = 1]
  /\ UNCHANGED <<new_callbacks, running, taskVars, ready>>

\* Fault: new_callbacks_ is moved over callbacks_.
BeginPassReplaces(p) ==
  /\ ~InPass(p)
  /\ callbacks' = [callbacks EXCEPT ![p] = IF new_callbacks[p] = <<>> THEN @ ELSE new_callbacks[p]]
  /\ new_callbacks' = [new_callbacks EXCEPT ![p] = <<>>]
  /\ cursor' = [cursor EXCEPT ![p] = 1]
  /\ UNCHANGED <<running, taskVars, ready>>

\* Lock callbacks_, move new_callbacks_ to its end, start at its begin().
BeginPass(p) ==
  /\ ~InPass(p)
  /\ callbacks' = [callbacks EXCEPT ![p] = @ \o new_callbacks[p]]
  /\ new_callbacks' = [new_callbacks EXCEPT ![p] = <<>>]
  /\ cursor' = [cursor EXCEPT ![p] = 1]
  /\ UNCHANGED <<running, taskVars, ready>>

BeginFrame(p) ==
  /\ p # Async
  /\ Driven(p)
  /\ BeginPass(p)
  /\ UNCHANGED threadVars

\* Fault: the interval is not looked at.
DueAlways(i) == TRUE

Due(i) == age[i] >= Wait(call[i])

Skip(p) ==
  /\ Driven(p) /\ AtTask(p) /\ ~running[p]
  /\ ~Due(Current(p))
  /\ cursor' = [cursor EXCEPT ![p] = @ + 1]
  /\ UNCHANGED <<new_callbacks, callbacks, running, taskVars, threadVars, ready>>

\* last_call is set before the handler is called.
CallHandler(p) ==
  /\ Driven(p) /\ AtTask(p) /\ ~running[p]
  /\ Due(Current(p))
  /\ running' = [running EXCEPT ![p] = TRUE]
  /\ age' = [age EXCEPT ![Current(p)] = 0]
  /\ begun' = begun \cup {Current(p)}
  /\ UNCHANGED <<new_callbacks, callbacks, cursor, call, nextId, callback_of,
                 threadVars, ready>>

\* Fault: on_game_initialized ends when it finds the game not ready.
ContinueForgetful(p) ==
  /\ Driven(p) /\ running[p]
  /\ LET c == call[Current(p)] IN
       \/ /\ c.form \in {"loop", "schedule"}
          /\ cursor' = [cursor EXCEPT ![p] = @ + 1]
          /\ UNCHANGED callbacks
       \/ /\ c.form = "on_game_initialized" /\ ~ready
          /\ callbacks' = [callbacks EXCEPT ![p] = RemoveAt(@, cursor[p])]
          /\ UNCHANGED cursor
  /\ running' = [running EXCEPT ![p] = FALSE]
  /\ UNCHANGED <<new_callbacks, taskVars, threadVars, ready>>

\* res != cond_end: ++i.  A once handler never answers that, a loop handler
\* always does, on_game_initialized does while the game is not ready.
Continue(p) ==
  /\ Driven(p) /\ running[p]
  /\ LET c == call[Current(p)] IN
       \/ c.form \in {"loop", "schedule"}
       \/ c.form = "on_game_initialized" /\ ~ready
  /\ running' = [running EXCEPT ![p] = FALSE]
  /\ cursor' = [cursor EXCEPT ![p] = @ + 1]
  /\ UNCHANGED <<new_callbacks, callbacks, taskVars, threadVars, ready>>

\* Fault: the task that ended stays in the vector.
EraseNothing(p) ==
  /\ running' = [running EXCEPT ![p] = FALSE]
  /\ cursor' = [cursor EXCEPT ![p] = @ + 1]
  /\ UNCHANGED callbacks

\* res == cond_end: i = tasks.erase(i).
Erase(p) ==
  /\ running' = [running EXCEPT ![p] = FALSE]
  /\ callbacks' = [callbacks EXCEPT ![p] = RemoveAt(@, cursor[p])]
  /\ UNCHANGED cursor

End(p) ==
  /\ Driven(p) /\ running[p]
  /\ call[Current(p)].form \in {"once", "schedule"}
  /\ Erase(p)
  /\ UNCHANGED <<new_callbacks, taskVars, threadVars, ready>>

\* The handler of on_game_initialized finds the game ready: it calls once()
\* with the callback and ends.
GameInitialized ==
  /\ Driven(Main) /\ running[Main]
  /\ LET i == Current(Main) IN
       /\ call[i].form = "on_game_initialized"
       /\ ready
       /\ schedule([call[i] EXCEPT !.form = "once"], 0)
       /\ callback_of' = [callback_of EXCEPT ![i] = nextId]
  /\ Erase(Main)
  /\ UNCHANGED <<begun, threadVars, ready>>

\* Fault: the walk starts over as long as there are tasks.
EndPassStartsOver(p) ==
  /\ InPass(p) /\ ~AtTask(p)
  /\ cursor' = [cursor EXCEPT ![p] = IF callbacks[p] = <<>> THEN 0 ELSE 1]
  /\ UNCHANGED <<new_callbacks, callbacks, running, taskVars, ready>>

\* i == tasks.end(): the locks are released.
EndPass(p) ==
  /\ InPass(p) /\ ~AtTask(p)
  /\ cursor' = [cursor EXCEPT ![p] = 0]
  /\ UNCHANGED <<new_callbacks, callbacks, running, taskVars, ready>>

EndFrame(p) ==
  /\ p # Async
  /\ Driven(p)
  /\ EndPass(p)
  /\ UNCHANGED threadVars
-----------------------------------------------------------------------------
(* The async thread: while (!kill) { execute(async); sleep_for(10ms); }    *)

PostStart ==
  /\ thread = "none" /\ ~kill
  /\ thread' = "testing"
  /\ UNCHANGED <<queueVars, taskVars, kill, joined, ready>>

\* Fault: the loop does not test kill.
TestKillNever ==
  /\ thread = "testing"
  /\ thread' = "admitted"
  /\ UNCHANGED <<queueVars, taskVars, kill, joined, ready>>

TestKill ==
  /\ thread = "testing"
  /\ thread' = IF kill THEN "exited" ELSE "admitted"
  /\ UNCHANGED <<queueVars, taskVars, kill, joined, ready>>

AsyncBegin ==
  /\ thread = "admitted"
  /\ thread' = "executing"
  /\ BeginPass(Async)
  /\ UNCHANGED <<kill, joined>>

AsyncEnd ==
  /\ thread = "executing"
  /\ thread' = "sleeping"
  /\ EndPass(Async)
  /\ UNCHANGED <<kill, joined>>

Wake ==
  /\ thread = "sleeping"
  /\ thread' = "testing"
  /\ UNCHANGED <<queueVars, taskVars, kill, joined, ready>>

\* pre_destroy sets kill ...
PreDestroy ==
  /\ ~kill
  /\ kill' = TRUE
  /\ UNCHANGED <<queueVars, taskVars, thread, joined, ready>>

\* Fault: the thread is detached.
JoinNobody ==
  /\ kill /\ ~joined
  /\ joined' = TRUE
  /\ UNCHANGED <<queueVars, taskVars, thread, kill, ready>>

\* ... and waits for the thread if post_start had started it.
Join ==
  /\ kill /\ ~joined
  /\ thread \in {"none", "exited"}
  /\ joined' = TRUE
  /\ UNCHANGED <<queueVars, taskVars, thread, kill, ready>>
-----------------------------------------------------------------------------
(* The surroundings: the clock and the game.                               *)

Tick ==
  /\ age' = [i \in Id |-> IF Queued(i) THEN Older(age[i]) ELSE age[i]]
  /\ UNCHANGED <<queueVars, call, nextId, begun, callback_of, threadVars, ready>>

\* The online data flags clear when the sync ends and are set by a new one.
GameReadiness ==
  /\ ready' = ~ready
  /\ UNCHANGED <<queueVars, taskVars, threadVars>>

Advance(p) ==
  \/ BeginFrame(p) \/ Skip(p) \/ CallHandler(p)
  \/ Continue(p) \/ End(p) \/ EndFrame(p)

AsyncThread == PostStart \/ TestKill \/ AsyncBegin \/ AsyncEnd \/ Wake

Next ==
  \/ \E c \in Requests, a \in 0..MaxPreempt : Schedule(c, a)
  \/ \E p \in Pipeline : Advance(p)
  \/ GameInitialized
  \/ AsyncThread
  \/ PreDestroy
  \/ Join
  \/ Tick
  \/ GameReadiness

Spec == Init /\ [][Next]_vars

\* Frames keep coming, handlers return, the operating system schedules the
\* async thread, the clock advances.  Nobody has to schedule anything.
Fairness ==
  /\ \A p \in Pipeline : WF_vars(Advance(p) \/ (p = Main /\ GameInitialized))
  /\ WF_vars(AsyncThread)
  /\ WF_vars(Join)
  /\ WF_vars(Tick)

FairSpec == Spec /\ Fairness
-----------------------------------------------------------------------------
(* Properties                                                              *)

StrictlyAscending(s) == \A i, j \in 1..Len(s) : i < j => s[i] < s[j]

\* Every task added and not ended is in exactly one place, and both vectors
\* together list the tasks of a pipeline in the order of the add calls:
\* merge_callbacks neither loses, duplicates nor reorders tasks while other
\* threads keep adding.
QueueIntegrity ==
  \A p \in Pipeline :
    /\ StrictlyAscending(callbacks[p])
    /\ StrictlyAscending(new_callbacks[p])
    /\ \A i \in ToSet(callbacks[p]), j \in ToSet(new_callbacks[p]) : i < j
    /\ \A i \in ToSet(callbacks[p]) \cup ToSet(new_callbacks[p]) :
         i \in Added /\ Home(call[i]) = p

\* A once task whose handler was called is never found again in a vector,
\* except as the one being run: no second call of a once handler.
OnceAtMostOnce ==
  \A i \in begun : call[i].form = "once" /\ Queued(i) =>
    LET p == Home(call[i]) IN running[p] /\ AtTask(p) /\ Current(p) = i

\* No task disappears before its handler has been called.
NothingLost == \A i \in Added : i \in begun \/ Queued(i)

\* A task that need not wait is not overtaken on its pipeline: while a handler
\* runs, every task without delay added before it has been called already.
ImmediateInOrder ==
  \A p \in Pipeline : running[p] =>
    \A i \in Added :
      i < Current(p) /\ Home(call[i]) = p /\ Wait(call[i]) = 0 => i \in begun

\* After pre_destroy has returned no async handler runs or can start.
QuietAfterJoin == joined => ~running[Async] /\ cursor[Async] = 0 /\ thread # "admitted"

\* The scheduler implements the promise of DeferredCalls.
Executing(i) == \E p \in Pipeline : running[p] /\ AtTask(p) /\ Current(p) = i

Status(i) ==
  IF i \notin Added THEN "unused"
  ELSE IF Executing(i) THEN "running"
  ELSE IF Queued(i) THEN "pending"
  ELSE "finished"

Promise == INSTANCE DeferredCalls WITH status <- [i \in Id |-> Status(i)]

ImplementsPromise == Promise!Spec

\* Every task is called eventually, however many tasks others add and however
\* often loops repeat, unless the process shuts down.
EveryTaskRuns == \A i \in Id : i \in Added ~> (i \in begun \/ kill)

\* Once the game stays initialized, every on_game_initialized callback is called.
CallbackRunsOnceReady ==
  <>[]ready =>
    \A i \in Id :
      (i \in Added /\ call[i].form = "on_game_initialized")
        ~> (kill \/ callback_of[i] \in begun)

\* pre_destroy returns: the thread leaves its loop after at most one more pass.
JoinReturns == kill ~> joined
=============================================================================
