-------------------------------- MODULE Lua --------------------------------
(***************************************************************************)
(* client/game/scripting/lua: what a script may ask to be called for.      *)
(*                                                                         *)
(* Every script has a context with a scheduler (ontimeout, oninterval) and *)
(* an event handler (onnotify, onnotifyonce).  Both keep a vector that is  *)
(* walked and one of new entries that is merged into it.  The callbacks    *)
(* run while a vector is being walked: they add entries, clear them, give  *)
(* them conditions that end them, and notify events, which are dispatched  *)
(* to all contexts at once, within the callback.  So walks nest, and stack *)
(* holds them, the innermost last.                                         *)
(*                                                                         *)
(* Everything runs on the server's thread; the game restarts only between  *)
(* walks.  A walk keeps its place as an index, which is what the iterator  *)
(* of a vector comes down to as long as the vector is not reallocated.     *)
(* An entry is known by a number; tasks and listeners are both entries.    *)
(* Entities are left out: an event stands for an entity and a name.        *)
(***************************************************************************)
EXTENDS Integers, Sequences, SequencesExt

CONSTANTS
  Contexts,     \* number of scripts in the folders
  Event,        \* the events, each with its entity
  Ending,       \* BOUND: the events scripts use to end what they asked for
  Request,      \* BOUND: what scripts ask for
  MaxEntries,   \* BOUND: entries added between two starts of the engine
  MaxDepth      \* BOUND: walks within walks

\* What is fixed when an entry is added.  A delay is a tick of the clock: a
\* shorter one is a tick that has gone by already.
AnyRequest ==
  [kind : {"task"}, volatile : BOOLEAN]
    \cup [kind : {"listener"}, volatile : BOOLEAN, event : Event]

ASSUME LuaAssumption ==
  /\ Contexts \in Nat \ {0}
  /\ Event # {} /\ Ending \subseteq Event
  /\ Request \subseteq AnyRequest
  /\ MaxEntries \in Nat /\ MaxDepth \in Nat

Entry == 1..MaxEntries
Context == 1..Contexts

VARIABLES
  scripts,        \* number of contexts in get_scripts()
  entry,          \* the requests added, in the order of the calls
  tasks, new_tasks,          \* per context: callbacks_ and new_callbacks_
  listeners, new_listeners,  \* the same of the event handler
  is_deleted,     \* entries marked as deleted
  endon,          \* pairs of an entry and an event that ends it
  rested,         \* tasks whose last_call is a tick or more ago
  stack,          \* the walks under way, and the script being loaded
  undefined,      \* a walk has gone on with an iterator that was not valid
  disturbed,      \* history: a walk within a walk changed the vector of both
  called,         \* history: entries called
  ended           \* history: entries cleared, or whose context was notified
                  \* of an event that ends them

lists   == <<tasks, new_tasks, listeners, new_listeners>>
marks   == <<is_deleted, endon, ended>>
history == <<disturbed, called, ended>>
vars == <<scripts, entry, lists, is_deleted, endon, rested, stack, undefined, history>>

Empty == [c \in Context |-> <<>>]
Added == DOMAIN entry
Listed(c) == ToSet(tasks[c] \o new_tasks[c] \o listeners[c] \o new_listeners[c])
InLists == UNION {Listed(c) : c \in Context}

Walk(op, c, e) == [op |-> op, context |-> c, event |-> e, at |-> 1, calling |-> FALSE]
Top == Last(stack)
SetTop(walk) == stack' = Front(stack) \o <<walk>>

\* The vector the innermost walk goes through, and the entry it is at.
Walked == IF Top.op = "frame" THEN tasks[Top.context] ELSE listeners[Top.context]
Inside == Top.at <= Len(Walked)
This == Walked[Top.at]

Walking == stack # <<>> /\ ~undefined /\ Top.op # "load" /\ ~Top.calling
Running == stack # <<>> /\ ~undefined /\ (Top.op = "load" \/ Top.calling)
Idle == stack = <<>> /\ ~undefined

Init ==
  /\ scripts = 0
  /\ entry = <<>>
  /\ tasks = Empty /\ new_tasks = Empty
  /\ listeners = Empty /\ new_listeners = Empty
  /\ is_deleted = {} /\ endon = {} /\ rested = {}
  /\ stack = <<>>
  /\ undefined = FALSE
  /\ disturbed = FALSE /\ called = {} /\ ended = {}
-----------------------------------------------------------------------------
(* What a script does while it runs                                        *)

\* ontimeout, oninterval, onnotify and onnotifyonce, in the context that runs.
Add(request) ==
  /\ Running
  /\ Len(entry) < MaxEntries
  /\ entry' = Append(entry, request)
  /\ LET c == Top.context
         id == Len(entry')
     IN IF request.kind = "task"
        THEN /\ new_tasks' = [new_tasks EXCEPT ![c] = Append(@, id)]
             /\ UNCHANGED new_listeners
        ELSE /\ new_listeners' = [new_listeners EXCEPT ![c] = Append(@, id)]
             /\ UNCHANGED new_tasks
  /\ UNCHANGED <<scripts, tasks, listeners, marks, rested, stack, undefined, disturbed, called>>

\* clear on a handle of the same script.
remove(id) ==
  /\ Running
  /\ id \in Listed(Top.context) \ is_deleted
  /\ is_deleted' = is_deleted \cup {id}
  /\ ended' = ended \cup {id}
  /\ UNCHANGED <<scripts, entry, lists, endon, rested, stack, undefined, disturbed, called>>

\* endon on a handle of the same script.
add_endon_condition(id, e) ==
  /\ Running
  /\ id \in Listed(Top.context) \ is_deleted   \* of a deleted one nobody asks
  /\ <<id, e>> \notin endon
  /\ endon' = endon \cup {<<id, e>>}
  /\ UNCHANGED <<scripts, entry, lists, is_deleted, rested, stack, undefined, history>>
-----------------------------------------------------------------------------
(* Walks                                                                   *)

EndedBy(ids, e) == {id \in ToSet(ids) : <<id, e>> \in endon}

\* Fault: a task that is still new is not ended.
EndedTasksMerged(c, e) == EndedBy(tasks[c], e)

\* scheduler::dispatch: the tasks that an event ends, the new ones included.
EndedTasks(c, e) == EndedBy(tasks[c] \o new_tasks[c], e)

\* handle_endon_conditions, after merge_callbacks.
EndedListeners(c, e) == EndedBy(listeners[c] \o new_listeners[c], e)

\* Another walk through the listeners of c is under way.
Nested(walks, c) == \E k \in DOMAIN walks : walks[k].op = "notify" /\ walks[k].context = c

\* context::notify: dispatch of the scheduler, then of the event handler up
\* to its walk.  A merge may reallocate a vector that a walk further out is in.
BeginNotify(outer, c, e) ==
  LET gone == EndedTasks(c, e) \cup EndedListeners(c, e)
      moved == Nested(outer, c) /\ new_listeners[c] # <<>>
  IN /\ is_deleted' = is_deleted \cup gone
     /\ ended' = ended \cup EndedBy(tasks[c] \o new_tasks[c] \o listeners[c] \o new_listeners[c], e)
     /\ listeners' = [listeners EXCEPT ![c] = @ \o new_listeners[c]]
     /\ new_listeners' = [new_listeners EXCEPT ![c] = <<>>]
     /\ stack' = Append(outer, Walk("notify", c, e))
     /\ undefined' \in {FALSE, moved}
     /\ disturbed' = (disturbed \/ moved)
     /\ UNCHANGED <<scripts, entry, tasks, new_tasks, endon, rested, called>>

\* Fault: what is new is dropped instead of moved over.
MergeDrops(c) == tasks[c]

\* merge_callbacks of the scheduler.
Merge(c) == tasks[c] \o new_tasks[c]

\* context::run_frame up to the walk.
BeginFrame(c) ==
  /\ tasks' = [tasks EXCEPT ![c] = Merge(c)]
  /\ new_tasks' = [new_tasks EXCEPT ![c] = <<>>]
  /\ stack' = <<Walk("frame", c, CHOOSE e \in Event : TRUE)>>
  /\ UNCHANGED <<scripts, entry, listeners, new_listeners, marks, rested, undefined, disturbed, called>>

\* engine::run_frame, from the loop of the server pipeline.
RunFrame == Idle /\ scripts > 0 /\ BeginFrame(1)

\* vm_notify_stub: the game notifies, or the callback that runs does.
Notify(e) ==
  /\ Idle \/ Running
  /\ scripts > 0
  /\ Len(stack) < MaxDepth
  /\ BeginNotify(stack, 1, e)

\* The entry the walk is at is not for it: another event, or not yet due.
Passes(id) ==
  IF Top.op = "frame"
  THEN id \notin rested
  ELSE entry[id].event # Top.event

Skip ==
  /\ Walking /\ Inside /\ Passes(This)
  /\ SetTop([Top EXCEPT !.at = @ + 1])
  /\ UNCHANGED <<scripts, entry, lists, is_deleted, endon, rested, undefined, history>>

\* last_call = now, and the callback unless it is deleted.
Touch == rested' = (IF Top.op = "frame" THEN rested \ {This} ELSE rested)

Wanted(id) == id \notin is_deleted

Call ==
  /\ Walking /\ Inside /\ ~Passes(This) /\ Wanted(This)
  /\ Touch
  /\ called' = called \cup {This}
  /\ SetTop([Top EXCEPT !.calling = TRUE])
  /\ UNCHANGED <<scripts, entry, lists, is_deleted, endon, undefined, disturbed, ended>>

\* What a walk does with the entry it is at when it leaves it.
Drop ==
  /\ IF Top.op = "frame"
     THEN tasks' = [tasks EXCEPT ![Top.context] = RemoveAt(@, Top.at)] /\ UNCHANGED listeners
     ELSE listeners' = [listeners EXCEPT ![Top.context] = RemoveAt(@, Top.at)] /\ UNCHANGED tasks
  /\ disturbed' = (disturbed \/ (Top.op = "notify" /\ Nested(Front(stack), Top.context)))
  /\ SetTop([Top EXCEPT !.calling = FALSE])

Keep ==
  /\ SetTop([Top EXCEPT !.at = @ + 1, !.calling = FALSE])
  /\ UNCHANGED <<tasks, listeners, disturbed>>

\* Fault: only entries that were cleared or ended are erased.
FinishedDeleted(id) == id \in is_deleted

Finished(id) == entry[id].volatile \/ id \in is_deleted

Leave == IF Finished(This) THEN Drop ELSE Keep

\* A deleted entry, when its turn comes.
Discard ==
  /\ Walking /\ Inside /\ ~Passes(This) /\ ~Wanted(This)
  /\ Touch
  /\ Leave
  /\ UNCHANGED <<scripts, entry, new_tasks, new_listeners, is_deleted, endon, undefined, called, ended>>

\* A callback returns, or fails: handle_error only prints.  The walk looks at
\* the entry its iterator is at; walks within the callback may have made that
\* another one than was called, or the end of the vector.
Return ==
  /\ Running /\ Top.op # "load"
  /\ IF Inside
     THEN Leave /\ UNCHANGED undefined
     ELSE undefined' = TRUE /\ UNCHANGED <<tasks, listeners, stack, disturbed>>
  /\ UNCHANGED <<scripts, entry, new_tasks, new_listeners, is_deleted, endon, rested, called, ended>>

\* The end of a vector: engine goes on with the next context, or is done.
NextContext ==
  /\ Walking /\ ~Inside
  /\ Top.context < scripts
  /\ IF Top.op = "frame"
     THEN BeginFrame(Top.context + 1)
     ELSE BeginNotify(Front(stack), Top.context + 1, Top.event)

Done ==
  /\ Walking /\ ~Inside
  /\ Top.context = scripts
  /\ stack' = Front(stack)
  /\ UNCHANGED <<scripts, entry, lists, is_deleted, endon, rested, undefined, history>>
-----------------------------------------------------------------------------
(* The life of the engine                                                  *)

\* stop: the contexts are destroyed with all they hold.
stop ==
  /\ scripts' = 0
  /\ entry' = <<>>
  /\ tasks' = Empty /\ new_tasks' = Empty
  /\ listeners' = Empty /\ new_listeners' = Empty
  /\ is_deleted' = {} /\ endon' = {} /\ rested' = {}
  /\ disturbed' = FALSE /\ called' = {} /\ ended' = {}
  /\ UNCHANGED undefined

\* scr_load_level_stub: start, up to the constructor of the first context.
LoadLevel ==
  /\ Idle
  /\ stop
  /\ stack' = <<Walk("load", 1, CHOOSE e \in Event : TRUE)>>

\* __init__.lua is through; the context joins the others.
Loaded ==
  /\ Running /\ Top.op = "load"
  /\ scripts' = Top.context
  /\ stack' = (IF Top.context < Contexts
               THEN <<Walk("load", Top.context + 1, Top.event)>>
               ELSE <<>>)
  /\ UNCHANGED <<entry, lists, is_deleted, endon, rested, undefined, history>>

\* g_shutdown_game_stub.
ShutdownGame ==
  /\ Idle /\ scripts > 0
  /\ stop
  /\ UNCHANGED stack

\* A tick of the clock.
Tick ==
  /\ ~undefined
  /\ LET waiting == {id \in InLists : entry[id].kind = "task"}
     IN ~(waiting \subseteq rested) /\ rested' = rested \cup waiting
  /\ UNCHANGED <<scripts, entry, lists, is_deleted, endon, stack, undefined, history>>

Step == Skip \/ Call \/ Discard \/ NextContext \/ Done

Next ==
  \/ \E r \in Request : Add(r)
  \/ \E id \in Added : remove(id)
  \/ \E id \in Added, e \in Ending : add_endon_condition(id, e)
  \/ \E e \in Event : Notify(e)
  \/ RunFrame
  \/ Skip
  \/ Call
  \/ Discard
  \/ Return
  \/ NextContext
  \/ Done
  \/ LoadLevel
  \/ Loaded
  \/ ShutdownGame
  \/ Tick

Spec == Init /\ [][Next]_vars

\* Walks go on, callbacks return, frames keep coming and the clock advances.
\* Nothing makes the game notify, nor a script ask for anything.
FairSpec ==
  /\ Spec
  /\ WF_vars(Step) /\ WF_vars(Tick)
  /\ SF_vars(RunFrame) /\ SF_vars(Loaded)
  /\ \A d \in 1..MaxDepth : SF_vars(Len(stack) = d /\ Return)
-----------------------------------------------------------------------------
(* Properties                                                              *)

Starts(id) ==
  /\ Len(stack') = Len(stack) /\ stack # <<>>
  /\ ~Top.calling /\ Top'.calling
  /\ This = id

\* Whatever is added, cleared and notified from within callbacks: an entry
\* that was cleared, or whose context was notified of an event that ends it,
\* is never called afterwards, not even by the walk that is under way and not
\* if it was still new.
EndedNeverCalled == [][\A id \in Added : Starts(id) => id \notin ended]_vars

OnStack(id) ==
  \E k \in DOMAIN stack :
    /\ stack[k].calling
    /\ id = IF stack[k].op = "frame"
            THEN tasks[stack[k].context][stack[k].at]
            ELSE listeners[stack[k].context][stack[k].at]

\* An entry leaves the vectors only when it has been ended, or called if it
\* was to be called once; and one to be called once is gone when its callback
\* has returned.  A task of a frame is never lost at all.  For listeners this
\* needs that no dispatch within a dispatch has changed the vector under the
\* outer one's iterator (event_handler.cpp:38 to 67), which then leaves
\* another entry than the one it called.
Lost(id) == id \notin InLists /\ id \notin ended /\ ~(entry[id].volatile /\ id \in called)
Left(id) == entry[id].volatile /\ id \in called /\ id \in InLists /\ ~OnStack(id)
KeptUntilDone ==
  \A id \in Added :
    entry[id].kind = "task" \/ ~(disturbed \/ undefined) => ~Lost(id) /\ ~Left(id)

\* A task is called in the end, unless it is ended or the game stops.
TasksRun ==
  \A id \in Entry :
    id \in Added /\ entry[id].kind = "task" ~> undefined \/ id \notin Added \/ id \in called \cup ended
=============================================================================
