------------------------------ MODULE ScriptVM ------------------------------
(***************************************************************************)
(* client/game/scripting: calls from Lua into the game's script machine.   *)
(*                                                                         *)
(* The machine counts references to its values and passes parameters on a  *)
(* stack.  A script_value or an entity holds a reference (variable_value,  *)
(* entity); a call isolates the stack (stack_isolation), pushes its        *)
(* arguments, runs a function of the game that may fail by a long jump     *)
(* (safe_execution) and that may, through a notification, call Lua and so  *)
(* this code again.  calls holds the calls under way, the innermost last,  *)
(* each with what stack_isolation saved.                                   *)
(*                                                                         *)
(* Values without references (numbers) are left out; an Object is a        *)
(* string, a vector or an object of the machine.  What the machine does    *)
(* with its parameters is external.                                        *)
(***************************************************************************)
EXTENDS Integers, Sequences, SequencesExt, FiniteSets

CONSTANTS
  Object,
  NoObject,       \* no object
  MaxHeld,    \* BOUND: script_values of one object
  MaxArgs,    \* BOUND: arguments of a call
  MaxEvents,  \* BOUND: notifies of one event
  MaxCalls    \* BOUND: calls within calls

ASSUME ScriptVMAssumption ==
  /\ NoObject \notin Object
  /\ MaxHeld \in Nat /\ MaxArgs \in Nat /\ MaxEvents \in Nat /\ MaxCalls \in Nat

VARIABLES
  refs,      \* the machine's count of references to each object
  owned,     \* the objects the game itself refers to
  held,      \* script_values and entities of each object, in Lua and in C++
  variable,  \* the object in a field of a struct or array of the machine
  custom,    \* the object in an entity's field in custom_fields
  vm,        \* scr_VmPub: the parameters on its stack, the numbers of in
             \* and out parameters
  calls,
  g_script_error_level,
  events,    \* the references that notify took to each string it notifies of
  unheld     \* history: an object was stored without a reference of its own

counts == <<refs, owned, held>>
fields == <<variable, custom>>
machine == <<vm, calls, g_script_error_level>>
vmVars == <<counts, fields, machine, events, unheld>>

Args == BoundedSeq({o \in Object : held[o] > 0}, MaxArgs)
Places(o, s) == {k \in DOMAIN s : s[k] = o}
Times(o, s) == Cardinality(Places(o, s))
Stack(s, in, out) == [stack |-> s, in |-> in, out |-> out]

\* AddRefToValue and RemoveRefToValue for the members of a sequence.
Referred(s) == [o \in Object |-> refs[o] + Times(o, s)]
Released(counted, s) == [o \in Object |-> counted[o] - Times(o, s)]

VMInit ==
  /\ \E s \in SUBSET Object :
       /\ owned = s
       /\ refs = [o \in Object |-> IF o \in s THEN 1 ELSE 0]
  /\ held = [o \in Object |-> 0]
  /\ variable = NoObject
  /\ custom = NoObject
  /\ vm = Stack(<<>>, 0, 0)
  /\ calls = <<>>
  /\ g_script_error_level = 0
  /\ events = [o \in Object |-> 0]
  /\ unheld = FALSE
-----------------------------------------------------------------------------
(* References                                                              *)

\* variable_value::assign.  For a string and a vector the constructor of
\* script_value makes the object, keeps it, and gives back its first reference.
Assign(o) == refs' = [refs EXCEPT ![o] = @ + 1]

Wrap(o) ==
  /\ held[o] < MaxHeld
  /\ held' = [held EXCEPT ![o] = @ + 1]
  /\ Assign(o)
  /\ UNCHANGED <<owned, fields, machine, unheld>>

\* variable_value::release, entity::release: destructors and assignments.
Release(o) ==
  /\ held[o] > 0
  /\ held' = [held EXCEPT ![o] = @ - 1]
  /\ refs' = [refs EXCEPT ![o] = @ - 1]
  /\ UNCHANGED <<owned, fields, machine, unheld>>

\* The game refers to an object, and no longer.
GameRefers(o) ==
  /\ o \notin owned
  /\ owned' = owned \cup {o}
  /\ refs' = [refs EXCEPT ![o] = @ + 1]
  /\ UNCHANGED <<held, fields, machine, unheld>>

GameReleases(o) ==
  /\ o \in owned
  /\ owned' = owned \ {o}
  /\ refs' = [refs EXCEPT ![o] = @ - 1]
  /\ UNCHANGED <<held, fields, machine, unheld>>

\* A field of a struct: the value that was converted is gone before the
\* field refers to it, so an object made for it is freed in between.
SetStructField(o) ==
  /\ refs' = LET counted == [refs EXCEPT ![o] = @ + 1]
             IN IF variable = NoObject THEN counted ELSE [counted EXCEPT ![variable] = @ - 1]
  /\ variable' = o
  /\ unheld' = (unheld \/ refs[o] = 0)
  /\ UNCHANGED <<owned, held, custom, machine>>

\* A field of an array: stored without counting.
SetArrayField(o) ==
  /\ variable' = o
  /\ unheld' = TRUE
  /\ UNCHANGED <<counts, custom, machine>>

\* set_entity_field and get_entity_field of a field the machine does not
\* know; custom_fields holds a script_value.
SetCustomField(o) ==
  /\ held[o] > 0
  /\ refs' = LET counted == [refs EXCEPT ![o] = @ + 1]
             IN IF custom = NoObject THEN counted ELSE [counted EXCEPT ![custom] = @ - 1]
  /\ custom' = o
  /\ UNCHANGED <<owned, held, variable, machine, unheld>>

GetCustomField ==
  /\ custom # NoObject
  /\ Wrap(custom)

\* clear_entity_fields, when a player has connected.
ClearEntityFields ==
  /\ custom # NoObject
  /\ refs' = [refs EXCEPT ![custom] = @ - 1]
  /\ custom' = NoObject
  /\ UNCHANGED <<owned, held, variable, machine, unheld>>
-----------------------------------------------------------------------------
(* Calls                                                                   *)

\* stack_isolation, and push_value of the arguments in reverse.
Isolate(op, isolated) ==
  /\ Len(calls) < MaxCalls
  /\ calls' = Append(calls, [op |-> op, saved |-> vm])
  /\ vm' = isolated

\* call_function up to the function of the game, which finds its arguments as
\* out parameters; set_entity_field of a field of the game is the same with
\* one argument.
call_function(args) ==
  /\ Isolate("call", Stack(Reverse(args), 0, Len(args)))
  /\ refs' = Referred(args)
  /\ g_script_error_level' = g_script_error_level + 1
  /\ UNCHANGED <<owned, held, fields, unheld>>

\* exec_ent_thread and notify: the machine takes the parameters over, so the
\* references to them pass to it and end with the thread.  The one that
\* SL_GetString gives notify to the event's string is not given back.
exec_ent_thread ==
  /\ Isolate("exec", Stack(<<>>, 0, 0))
  /\ UNCHANGED <<counts, fields, g_script_error_level, unheld>>

notify(event) ==
  /\ events[event] < MaxEvents
  /\ Isolate("notify", Stack(<<>>, 0, 0))
  /\ refs' = [refs EXCEPT ![event] = @ + 1]
  /\ events' = [events EXCEPT ![event] = @ + 1]
  /\ UNCHANGED <<owned, held, fields, g_script_error_level, unheld>>

\* Scr_ClearOutParams: the out parameters are the last of the stack.
Cleared(m) == Stack(SubSeq(m.stack, 1, Len(m.stack) - m.out), m.in, 0)
OutParams(m) == SubSeq(m.stack, Len(m.stack) - m.out + 1, Len(m.stack))

\* A function of the game, or the thread, gives its result.
Result(o) ==
  /\ calls # <<>> /\ Last(calls).op \in {"call", "exec"}
  /\ vm.in = 0
  /\ refs[o] > 0
  /\ vm' = Stack(Append(Cleared(vm).stack, o), 1, 0)
  /\ refs' = Released([refs EXCEPT ![o] = @ + 1], OutParams(vm))
  /\ UNCHANGED <<owned, held, fields, calls, g_script_error_level, unheld>>

Level == IF Last(calls).op = "call" THEN 1 ELSE 0

\* Fault: the stack is restored without its counts.
RestoreStackOnly(saved) == vm' = Stack(saved.stack, 0, 0)

Restore(saved) == vm' = saved

\* ~stack_isolation, for a stack m, when counted are the references by then.
Leave(m, counted) ==
  /\ refs' = Released(counted, OutParams(m))
  /\ Restore(Last(calls).saved)
  /\ calls' = Front(calls)

\* The call is over: get_return_value makes a script_value of the result
\* before the isolation clears the stack.
Return ==
  /\ calls # <<>>
  /\ g_script_error_level' = g_script_error_level - Level
  /\ IF vm.in = 0 \/ Last(calls).op = "notify"
     THEN Leave(vm, refs) /\ UNCHANGED held
     ELSE LET result == Last(vm.stack)
          IN /\ held[result] < MaxHeld
             /\ held' = [held EXCEPT ![result] = @ + 1]
             /\ Leave(Stack(vm.stack, 0, vm.in), [refs EXCEPT ![result] = @ + 1])
  /\ UNCHANGED <<owned, fields, unheld>>

\* The function fails: the long jump, or the exception handler, ends in
\* safe_execution, and the exception thrown then unwinds the isolation.  A
\* function gives its result last, so one that fails has given none.
Fail ==
  /\ calls # <<>> /\ Last(calls).op = "call" /\ vm.in = 0
  /\ g_script_error_level' = g_script_error_level - 1
  /\ Leave(vm, refs)
  /\ UNCHANGED <<owned, held, fields, unheld>>

\* get_entity_field of a field of the game: the reference the game gave is
\* given back after the script_value has its own.
get_entity_field(o) == refs[o] > 0 /\ Wrap(o)

\* The game calls a function of its own with parameters, before or after ours.
GameParams(s) ==
  /\ calls = <<>> /\ vm.stack = <<>>
  /\ vm' = Stack(s, 0, Len(s))
  /\ refs' = Referred(s)
  /\ UNCHANGED <<owned, held, fields, calls, g_script_error_level, unheld>>

GameClears ==
  /\ calls = <<>> /\ vm.stack # <<>>
  /\ vm' = Cleared(vm)
  /\ refs' = Released(refs, OutParams(vm))
  /\ UNCHANGED <<owned, held, fields, calls, g_script_error_level, unheld>>

\* What follows the use of an object without a reference is undefined.
VMNext ==
  /\ ~unheld
  /\ \/ \E event \in Object : notify(event)
     \/ /\ \/ \E o \in Object :
                \/ Wrap(o)
                \/ Release(o)
                \/ GameRefers(o)
                \/ GameReleases(o)
                \/ SetStructField(o)
                \/ SetArrayField(o)
                \/ SetCustomField(o)
                \/ get_entity_field(o)
                \/ Result(o)
           \/ GetCustomField
           \/ ClearEntityFields
           \/ \E args \in Args : call_function(args) \/ GameParams(args)
           \/ exec_ent_thread
           \/ Return
           \/ Fail
           \/ GameClears
        /\ UNCHANGED events

-----------------------------------------------------------------------------
(* Properties                                                              *)

\* Where an object stands on the stacks of the calls that wait.
Waiting(o, cs) == UNION {{k} \X Places(o, cs[k].saved.stack) : k \in DOMAIN cs}

Holders(o) ==
  held[o]
    + (IF o \in owned THEN 1 ELSE 0)
    + (IF o = variable THEN 1 ELSE 0)
    + (IF o = custom THEN 1 ELSE 0)
    + Times(o, vm.stack) + Cardinality(Waiting(o, calls))

LongJumps(cs) == {k \in DOMAIN cs : cs[k].op = "call"}
Counted(m) == m.in + m.out = Len(m.stack)

\* However calls nest, fail and return: the count of an object is the number of
\* its holders, script_values, fields and the parameters of every stack, and of
\* the times a notify named it.  So no object is freed that somebody still
\* holds, and what is kept for nobody is the string of a notified event, one
\* reference for each notify (execution.cpp:70).  The level of the long jumps is
\* that of the calls under way, and a call that waits for an inner one finds its
\* out parameters as it left them.  This needs that no field was given an object
\* without a reference (value_conversion.cpp:72 and 160).
CountsMatchHolders ==
  ~unheld =>
    /\ \A o \in Object : refs[o] = Holders(o) + events[o]
    /\ g_script_error_level = Cardinality(LongJumps(calls))
    /\ Counted(vm) /\ \A k \in DOMAIN calls : Counted(calls[k].saved)
=============================================================================
