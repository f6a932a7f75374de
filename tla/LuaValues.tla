----------------------------- MODULE LuaValues -----------------------------
(***************************************************************************)
(* client/game/scripting/lua/value_conversion.cpp, what context.cpp gives  *)
(* to scripts, and the hooks of notifies: values that cross between Lua    *)
(* and the game's script machine.                                          *)
(*                                                                         *)
(* Numbers, strings, entities and vectors are copied.  A Lua function      *)
(* becomes a position that no code has and that vm_execute_hooks knows; a  *)
(* detour is a hook at a position that has code.  Arrays and structs       *)
(* become tables: that of an array remembers where each element was stored *)
(* and what it was.                                                        *)
(*                                                                         *)
(* frames holds the functions that are running, the innermost last, of the *)
(* scripts and of Lua.  The enable and disable of a detour use references  *)
(* to locals of the function that made it, which has returned: what they   *)
(* clear or set is any hook.                                               *)
(***************************************************************************)
EXTENDS Integers, Sequences, SequencesExt, FiniteSets

CONSTANTS
  Code,        \* positions of functions of the scripts
  LuaFn,       \* Lua functions
  IntLimit,    \* 2^31: one more than the largest of the machine's integers
  Field,       \* the keys of an array or struct
  Store,       \* the child variables of the machine
  MaxFrames,   \* BOUND: functions running at a time
  MaxValues,   \* BOUND: Lua functions made into values
  MaxCallbacks,   \* BOUND: damage callbacks
  Half, Fine,  \* numbers with a fraction: Half is one of a float too, Fine of a double only
  Opaque          \* what is not told apart: a string, an entity, a vector, a table

ASSUME LuaValuesAssumption ==
  /\ Code \subseteq Nat /\ \A c \in Code : c > Cardinality(Code) + MaxValues
  /\ IntLimit \in Nat \ {0} /\ MaxFrames \in Nat /\ MaxValues \in Nat /\ MaxCallbacks \in Nat
  /\ IsFiniteSet(Code) /\ Cardinality(Field) <= Cardinality(Store)
  /\ "none" \notin Field

VARIABLES
  hooks,         \* vm_execute_hooks: position |-> what is run there
  hook_enabled,
  made,          \* the Lua functions made into values, and their positions
  frames,
  entered,       \* the last entry into a function
  dangling,      \* history: a detour was enabled or disabled
  damage_callbacks,  \* what each callback does with the damage, in their order
  hit,           \* the damage on its way to the game, or that came there last
  child,         \* the machine's child variables: which field is where, and its value
  table,         \* the table of an array: where each field was
  wrote,         \* history: what was written to each field last
  outlived,      \* history: a table was used after an element had moved
  crossed        \* a value, as it is in the machine and back in Lua

hookVars == <<hooks, hook_enabled, made, frames, entered, dangling>>
damageVars == <<damage_callbacks, hit>>
arrayVars == <<child, table, wrote, outlived>>
valuesVars == <<hookVars, damageVars, arrayVars, crossed>>

-----------------------------------------------------------------------------
(* Values.  sol takes a number for an int when Lua keeps it as an integer. *)

Fraction == {Half, Fine}

LuaValue ==
  [type : {"integer"}, of : -2 * IntLimit..2 * IntLimit]
    \cup [type : {"float"}, of : Fraction]
    \cup [type : {"boolean"}, of : {0, 1}]
    \cup [type : {"string", "entity", "vector", "table", "nil"}, of : {Opaque}]
Nil == [type |-> "nil", of |-> Opaque]

\* What a cast to an int of the machine leaves of a number.
AsInt(n) ==
  LET low == n % (2 * IntLimit)
  IN IF low < IntLimit THEN low ELSE low - 2 * IntLimit

ScriptValue(type, of) == [type |-> type, of |-> of]

\* convert to a script_value, whose constructors narrow what they are given.
to_script(value) ==
  CASE value.type = "integer" -> ScriptValue("VAR_INTEGER", AsInt(value.of))
    [] value.type = "boolean" -> ScriptValue("VAR_INTEGER", value.of)
    [] value.type = "float" -> ScriptValue("VAR_FLOAT", Half)
    [] value.type = "string" -> ScriptValue("VAR_STRING", value.of)
    [] value.type = "entity" -> ScriptValue("VAR_POINTER", value.of)
    [] value.type = "vector" -> ScriptValue("VAR_VECTOR", value.of)
    [] OTHER -> ScriptValue("VAR_UNDEFINED", Opaque)

\* convert to Lua; a pointer is that of an entity unless the object it points
\* to is a struct or an array.
to_lua(value) ==
  CASE value.type = "VAR_INTEGER" -> [type |-> "integer", of |-> value.of]
    [] value.type = "VAR_FLOAT" -> [type |-> "float", of |-> value.of]
    [] value.type = "VAR_STRING" -> [type |-> "string", of |-> value.of]
    [] value.type = "VAR_POINTER" -> [type |-> "entity", of |-> value.of]
    [] value.type = "VAR_VECTOR" -> [type |-> "vector", of |-> value.of]
    [] OTHER -> Nil

Cross(value) ==
  /\ crossed' = <<value, to_lua(to_script(value))>>
  /\ UNCHANGED <<hookVars, damageVars, arrayVars>>

-----------------------------------------------------------------------------
(* Hooks.                                                                  *)

Hook(kind, f, pos) == [kind |-> kind, lua_function |-> f, target_pos |-> pos]
Original == Hook("original", "none", 0)
LuaHook(f) == Hook("lua", f, 0)
GscHook(pos) == Hook("gsc", "none", pos)
Set(pos, hook) == [p \in DOMAIN hooks \cup {pos} |-> IF p = pos THEN hook ELSE hooks[p]]
Clear(pos) == [p \in DOMAIN hooks \ {pos} |-> hooks[p]]

\* Fault: a hook that is passed over stays off.
vm_hook_stays_off(pos, enabled) ==
  IF pos \notin DOMAIN hooks \/ (~enabled /\ pos > Cardinality(DOMAIN hooks))
  THEN [runs |-> Original, enabled |-> enabled]
  ELSE [runs |-> hooks[pos], enabled |-> enabled]

\* execute_vm_hook, at the first instruction of a function.
vm_hook(pos, enabled) ==
  IF pos \notin DOMAIN hooks \/ (~enabled /\ pos > Cardinality(DOMAIN hooks))
  THEN [runs |-> Original, enabled |-> TRUE]
  ELSE [runs |-> hooks[pos], enabled |-> enabled]

\* The machine comes to a position.  Where a hook puts another function the
\* machine goes on with that, and asks for no hook of it.
Enter(pos, via, enabled) ==
  LET result == vm_hook(pos, enabled)
  IN /\ Len(frames) < MaxFrames
     /\ hook_enabled' = result.enabled
     /\ frames' = Append(frames, [via |-> via, lua |-> result.runs.kind = "lua"])
     /\ entered' = <<[pos |-> pos, via |-> via, runs |-> result.runs,
                      hook |-> IF pos \in DOMAIN hooks THEN hooks[pos] ELSE Original]>>
     /\ UNCHANGED <<hooks, made, dangling, damageVars, arrayVars, crossed>>

InLua == frames # <<>> => Last(frames).lua
InScript == frames # <<>> => ~Last(frames).lua

\* A script calls a function, or a value made of a Lua function.
ScriptCalls(pos) == InScript /\ Enter(pos, "call", hook_enabled)
CallsValue(v) == InScript /\ Enter(v.pos, "value", hook_enabled)

\* Lua calls a function of a script, by scriptcall of an entity or as a value
\* of the machine; by the invoke of a detour, a function of getfunctions or
\* scriptcall of game, hooks are off on the way.
LuaCalls(pos) == InLua /\ Enter(pos, "call", hook_enabled)
LuaInvokes(pos) == InLua /\ Enter(pos, "invoke", FALSE)

\* A function ends, or fails; after an invoke hooks are on in any case.
FunctionEnds ==
  /\ frames # <<>>
  /\ frames' = Front(frames)
  /\ hook_enabled' = (hook_enabled \/ Last(frames).via = "invoke")
  /\ UNCHANGED <<hooks, made, entered, dangling, damageVars, arrayVars, crossed>>

Sets(new) ==
  /\ hooks' = new
  /\ UNCHANGED <<hook_enabled, frames, entered, damageVars, arrayVars, crossed>>

\* A Lua function that is handed to the machine, each time anew.
convert_lua_function(f) ==
  /\ InLua /\ Len(made) < MaxValues
  /\ LET index == Cardinality(DOMAIN hooks) + 1
     IN /\ made' = Append(made, [pos |-> index, of |-> f])
        /\ Sets(Set(index, LuaHook(f)))
  /\ UNCHANGED dangling

detour(pos, f) == InLua /\ Sets(Set(pos, LuaHook(f))) /\ UNCHANGED <<made, dangling>>
replacefunc(what, with) ==
  InScript /\ Sets(Set(what, GscHook(with))) /\ UNCHANGED <<made, dangling>>

disable ==
  /\ InLua /\ \E pos \in DOMAIN hooks : Sets(Clear(pos))
  /\ dangling' = TRUE /\ UNCHANGED made
enable ==
  /\ InLua /\ \E pos \in Code, f \in LuaFn : Sets(Set(pos, LuaHook(f)))
  /\ dangling' = TRUE /\ UNCHANGED made

\* The stub runs the callbacks until it calls the game, or does not.
NotYet == -2
UnderWay == hit.game = NotYet

\* The engine stops: no hooks, no callbacks, and no values of its functions.
clear_callbacks ==
  /\ frames = <<>> /\ ~UnderWay
  /\ hooks' = << >> /\ made' = <<>> /\ entered' = <<>> /\ dangling' = FALSE
  /\ damage_callbacks' = <<>>
  /\ UNCHANGED <<hook_enabled, frames, hit, arrayVars, crossed>>

-----------------------------------------------------------------------------
(* Damage, and death: the callbacks one after the other, each given the    *)
(* damage as the one before left it.  A callback that adds another one is  *)
(* left out, as is damage that a callback does: its stub has a damage of   *)
(* its own.                                                                *)

NoNumber == -1
Effect == {NoNumber, 0, 2}

add_player_damage_callback(effect) ==
  /\ ~UnderWay /\ Len(damage_callbacks) < MaxCallbacks
  /\ damage_callbacks' = Append(damage_callbacks, effect)
  /\ UNCHANGED <<hookVars, hit, arrayVars, crossed>>

scr_player_damage_stub(damage) ==
  /\ ~UnderWay
  /\ hit' = [given |-> damage, damage |-> damage, called |-> 0, game |-> NotYet,
             callbacks |-> damage_callbacks]
  /\ UNCHANGED <<hookVars, damage_callbacks, arrayVars, crossed>>

\* The loop over the callbacks: a number that one returns is the damage from then on.
CallsBack ==
  /\ UnderWay /\ hit.called < Len(damage_callbacks)
  /\ LET result == damage_callbacks[hit.called + 1]
     IN hit' = [hit EXCEPT !.called = @ + 1,
                           !.damage = IF result = NoNumber THEN @ ELSE result]
  /\ UNCHANGED <<hookVars, damage_callbacks, arrayVars, crossed>>

\* No damage does not come to the game.
Damages ==
  /\ UnderWay /\ hit.called = Len(damage_callbacks)
  /\ hit' = [hit EXCEPT !.game = IF hit.damage = 0 THEN NoNumber ELSE hit.damage]
  /\ UNCHANGED <<hookVars, damage_callbacks, arrayVars, crossed>>

-----------------------------------------------------------------------------
(* Arrays and structs.  A child variable holds a field and its value.       *)

Empty0 == [field |-> "none", value |-> 0]
At(field) == {s \in Store : child[s].field = field}
Put0(s, field, value) ==
  child' = [child EXCEPT ![s] = [field |-> field, value |-> value]]

\* The game adds an element, sets it or takes it away.
GameSets(field, value) ==
  /\ LET free == {s \in Store : child[s] = Empty0}
         at == IF At(field) # {} THEN At(field) ELSE free
     IN \E s \in at : Put0(s, field, value)
  /\ wrote' = [wrote EXCEPT ![field] = value]
  /\ UNCHANGED <<table, outlived, hookVars, damageVars, crossed>>

GameRemoves(field) ==
  /\ At(field) # {}
  /\ child' = [s \in Store |-> IF s \in At(field) THEN Empty0 ELSE child[s]]
  /\ wrote' = [wrote EXCEPT ![field] = 0]
  /\ UNCHANGED <<table, outlived, hookVars, damageVars, crossed>>

entity_to_array ==
  /\ table' = {[field |-> child[s].field, index |-> s] :
                 s \in {s \in Store : child[s] # Empty0}}
  /\ UNCHANGED <<child, wrote, outlived, hookVars, damageVars, crossed>>

\* An element of the table is written where it was when the table was made.
array_new_index(field, value) ==
  LET entries == {e \in table : e.field = field}
  IN /\ \E e \in entries :
          /\ child' = [child EXCEPT ![e.index].value = value]
          /\ outlived' = (outlived \/ child[e.index].field # field)
     /\ wrote' = [wrote EXCEPT ![field] = value]
     /\ UNCHANGED <<table, hookVars, damageVars, crossed>>

\* A field of a struct is looked for, and one that is not there is not set.
struct_new_index(field, value) ==
  /\ \E s \in At(field) : Put0(s, field, value)
  /\ wrote' = [wrote EXCEPT ![field] = value]
  /\ UNCHANGED <<table, outlived, hookVars, damageVars, crossed>>

-----------------------------------------------------------------------------
ValuesInit ==
  /\ hooks = << >> /\ hook_enabled = TRUE /\ made = <<>>
  /\ frames = <<>> /\ entered = <<>> /\ dangling = FALSE
  /\ damage_callbacks = <<>> /\ hit = [given |-> 1, damage |-> 1, called |-> 0, game |-> 1,
                                       callbacks |-> <<>>]
  /\ child = [s \in Store |-> Empty0] /\ table = {} /\ outlived = FALSE
  /\ wrote = [f \in Field |-> 0]
  /\ crossed = <<Nil, Nil>>

HookNext ==
  \/ \E pos \in Code :
       \/ ScriptCalls(pos) \/ LuaCalls(pos) \/ LuaInvokes(pos)
       \/ \E f \in LuaFn : detour(pos, f)
       \/ \E with \in Code : replacefunc(pos, with)
  \/ \E v \in ToSet(made) : CallsValue(v)
  \/ \E f \in LuaFn : convert_lua_function(f)
  \/ FunctionEnds \/ disable \/ enable \/ clear_callbacks

DamageNext ==
  \/ \E effect \in Effect : add_player_damage_callback(effect)
  \/ \E damage \in {1, 3} : scr_player_damage_stub(damage)
  \/ CallsBack \/ Damages
  \/ clear_callbacks

ArrayNext ==
  \/ entity_to_array
  \/ \E field \in Field :
       \/ GameRemoves(field)
       \/ \E value \in {1, 2} :
            \/ GameSets(field, value)
            \/ array_new_index(field, value)
            \/ struct_new_index(field, value)

CrossNext == \E value \in LuaValue : Cross(value)

-----------------------------------------------------------------------------
(* Properties.                                                             *)

\* What is left of a value that crosses twice: a boolean is a number then, a
\* number has the machine's width and precision, a table is lost.
Lasting(value) ==
  CASE value.type = "integer" ->
         value.of \in -IntLimit..IntLimit - 1 => crossed[2] = value
    [] value.type = "boolean" -> crossed[2] = [type |-> "integer", of |-> value.of]
    [] value.type = "float" -> crossed[2] = [type |-> "float", of |-> Half]
    [] OTHER -> crossed[2] = IF value.type = "table" THEN Nil ELSE value

\* A value comes back as it was, as far as the machine has such values; what is
\* written to an element is what the array or struct holds there, unless a table
\* has outlived an element (value_conversion.cpp, entity_to_array).
ValuesReadBack ==
  /\ Lasting(crossed[1])
  /\ ~outlived => \A f \in Field : \A s \in At(f) : child[s].value = wrote[f]

\* However Lua and scripts call each other and whatever hooks are set meanwhile:
\* an invoke runs the function itself, any other call what is hooked in its place,
\* and a value made of a Lua function runs that function, unless a detour was
\* enabled or disabled (context.cpp, detour; notifies.cpp, execute_vm_hook).  The
\* damage the game gets is what the last callback that gave a number gave.
DetoursRun ==
  /\ \A i \in DOMAIN entered :
       LET e == entered[i]
       IN /\ e.via = "invoke" => e.runs = Original
          /\ e.via # "invoke" => e.runs = e.hook
  /\ ~dangling => \A v \in ToSet(made) : /\ v.pos \in DOMAIN hooks
                                          /\ hooks[v.pos] = LuaHook(v.of)
  /\ LET numbers == {i \in DOMAIN hit.callbacks : hit.callbacks[i] # NoNumber}
         expected == IF numbers = {} THEN hit.given ELSE hit.callbacks[Max(numbers)]
     IN ~UnderWay => hit.game = IF expected = 0 THEN NoNumber ELSE expected
=============================================================================
