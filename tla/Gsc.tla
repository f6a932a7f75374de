-------------------------------- MODULE Gsc --------------------------------
(***************************************************************************)
(* client/component/gsc and the tables of component/scripting.cpp and      *)
(* component/notifies.cpp: scripts that are compiled and loaded with a     *)
(* level, the functions they consist of, and what replaces them.           *)
(*                                                                         *)
(* The game loads a level's scripts (GScr_LoadScripts): its own, then the  *)
(* custom ones.  It runs their main and init functions, and at the end of  *)
(* the level may keep or free them.  Everything that points into a script  *)
(* has to go with it: handles, cached compilations, function tables, hooks.*)
(*                                                                         *)
(* A file is a number, a position in its code one of the numbers from      *)
(* Start(f) on; every function takes Length positions.  The compiler and   *)
(* the script machine are external; tokens and canonical strings, which    *)
(* only turn numbers into names, are left out.                             *)
(***************************************************************************)
EXTENDS Integers, Sequences, SequencesExt, FiniteSets

CONSTANTS
  Files,       \* number of script files
  Functions,   \* BOUND: functions of a file
  MaxHooks,    \* BOUND: hooks at a time
  Length       \* positions of a function

ASSUME GscAssumption ==
  Files \in Nat /\ Functions \in Nat \ {0} /\ Length \in Nat \ {0} /\ MaxHooks \in Nat

File == 1..Files
Start(f) == f * (Functions * Length)
Position(f, k) == Start(f) + (k - 1) * Length

NoHook == 0
EndMark == "__end__"

\* What the compiler makes of a file: its functions, in the order of the code.
Compiled == {code \in BoundedSeq({"main", "init", "other"}, Functions) : IsInjective(code)}

VARIABLES
  phase,           \* "no level", "begun", "loading", "loaded", "structs", "level"
  live,            \* the files whose code the script machine has
  loaded_scripts,  \* the files compiled from disk
  main_handles, init_handles,  \* the files with such a function
  script_function_table_sort,  \* per file: names and positions
  script_function_table,       \* the same as pairs of a file and a row, and its reverse
  vm_execute_hooks,  \* position -> what replaces it, NoHook for no hook
  gsc_error_msg      \* a message waits for the error handler, force_error_print is set

tables == <<script_function_table_sort, script_function_table>>
handles == <<loaded_scripts, main_handles, init_handles>>
gscVars == <<phase, live, handles, tables, vm_execute_hooks, gsc_error_msg>>

Hookable == {Position(f, k) : f \in File, k \in 1..Functions}
NoTable == [f \in File |-> <<>>]
NoHooks == [p \in Hookable |-> NoHook]
LuaFunction == -1

GscInit ==
  /\ phase = "no level"
  /\ live = {}
  /\ loaded_scripts = {} /\ main_handles = {} /\ init_handles = {}
  /\ script_function_table_sort = NoTable
  /\ script_function_table = {}
  /\ vm_execute_hooks = NoHooks
  /\ gsc_error_msg = FALSE
-----------------------------------------------------------------------------
(* Loading                                                                 *)

\* scr_begin_load_scripts_stub: the compiler is set up.  The game loads
\* scripts only after it freed those it had.
scr_begin_load_scripts_stub ==
  /\ phase = "no level" /\ live = {}
  /\ phase' = "begun"
  /\ UNCHANGED <<live, handles, tables, vm_execute_hooks, gsc_error_msg>>

Row(f, name, k) == [name |-> name, pos |-> Position(f, k)]

\* add_function_sort: every row is inserted before the last, which marks the end
\* of the code, so the rows stand in its order.
Sorted(f, code) ==
  [k \in 1..Len(code) + 1 |-> Row(f, IF k = Len(code) + 1 THEN EndMark ELSE code[k], k)]

\* scr_set_thread_position_stub for each function, in the order of the code: a
\* file without functions gets no table.
Emit(f, code) ==
  /\ script_function_table_sort' =
       [script_function_table_sort EXCEPT ![f] = IF code = <<>> THEN @ ELSE Sorted(f, code)]
  /\ script_function_table' =
       script_function_table \cup {<<f, Row(f, code[k], k)>> : k \in 1..Len(code)}

\* ProcessScript, of a file that the machine does not have: load_custom_script
\* compiles what is on disk or a raw file of a fastfile, and caches it.
ProcessScript(f, custom, code) ==
  /\ f \notin live
  /\ live' = live \cup {f}
  /\ loaded_scripts' = (IF custom THEN loaded_scripts \cup {f} ELSE loaded_scripts)
  /\ Emit(f, code)

\* The game's own scripts, which find_script may replace by custom ones.
GameLoads(f, custom, code) ==
  /\ phase = "begun"
  /\ ProcessScript(f, custom, code)
  /\ UNCHANGED <<phase, main_handles, init_handles, vm_execute_hooks, gsc_error_msg>>

\* clear of gsc::loading.
Forget == loaded_scripts' = {} /\ main_handles' = {} /\ init_handles' = {}

\* gscr_load_game_type_script_stub, up to the loop over the custom scripts.
gscr_load_game_type_script_stub ==
  /\ phase = "begun"
  /\ phase' = "loading"
  /\ Forget
  /\ UNCHANGED <<live, tables, vm_execute_hooks, gsc_error_msg>>

\* Scr_GetFunctionHandle, of a file just loaded.
HasHandle(f, name) == \E row \in script_function_table' : row[1] = f /\ row[2].name = name

\* load_script: Scr_LoadScript does nothing more for a file that the machine
\* has, and fails for one that does not compile, which leaves nothing behind.
load_script(f, custom, code) ==
  /\ phase = "loading"
  /\ \/ ProcessScript(f, custom, code)
     \/ f \in live /\ UNCHANGED <<live, loaded_scripts, tables>>
  /\ main_handles' = (IF HasHandle(f, "main") THEN main_handles \cup {f} ELSE main_handles)
  /\ init_handles' = (IF HasHandle(f, "init") THEN init_handles \cup {f} ELSE init_handles)
  /\ UNCHANGED <<phase, vm_execute_hooks, gsc_error_msg>>

scr_end_load_scripts_stub ==
  /\ phase = "loading"
  /\ phase' = "loaded"
  /\ UNCHANGED <<live, handles, tables, vm_execute_hooks, gsc_error_msg>>

\* g_load_structs_stub runs the main functions; also when the level restarts
\* with the scripts that were kept, and so without loading.
g_load_structs_stub ==
  /\ phase = "loaded" \/ (phase = "no level" /\ live # {})
  /\ phase' = "structs"
  /\ UNCHANGED <<live, handles, tables, vm_execute_hooks, gsc_error_msg>>

\* scr_load_level_stub runs the init functions, and Lua starts.
scr_load_level_stub ==
  /\ phase = "structs"
  /\ phase' = "level"
  /\ UNCHANGED <<live, handles, tables, vm_execute_hooks, gsc_error_msg>>

\* g_shutdown_game_stub: the Lua engine stops, which clears all hooks, then the
\* tables and, from the callback of gsc::loading, handles and cache.  Where
\* loading ended in a script link error (compile_error_stub), all is freed.
ShutdownGame(free_scripts) ==
  /\ phase # "no level"
  /\ phase # "level" => free_scripts
  /\ phase' = "no level"
  /\ vm_execute_hooks' = NoHooks
  /\ IF free_scripts
     THEN /\ live' = {}
          /\ script_function_table_sort' = NoTable
          /\ script_function_table' = {}
          /\ Forget
     ELSE UNCHANGED <<live, handles, tables>>
  /\ UNCHANGED gsc_error_msg
-----------------------------------------------------------------------------
(* Hooks                                                                   *)

\* The positions getfunction and the scripts' own function values have.
Names == {row[2].pos : row \in script_function_table}

\* replacefunc, with positions from getfunction; detour of Lua.
set_hook(what, with) ==
  /\ phase \in {"structs", "level"}
  /\ with = LuaFunction => phase = "level"
  /\ what \in Names /\ with \in Names \cup {LuaFunction}
  /\ Cardinality({p \in Hookable \ {what} : vm_execute_hooks[p] # NoHook}) < MaxHooks
  /\ vm_execute_hooks' = [vm_execute_hooks EXCEPT ![what] = with]
  /\ UNCHANGED <<phase, live, handles, tables, gsc_error_msg>>

\* clear_hook, by a detour that is disabled.
clear_hook(what) ==
  /\ phase = "level"
  /\ vm_execute_hooks[what] # NoHook
  /\ vm_execute_hooks' = [vm_execute_hooks EXCEPT ![what] = NoHook]
  /\ UNCHANGED <<phase, live, handles, tables, gsc_error_msg>>

\* execute_vm_hook, of a hook that is enabled, at the first instruction of a
\* function: the machine goes on with the function itself, the one that replaces
\* it, or an empty one after the Lua function has run.
Target(pos) == IF vm_execute_hooks[pos] = NoHook THEN pos ELSE vm_execute_hooks[pos]
-----------------------------------------------------------------------------
(* Errors                                                                  *)

\* What the getters of parameters take: scr_get_object, scr_get_const_string,
\* which casts, scr_get_const_istring, scr_get_vector, scr_get_int,
\* scr_get_float and scr_get_type.
Types == {"object", "string", "istring", "vector", "int", "float"}
Accepts ==
  [object |-> {"object"}, string |-> {"string", "int", "float", "vector"}, istring |-> {"istring"},
   vector |-> {"vector"}, int |-> {"int"}, float |-> {"float", "int"}, type |-> Types]

\* A parameter that is missing or of a type the getter does not take.
ParameterError(given, wanted) == ~(given # <<>> /\ Head(given) \in Accepts[wanted])

\* A custom function fails when the machine called it: execute_custom_function
\* and vm_error_stub, which prints the message and drops it.
CustomError(given, wanted) ==
  /\ phase = "level"
  /\ ParameterError(given, wanted)
  /\ gsc_error_msg' = FALSE
  /\ UNCHANGED <<phase, live, handles, tables, vm_execute_hooks>>

\* scr_error when Lua called: safe_execution ends the call, and no handler of
\* the machine drops the message.
CustomErrorFromLua ==
  /\ phase = "level"
  /\ gsc_error_msg' = TRUE
  /\ UNCHANGED <<phase, live, handles, tables, vm_execute_hooks>>

\* Another error of the machine: without developer_script it is printed only
\* if a message was left behind, and then with that message.
OtherError(developer_script) ==
  /\ phase = "level"
  /\ gsc_error_msg \/ developer_script
  /\ gsc_error_msg' = FALSE
  /\ UNCHANGED <<phase, live, handles, tables, vm_execute_hooks>>

GscNext ==
  \/ scr_begin_load_scripts_stub
  \/ \E f \in File, custom \in BOOLEAN, code \in Compiled :
       GameLoads(f, custom, code) \/ load_script(f, custom, code)
  \/ gscr_load_game_type_script_stub
  \/ scr_end_load_scripts_stub
  \/ g_load_structs_stub
  \/ scr_load_level_stub
  \/ \E free_scripts \in BOOLEAN : ShutdownGame(free_scripts)
  \/ \E what \in Hookable :
       \/ \E with \in Hookable \cup {LuaFunction} : set_hook(what, with)
       \/ clear_hook(what)
  \/ \E given \in BoundedSeq(Types, 1), wanted \in DOMAIN Accepts : CustomError(given, wanted)
  \/ CustomErrorFromLua
  \/ \E developer_script \in BOOLEAN : OtherError(developer_script)

-----------------------------------------------------------------------------
(* Properties                                                              *)

\* find_function of script_error.cpp: the row whose positions hold pos.
find_function(pos) ==
  UNION {LET rows == script_function_table_sort[f]
         IN {<<f, rows[k].name>> : k \in {j \in 1..Len(rows) - 1 : pos >= rows[j].pos /\ pos < rows[j + 1].pos}}
         : f \in File}

\* Whatever is loaded, kept and freed from level to level: handles, cached
\* compilations, tables and hooks point only into scripts the machine has, and
\* a position anywhere in the code of a function is found to be of that
\* function, and of no other.
TablesMatchScripts ==
  /\ main_handles \cup init_handles \cup loaded_scripts \subseteq live
  /\ \A row \in script_function_table : row[1] \in live
  /\ \A p \in Hookable :
       vm_execute_hooks[p] # NoHook => {p, Target(p)} \subseteq Names \cup {LuaFunction}
  /\ \A row \in script_function_table :
       \A d \in 0..Length - 1 : find_function(row[2].pos + d) = {<<row[1], row[2].name>>}
=============================================================================
