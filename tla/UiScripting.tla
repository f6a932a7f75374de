---------------------------- MODULE UiScripting ----------------------------
(***************************************************************************)
(* client/component/ui_scripting.cpp and client/game/ui_scripting: scripts *)
(* of the game's menus, run by its second Lua machine (HKS).               *)
(*                                                                         *)
(* C++ keeps values of the machine alive through references in its         *)
(* registry.  A userdata, table or function (types.cpp) owns one; so does  *)
(* the hks_object in a script_value, but a move leaves the reference       *)
(* behind with the object moved from (script_value.cpp:36), and a release  *)
(* does not forget it (script_value.cpp:70).  A converted function is a    *)
(* closure that may hold handles until the machine shuts down.             *)
(*                                                                         *)
(* The other half are the scripts: those of a custom folder require files  *)
(* of that folder, all others those of the game.  The machine runs the     *)
(* game's own scripts before the custom ones.                              *)
(***************************************************************************)
EXTENDS Integers, FiniteSets, FiniteSetsExt

CONSTANTS
  Slot,   \* BOUND: places for C++ variables
  HksValue,  \* tables, functions, userdata, strings of the machine
  UiScript  \* custom script files, the folders' own __init__.lua among them

ASSUME UiScriptingAssumption == IsFiniteSet(Slot) /\ UiScript # {} /\ "" \notin UiScript

VARIABLES
  hks,        \* "none", "starting": runs the game's scripts, "loading", "running"
  registry,   \* reference -> value
  objects,    \* Slot -> the C++ variable there
  converted_functions,  \* the variables that converted functions hold
  uiGlobals,  \* globals of ui_scripting.cpp
  requiring,  \* the script whose require looks for a file, as the stack tells
  unowned     \* history: a reference was given back by one who had no right to

uiVars == <<hks, registry, objects, converted_functions, uiGlobals, requiring, unowned>>

NoScript == ""
Ready == hks \in {"loading", "running"}
Nothing == "nil"
\* Each variable needs a reference, and a constructor one in passing.
Ref == 1..Cardinality(Slot) + 1
Unused == [class |-> "none", value |-> Nothing, ref |-> 0, owns |-> FALSE]
NoGlobals == [in_require_script |-> NoScript, loaded_scripts |-> <<>>,
              load_raw_script |-> FALSE, raw_script_name |-> NoScript]

UiInit ==
  /\ hks = "none"
  /\ registry = [r \in Ref |-> Nothing]
  /\ objects = [s \in Slot |-> Unused]
  /\ converted_functions = {}
  /\ uiGlobals = NoGlobals
  /\ requiring = Nothing
  /\ unowned = FALSE
-----------------------------------------------------------------------------
(* References                                                              *)

Used(s) == objects[s].class # "none"
Local(s) == Used(s) /\ s \notin converted_functions

\* add, assign: luaL_ref takes a free reference; a value that is nothing gets
\* the reference that luaL_unref ignores.
TakeRef(reg, obj) ==
  LET r == Min({x \in Ref : reg[x] = Nothing})
  IN IF obj.value = Nothing THEN [registry |-> reg, object |-> obj]
     ELSE [registry |-> [reg EXCEPT ![r] = obj.value],
           object |-> [obj EXCEPT !.ref = r, !.owns = TRUE]]

\* release: luaL_unref, whatever the reference means by now.
GiveRef(reg, obj) == IF obj.ref = 0 THEN reg ELSE [reg EXCEPT ![obj.ref] = Nothing]

Wrong(obj) == obj.ref # 0 /\ ~obj.owns

Put(s, reg, obj, wrong) ==
  /\ registry' = reg
  /\ objects' = [objects EXCEPT ![s] = obj]
  /\ unowned' = (unowned \/ wrong)
  /\ UNCHANGED <<hks, converted_functions, uiGlobals, requiring>>

Variable(class, v) == [class |-> class, value |-> v, ref |-> 0, owns |-> FALSE]

\* The constructors of handles, and of an hks_object from a raw value.
Construct(s, class, v) ==
  /\ Ready /\ ~Used(s)
  /\ LET new == TakeRef(registry, Variable(class, v)) IN Put(s, new.registry, new.object, FALSE)

\* A script_value of a number, a string or a handle: the hks_object made from
\* the value is moved into the member, and takes its reference with it.  The
\* default constructor leaves the value nothing.
ConstructValue(s, v) ==
  /\ Ready /\ ~Used(s)
  /\ Put(s, registry, Variable("object", v), FALSE)

\* operator= of handles and of hks_object; the copy constructors call it.
CopyAssign(s, from) ==
  /\ Ready /\ s # from /\ Used(from)
  /\ ~Used(s) \/ (Local(s) /\ objects[s].class = objects[from].class)
  /\ LET new == TakeRef(GiveRef(registry, objects[s]), Variable(objects[from].class, objects[from].value))
     IN Put(s, new.registry, new.object, Wrong(objects[s]))

\* operator= of handles that takes the reference over: the variable moved from
\* stays, with the value and no reference.
MoveAssign(s, from) ==
  /\ s # from /\ Local(from) /\ objects[from].class = "handle"
  /\ ~Used(s) \/ (Local(s) /\ objects[s].class = "handle")
  /\ registry' = GiveRef(registry, objects[s])
  /\ objects' = [objects EXCEPT ![s] = objects[from], ![from].ref = 0, ![from].owns = FALSE]
  /\ unowned' = (unowned \/ Wrong(objects[s]))
  /\ UNCHANGED <<hks, converted_functions, uiGlobals, requiring>>

\* operator= of hks_object that leaves both references where they are.
MoveAssignObject(s, from) ==
  /\ s # from /\ Local(s) /\ Local(from)
  /\ objects[s].class = "object" /\ objects[from].class = "object"
  /\ registry' = GiveRef(registry, objects[s])
  /\ objects' = [objects EXCEPT ![s].value = objects[from].value, ![s].owns = FALSE, ![from].value = Nothing]
  /\ unowned' = (unowned \/ Wrong(objects[s]))
  /\ UNCHANGED <<hks, converted_functions, uiGlobals, requiring>>

\* The destructors.
Destroy(s) ==
  /\ Local(s)
  /\ Put(s, GiveRef(registry, objects[s]), Unused, Wrong(objects[s]))

\* convert_function: the closure holds what the function has captured.
convert_function(s) ==
  /\ Local(s) /\ objects[s].class = "handle"
  /\ converted_functions' = converted_functions \cup {s}
  /\ UNCHANGED <<hks, registry, objects, uiGlobals, requiring, unowned>>
-----------------------------------------------------------------------------
(* The machine and its scripts                                             *)

Loaded(scripts, name, root) == [f \in DOMAIN scripts \cup {name} |-> IF f = name THEN root ELSE scripts[f]]

\* hks_start_stub: hks_start_hook.invoke creates the machine and runs the
\* game's scripts, and only then come ours.
hks_start_stub ==
  /\ hks = "none"
  /\ hks' = "starting"
  /\ UNCHANGED <<registry, objects, converted_functions, uiGlobals, requiring, unowned>>

\* try_start, once the game's scripts have run.
start ==
  /\ hks = "starting" /\ ~uiGlobals.load_raw_script
  /\ hks' = "loading"
  /\ uiGlobals' = NoGlobals
  /\ requiring' = Nothing
  /\ UNCHANGED <<registry, objects, converted_functions, unowned>>

\* load_scripts, load_script: the __init__.lua of one folder after another; one
\* that fails to compile or to run stays in loaded_scripts.
load_scripts(name) ==
  /\ hks = "loading" /\ ~uiGlobals.load_raw_script
  /\ uiGlobals' = [uiGlobals EXCEPT !.loaded_scripts = Loaded(@, name, name)]
  /\ requiring' = Nothing
  /\ UNCHANGED <<hks, registry, objects, converted_functions, unowned>>

\* There are no more folders, or try_start catches what one of them throws.
Started ==
  /\ hks = "loading" /\ ~uiGlobals.load_raw_script
  /\ hks' = "running"
  /\ UNCHANGED <<registry, objects, converted_functions, uiGlobals, requiring, unowned>>

\* converted_functions.clear() and then the machine, whose values go.
ClearAndShutdown ==
  /\ registry' = [r \in Ref |-> Nothing]
  /\ unowned' = (unowned \/ \E s \in converted_functions : Wrong(objects[s]))

\* hks_shutdown_stub, at the end or by lui_restart, which is a command and so
\* never runs inside of a function of ours: only closures hold variables.
hks_shutdown_stub ==
  /\ hks = "running" /\ ~uiGlobals.load_raw_script
  /\ \A s \in Slot : ~Local(s)
  /\ ClearAndShutdown
  /\ objects' = [s \in Slot |-> Unused]
  /\ converted_functions' = {}
  /\ uiGlobals' = NoGlobals
  /\ requiring' = Nothing
  /\ hks' = "none"

get_root_script(name) ==
  IF name \in DOMAIN uiGlobals.loaded_scripts THEN uiGlobals.loaded_scripts[name] ELSE NoScript

is_loaded_script(name) == name \in DOMAIN uiGlobals.loaded_scripts

\* Fault: a script of the game's leaves the root as it was.
RequireKeepsRoot(script) ==
  /\ hks # "none" /\ ~uiGlobals.load_raw_script
  /\ uiGlobals' = (IF is_loaded_script(script)
                    THEN [uiGlobals EXCEPT !.in_require_script = get_root_script(script)] ELSE uiGlobals)
  /\ requiring' = script
  /\ UNCHANGED <<hks, registry, objects, converted_functions, unowned>>

\* hks_package_require_stub: a script, the game's or a custom one, requires.
hks_package_require_stub(script) ==
  /\ hks # "none" /\ ~uiGlobals.load_raw_script
  /\ uiGlobals' = [uiGlobals EXCEPT !.in_require_script = get_root_script(script)]
  /\ requiring' = script
  /\ UNCHANGED <<hks, registry, objects, converted_functions, unowned>>

\* db_find_x_asset_header_stub, as the require looks for its file, finds one of
\* the root's folder; else the game looks for its own or there is none, and
\* nothing here changes.
db_find_x_asset_header_stub(target) ==
  /\ hks # "none" /\ requiring # Nothing
  /\ is_loaded_script(uiGlobals.in_require_script)
  /\ ~uiGlobals.load_raw_script
  /\ uiGlobals' = [uiGlobals EXCEPT !.load_raw_script = TRUE, !.raw_script_name = target]
  /\ UNCHANGED <<hks, registry, objects, converted_functions, requiring, unowned>>

\* hks_load_stub of the file found.
hks_load_stub ==
  /\ hks # "none" /\ uiGlobals.load_raw_script
  /\ uiGlobals' = [uiGlobals EXCEPT !.load_raw_script = FALSE,
                     !.loaded_scripts = Loaded(@, uiGlobals.raw_script_name, uiGlobals.in_require_script)]
  /\ requiring' = Nothing
  /\ UNCHANGED <<hks, registry, objects, converted_functions, unowned>>

\* What follows a reference given back by the wrong one is undefined.
UiNext ==
  /\ ~unowned
  /\ \/ \E s \in Slot, v \in HksValue :
          \/ \E class \in {"handle", "object"} : Construct(s, class, v)
          \/ ConstructValue(s, v)
     \/ \E s, from \in Slot :
          \/ CopyAssign(s, from)
          \/ MoveAssign(s, from)
          \/ MoveAssignObject(s, from)
     \/ \E s \in Slot :
          \/ Destroy(s)
          \/ convert_function(s)
     \/ \E s \in Slot : ConstructValue(s, Nothing)
     \/ hks_start_stub
     \/ start
     \/ \E name \in UiScript : load_scripts(name)
     \/ Started
     \/ hks_shutdown_stub
     \/ \E script \in UiScript \cup {NoScript} : hks_package_require_stub(script)
     \/ \E target \in UiScript : db_find_x_asset_header_stub(target)
     \/ hks_load_stub
-----------------------------------------------------------------------------
(* Properties                                                              *)

Owners(r) == {s \in Slot : objects[s].owns /\ objects[s].ref = r}

\* As long as no script_value was moved onto another that owned a reference:
\* whatever is constructed, copied, moved, captured and destroyed, every
\* userdata, table and function but those moved from has a reference of its own
\* to its value (types.cpp), every reference taken is somebody's to give back,
\* and none outlives the machine.
HandlesRooted ==
  ~unowned =>
    /\ \A s \in Slot : objects[s].class = "handle" /\ objects[s].ref # 0 =>
         objects[s].owns /\ registry[objects[s].ref] = objects[s].value
    /\ \A r \in Ref : Cardinality(Owners(r)) = IF registry[r] = Nothing THEN 0 ELSE 1
    /\ hks = "none" => \A r \in Ref : registry[r] = Nothing

\* However files require each other, and across restarts of the machine: the
\* root of every custom script is itself a script that was loaded, and a file
\* of a custom folder is only loaded for a script of that folder, never for
\* one of the game's (db_find_x_asset_header_stub, hks_load_stub).
RootsLoaded ==
  LET scripts == uiGlobals.loaded_scripts
  IN /\ \A f \in DOMAIN scripts : scripts[f] \in DOMAIN scripts
     /\ uiGlobals.load_raw_script =>
          requiring \in DOMAIN scripts /\ scripts[requiring] = uiGlobals.in_require_script
=============================================================================
