---------------------------- MODULE MCScripting ----------------------------
(***************************************************************************)
(* The instance of ScriptVM, Gsc, UiScripting and LuaValues that TLC       *)
(* checks.  They share no state, so a behaviour of all of them shows       *)
(* nothing of one that its own steps do not: a behaviour here is one of a  *)
(* component chosen at the start, while the others stay in their first     *)
(* state.  LuaValues is in four parts, of which each is such a component.  *)
(***************************************************************************)
EXTENDS ScriptVM, Gsc, UiScripting, LuaValues

VARIABLE component

Init ==
  /\ component \in {"ScriptVM", "Gsc", "UiScripting", "Hook", "Damage", "Array", "Cross"}
  /\ VMInit /\ (component = "ScriptVM" \/ owned = {})
  /\ GscInit
  /\ UiInit
  /\ ValuesInit

Next ==
  /\ UNCHANGED component
  /\ \/ component = "ScriptVM" /\ VMNext /\ UNCHANGED <<gscVars, uiVars, valuesVars>>
     \/ component = "Gsc" /\ GscNext /\ UNCHANGED <<vmVars, uiVars, valuesVars>>
     \/ component = "UiScripting" /\ UiNext /\ UNCHANGED <<vmVars, gscVars, valuesVars>>
     \/ /\ \/ component = "Hook" /\ HookNext
           \/ component = "Damage" /\ DamageNext
           \/ component = "Array" /\ ArrayNext
           \/ component = "Cross" /\ CrossNext
        /\ UNCHANGED <<vmVars, gscVars, uiVars>>

vars == <<component, vmVars, gscVars, uiVars, valuesVars>>

Spec == Init /\ [][Next]_vars

\* Functions are found in the scripts that are loaded, and the menus keep the
\* scripts and handles they use, across levels and restarts (script_loading.cpp,
\* types.cpp, ui_scripting.cpp).
ScriptsKept == TablesMatchScripts /\ HandlesRooted /\ RootsLoaded

\* Between Lua and the scripts, a call reaches the function it is to reach and a
\* value arrives as it was (context.cpp, notifies.cpp, value_conversion.cpp).
LuaBridged == DetoursRun /\ ValuesReadBack
=============================================================================
