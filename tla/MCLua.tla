------------------------------- MODULE MCLua -------------------------------
(***************************************************************************)
(* The instance of Lua that TLC checks: two scripts, two events, the four  *)
(* kinds of requests, listeners to either event among them.                *)
(***************************************************************************)
EXTENDS Lua

CONSTANTS a, b

MCEvent  == {a, b}
MCEnding == {a}
MCRequest ==
  {[kind |-> "task", volatile |-> v] : v \in BOOLEAN}
    \cup {[kind |-> "listener", volatile |-> TRUE, event |-> e] : e \in Event}
    \cup {[kind |-> "listener", volatile |-> FALSE, event |-> b]}
=============================================================================
