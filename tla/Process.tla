------------------------------ MODULE Process ------------------------------
(***************************************************************************)
(* client/main.cpp, loader/component_loader.cpp, launcher and              *)
(* component/exception.cpp: the life of the process and of its components. *)
(*                                                                         *)
(* main starts the components, lets the launcher choose a mode if no flag  *)
(* does, loads the game's binary and then the components, and enters the   *)
(* game, which calls back when it is unpacked.  Whatever ends the process, *)
(* a component that asks for it, an exception, the launcher closed, the    *)
(* game's ExitProcess or main returning, destroys the components; only a   *)
(* crash that cannot be recovered from does not.                           *)
(***************************************************************************)
EXTENDS Integers, Sequences, SequencesExt

CONSTANTS
  Component,     \* components in the order of their registration
  Unsupported,   \* mode -> components that do not support it
  MaxRecoveries  \* 3

ASSUME ProcessAssumption ==
  /\ Component \in Seq({Component[i] : i \in DOMAIN Component})
  /\ \A i, j \in DOMAIN Component : Component[i] = Component[j] => i = j
  /\ "none" \notin DOMAIN Unsupported
  /\ \A m \in DOMAIN Unsupported : Unsupported[m] \subseteq {Component[i] : i \in DOMAIN Component}
  /\ MaxRecoveries \in Nat

VARIABLES
  phase,        \* what the main thread is doing
  at,           \* and for which component
  components,   \* get_components()
  handled,      \* the functions of component_loader whose `handled' is set
  mode,         \* launcher::mode, "none" before it is known
  windows,      \* windows of the launcher that are open
  hooks,        \* history: component -> the calls it got
  recovery,     \* recovery_data: recoveries, and whether the last was just now
  is_initialized,
  interrupted   \* history: a recovery left pre_destroy in the middle

processVars == <<phase, at, components, handled, mode, windows, hooks, recovery,
                 is_initialized, interrupted>>

Mode == DOMAIN Unsupported

ProcessInit ==
  /\ phase = "main" /\ at = 0
  /\ components = Component
  /\ handled = {}
  /\ mode = "none"
  /\ windows = 0
  /\ hooks = [c \in {Component[i] : i \in DOMAIN Component} |-> <<>>]
  /\ recovery = [counts |-> 0, recent |-> FALSE]
  /\ is_initialized = FALSE
  /\ interrupted = FALSE

Called(c, hook) == [hooks EXCEPT ![c] = Append(@, hook)]
Go(p) == phase' = p /\ at' = 1
\* main is left: the finally block, and the static destructor after it.
Leave == Go("destroy")
-----------------------------------------------------------------------------
(* component_loader                                                        *)

Begin(function, from, to) ==
  /\ phase = from /\ function \notin handled
  /\ handled' = handled \cup {function}
  /\ Go(to)
  /\ UNCHANGED <<components, mode, windows, hooks, recovery, is_initialized, interrupted>>

\* The next component is called, and may throw premature_shutdown_trigger or
\* another exception where it is allowed to: main is left in either case.
CallNext(during, next, mayThrow) ==
  /\ phase = during
  /\ IF at > Len(components)
     THEN Go(next) /\ UNCHANGED hooks
     ELSE /\ hooks' = Called(components[at], during)
          /\ \/ phase' = phase /\ at' = at + 1
             \/ mayThrow /\ Leave
  /\ UNCHANGED <<components, handled, mode, windows, recovery, is_initialized, interrupted>>

post_start == Begin("post_start", "main", "post_start") \/ CallNext("post_start", "detect", TRUE)

\* Fault: a component that is not supported stays in the list.
CleanKeeps ==
  /\ phase = "clean"
  /\ IF at > Len(components) THEN Go("post_load") /\ UNCHANGED <<components, hooks>>
     ELSE /\ at' = at + 1 /\ UNCHANGED <<phase, components>>
          /\ hooks' = IF components[at] \in Unsupported[mode]
                      THEN Called(components[at], "pre_destroy") ELSE hooks
  /\ UNCHANGED <<handled, mode, windows, recovery, is_initialized, interrupted>>

\* clean, within post_load: components that do not support the mode are
\* destroyed and forgotten.
clean ==
  /\ phase = "clean"
  /\ IF at > Len(components) THEN Go("post_load") /\ UNCHANGED <<components, hooks>>
     ELSE IF components[at] \in Unsupported[mode]
     THEN /\ hooks' = Called(components[at], "pre_destroy")
          /\ components' = RemoveAt(components, at)
          /\ UNCHANGED <<phase, at>>
     ELSE at' = at + 1 /\ UNCHANGED <<phase, components, hooks>>
  /\ UNCHANGED <<handled, mode, windows, recovery, is_initialized, interrupted>>

post_load == Begin("post_load", "load", "clean") \/ clean \/ CallNext("post_load", "game", TRUE)

\* The game calls SystemParametersInfoA or GetProcAddress, several times.
post_unpack == Begin("post_unpack", "game", "post_unpack") \/ CallNext("post_unpack", "game", FALSE)

\* exit_hook, the finally block of main, the destructor of the components:
\* whoever comes second finds it handled and goes on.
pre_destroy ==
  \/ Begin("pre_destroy", "destroy", "pre_destroy")
  \/ CallNext("pre_destroy", "exit", FALSE)
  \/ /\ phase = "destroy" /\ "pre_destroy" \in handled
     /\ Go("exit")
     /\ UNCHANGED <<components, handled, mode, windows, hooks, recovery, is_initialized, interrupted>>
-----------------------------------------------------------------------------
(* main and the launcher                                                   *)

Becomes(m, next) ==
  /\ mode' = m
  /\ Go(next)
  /\ UNCHANGED <<components, handled, hooks, recovery, is_initialized, interrupted>>

detect_mode_from_arguments(m) ==
  /\ phase = "detect"
  /\ Becomes(m, IF m = "none" THEN "launcher" ELSE "binary")
  /\ UNCHANGED windows

\* launcher::launcher creates and shows the main window.
create_main_menu ==
  /\ phase = "launcher" /\ windows = 0
  /\ windows' = 1 /\ phase' = "message loop"
  /\ UNCHANGED <<at, components, handled, mode, hooks, recovery, is_initialized, interrupted>>

\* selectMode with another number than those two is ignored.
select_mode(m) ==
  /\ phase = "message loop" /\ windows = 1
  /\ m \in {"singleplayer", "multiplayer"}
  /\ windows' = 0 /\ mode' = m
  /\ UNCHANGED <<phase, at, components, handled, hooks, recovery, is_initialized, interrupted>>

\* WM_CLOSE closes all windows of the thread.
close_all ==
  /\ phase = "message loop" /\ windows = 1
  /\ windows' = 0
  /\ UNCHANGED <<phase, at, components, handled, mode, hooks, recovery, is_initialized, interrupted>>

\* The last window destroyed posts the message that ends window::run.
run ==
  /\ phase = "message loop" /\ windows = 0
  /\ IF mode = "none" THEN Leave ELSE Go("binary")
  /\ UNCHANGED <<components, handled, mode, windows, hooks, recovery, is_initialized, interrupted>>

\* The binary is read, mapped and its imports resolved, or an exception thrown.
load_binary ==
  /\ phase = "binary"
  /\ Go("load") \/ Leave
  /\ UNCHANGED <<components, handled, mode, windows, hooks, recovery, is_initialized, interrupted>>

\* The game calls ExitProcess, in a callback of post_unpack as well, or its
\* entry point returns.
exit_hook ==
  /\ phase \in {"game", "post_unpack"}
  /\ Leave
  /\ UNCHANGED <<components, handled, mode, windows, hooks, recovery, is_initialized, interrupted>>
-----------------------------------------------------------------------------
(* Crashes                                                                 *)

\* on_game_initialized
SetInitialized ==
  /\ phase = "game" /\ "post_unpack" \in handled /\ ~is_initialized
  /\ is_initialized' = TRUE
  /\ UNCHANGED <<phase, at, components, handled, mode, windows, hooks, recovery, interrupted>>

MinutePasses ==
  /\ recovery.recent
  /\ recovery' = [recovery EXCEPT !.recent = FALSE]
  /\ UNCHANGED <<phase, at, components, handled, mode, windows, hooks, is_initialized, interrupted>>

is_recoverable(game_thread) ==
  /\ game_thread /\ is_initialized
  /\ ~recovery.recent /\ recovery.counts < MaxRecoveries

\* exception_filter and reset_state: a minidump, and the game drops to its
\* menu, from wherever its thread was; or the process is terminated, and a
\* dedicated server started anew.  Harmless errors just go on.
reset_state(game_thread, legacy) ==
  /\ "post_load" \in handled /\ phase \in {"game", "post_unpack", "pre_destroy"}
  /\ IF ~legacy /\ mode \notin {"server", "linker"} /\ is_recoverable(game_thread)
     THEN /\ recovery' = [counts |-> recovery.counts + 1, recent |-> TRUE]
          /\ interrupted' = (interrupted \/ phase = "pre_destroy")
          /\ Go("game")
     ELSE Go("terminated") /\ UNCHANGED <<recovery, interrupted>>
  /\ UNCHANGED <<components, handled, mode, windows, hooks, is_initialized>>

ProcessNext ==
  \/ post_start
  \/ \E m \in Mode \cup {"none"} : detect_mode_from_arguments(m)
  \/ create_main_menu
  \/ \E m \in Mode : select_mode(m)
  \/ close_all
  \/ run
  \/ load_binary
  \/ post_load
  \/ post_unpack
  \/ exit_hook
  \/ pre_destroy
  \/ SetInitialized
  \/ MinutePasses
  \/ \E game_thread, legacy \in BOOLEAN : reset_state(game_thread, legacy)
-----------------------------------------------------------------------------
(* Properties                                                              *)

Order == <<"post_start", "post_load", "post_unpack", "pre_destroy">>
Rank(hook) == CHOOSE i \in 1..4 : Order[i] = hook

\* Whatever ends the process and whatever throws or crashes: a component sees
\* each of its hooks at most once and in their order, none after pre_destroy
\* and none of the game's if it does not support the mode; and a process that
\* exits has destroyed every component, as long as no crash was recovered from
\* in the middle of that (component_loader, main, exception).
DestroyedOnce ==
  \A c \in DOMAIN hooks :
    /\ \A i \in 1..Len(hooks[c]) - 1 : Rank(hooks[c][i]) < Rank(hooks[c][i + 1])
    /\ mode # "none" /\ c \in Unsupported[mode] => {"post_load", "post_unpack"} \cap ToSet(hooks[c]) = {}
    /\ phase = "exit" /\ ~interrupted => "pre_destroy" \in ToSet(hooks[c])
=============================================================================
