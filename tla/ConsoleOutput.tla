--------------------------- MODULE ConsoleOutput ---------------------------
(***************************************************************************)
(* client/component/game_console.cpp: the output of the game's console.    *)
(*                                                                         *)
(* Every thread prints, the main thread scrolls and clears, the renderer   *)
(* measures the window each frame.  A lock guards the lines.  The first    *)
(* line shown is scrolled along inside of it, but clear resets that before *)
(* it takes the lock.                                                      *)
(***************************************************************************)
EXTENDS Integers, Sequences

CONSTANTS
  OutputSize,     \* lines kept, 512
  Visible,        \* the counts of visible lines a window may have
  MaxLines        \* BOUND: lines printed

ASSUME ConsoleOutputAssumption ==
  OutputSize \in Nat /\ MaxLines \in Nat /\ Visible \subseteq 1..OutputSize

VARIABLES
  output,    \* con.output: the prints, numbered
  scroll,    \* con.display_line_offset and con.visible_line_count
  clearing,  \* the main thread is between the two steps of a clear
  resized,   \* history: the window has changed since it was first drawn
  torn       \* history: a line was printed in the middle of a clear

outputVars == <<output, scroll, clearing, resized, torn>>

OutputInit ==
  /\ output = <<>>
  /\ scroll = [offset |-> 0, visible |-> 0]
  /\ clearing = FALSE /\ resized = FALSE /\ torn = FALSE


\* A line is added under the lock; a window at the end of the output follows.
print_internal ==
  LET last == IF output = <<>> THEN 0 ELSE output[Len(output)]
      grown == Append(output, last + 1)
  IN /\ last < MaxLines
     /\ output' = IF Len(grown) > OutputSize THEN Tail(grown) ELSE grown
     /\ scroll' = IF scroll.visible > 0 /\ scroll.offset = Len(output) - scroll.visible
                  THEN [scroll EXCEPT !.offset = @ + 1] ELSE scroll
     /\ torn' = (torn \/ clearing)
     /\ UNCHANGED <<clearing, resized>>

Scrolled(down) ==
  IF ~down /\ Len(output) > scroll.visible /\ scroll.offset > 0
  THEN [scroll EXCEPT !.offset = @ - 1]
  ELSE IF down /\ Len(output) > scroll.visible /\ scroll.offset < Len(output) - scroll.visible
       THEN [scroll EXCEPT !.offset = @ + 1] ELSE scroll

ScrollKey(down) ==
  /\ ~clearing
  /\ scroll' = Scrolled(down)
  /\ UNCHANGED <<output, clearing, resized, torn>>

\* Ctrl-C and the command clear: the offset, and then the lines.
ClearOffset ==
  /\ ~clearing
  /\ clearing' = TRUE
  /\ scroll' = [scroll EXCEPT !.offset = 0]
  /\ UNCHANGED <<output, resized, torn>>

ClearLines ==
  /\ clearing
  /\ clearing' = FALSE
  /\ output' = <<>>
  /\ UNCHANGED <<scroll, resized, torn>>

\* The renderer fits the count of visible lines to the window.
check_resize(visible) ==
  /\ scroll' = [scroll EXCEPT !.visible = visible]
  /\ resized' = (resized \/ (visible # scroll.visible /\ scroll # [offset |-> 0, visible |-> 0]))
  /\ UNCHANGED <<output, clearing, torn>>

\* The rows of the window: the lines from the offset on, as far as there are.
draw_output_text ==
  {i \in 1..Len(output) : i > scroll.offset /\ i <= scroll.offset + scroll.visible}

OutputNext ==
  \/ print_internal
  \/ \E down \in BOOLEAN : ScrollKey(down)
  \/ ClearOffset
  \/ ClearLines
  \/ \E visible \in Visible : check_resize(visible)
-----------------------------------------------------------------------------
(* Properties                                                              *)

\* However many lines come and go while it scrolls: the lines are the newest
\* in the order of their prints, at most OutputSize; and the window is never
\* further past the newest than the one line that a full output costs it, so
\* no line is out of its reach and it is not blank, as long as it kept
\* its size and nothing was printed in the middle of a clear (print_internal,
\* console_key_event, clear).
OutputInReach ==
  /\ Len(output) <= OutputSize
  /\ \A i \in 1..Len(output) - 1 : output[i + 1] = output[i] + 1
  /\ ~resized /\ ~torn /\ Len(output) > scroll.visible =>
       /\ scroll.offset <= Len(output) - scroll.visible + 1
       /\ scroll.visible > 1 => draw_output_text # {}
=============================================================================
