---------------------------- MODULE GameConsole ----------------------------
(***************************************************************************)
(* client/component/game_console.cpp: the input of the game's console.     *)
(*                                                                         *)
(* Two threads meet at the line edited.  The main thread handles the keys; *)
(* the renderer draws the line each frame and, doing so, looks up what its *)
(* text may stand for.  No lock guards the line, its matches and           *)
(* fixed_input, and ENTER executes fixed_input: what the renderer saw last.*)
(* A frame that finds the line empty looks nothing up: a line erased letter*)
(* by letter still executes what was last seen on it.                      *)
(* The lines of output are in ConsoleOutput.                               *)
(***************************************************************************)
EXTENDS Integers, Sequences, FiniteSets, SequencesExt

CONSTANTS
  Letter,         \* letters of names
  Slash, Space,   \* '/' or '\\', and ' '
  Key,            \* BOUND: characters typed
  Names,          \* names of dvars and commands, in lower case, in their order
  InputSize,      \* sizeof(con.buffer), 256
  HistorySize,    \* lines of history kept, 10
  MaxHints        \* matches shown at most, 24

ASSUME GameConsoleAssumption ==
  /\ Slash \notin Letter /\ Space \notin Letter /\ Slash # Space
  /\ InputSize \in Nat /\ InputSize > 2 /\ HistorySize \in Nat /\ MaxHints \in Nat
  /\ Key \subseteq Letter \cup {Slash, Space}
  \* strncat_s takes at most 64 characters, a quarter of the buffer.
  /\ Names \in Seq(Seq(Letter)) /\ \A i \in DOMAIN Names : Len(Names[i]) + 1 <= InputSize - 2

VARIABLES
  line,      \* con.buffer, con.cursor, fixed_input and matches, by their numbers
  choice,    \* globals.auto_complete_choice and may_auto_complete
  history,   \* lines entered, the newest first
  history_index,
  frame,     \* what the renderer has read in this frame
  seen,      \* history: the last text a frame has read since the line was cleared
  fresh,     \* history: the renderer has seen the line as it is
  disturbed, \* history: the line was cleared in the middle of a frame
  overrun    \* history: a character was put into the middle of a full line

gcVars == <<line, choice, history, history_index, frame,
            seen, fresh, disturbed, overrun>>

NoChoice == [text |-> <<>>, may |-> FALSE]
\* clear: the empty line.
EmptyLine == [buffer |-> <<>>, cursor |-> 0, fixed_input |-> <<>>, matches |-> {}]
Idle == [at |-> "idle", input |-> <<>>]
\* Another text on the line, and the cursor at another place.
WithText(l, text, at) == [l EXCEPT !.buffer = text, !.cursor = at]

GcInit ==
  /\ line = EmptyLine
  /\ choice = NoChoice
  /\ history = <<>> /\ history_index = -1
  /\ frame = Idle
  /\ seen = <<>> /\ fresh = FALSE /\ disturbed = FALSE /\ overrun = FALSE

\* Without a slash in front, unless there is nothing but the slash.
Unprefixed(text) == IF Len(text) > 1 /\ text[1] = Slash THEN Tail(text) ELSE text
-----------------------------------------------------------------------------
(* The line edited: characters                                             *)

\* console_char_event of a printable key.  Only the cursor is compared with
\* the size: in the middle of a full line there is no room for the character.
Typed(l, c) ==
  IF l.cursor = InputSize - 1 THEN l
  ELSE WithText(l, InsertAt(l.buffer, l.cursor + 1, c), l.cursor + 1)

Backspace(l) ==
  IF l.cursor = 0 THEN l ELSE WithText(l, RemoveAt(l.buffer, l.cursor), l.cursor - 1)

\* TAB: the choice of the last frame, behind the slash if there was one.
Completed(l, text) ==
  LET prefix == IF l.buffer # <<>> /\ l.buffer[1] = Slash THEN <<Slash>> ELSE <<>>
      whole == prefix \o text
      spaced == IF Len(whole) # InputSize - 2 THEN Append(whole, Space) ELSE whole
  IN WithText(EmptyLine, spaced, Len(spaced))

\* memmove moves the end of a full line past the end of the buffer, over the
\* cursor behind it: what follows is undefined, and behaviours end with it.
Overruns(l) == l.cursor # InputSize - 1 /\ Len(l.buffer) = InputSize - 1

\* The main thread has edited the line; cleared if clear() was part of it.
Edit(new, cleared) ==
  /\ line' = new
  /\ seen' = IF cleared THEN <<>> ELSE seen
  /\ fresh' = (fresh /\ ~cleared /\ new.buffer = line.buffer)
  /\ disturbed' = (disturbed \/ (frame # Idle /\ cleared))
  /\ UNCHANGED <<choice, frame>>

EditOnly(new, cleared) == Edit(new, cleared) /\ UNCHANGED <<history, history_index, overrun>>

\* Paste types what the clipboard holds, one character after another; the
\* renderer may draw in between.
console_char_event(c) ==
  /\ Edit(Typed(line, c), FALSE)
  /\ overrun' = Overruns(line)
  /\ UNCHANGED <<history, history_index>>
\* BOUND: a slash only in front, and no arguments behind a space.
Typeable == {c \in Key : IF c = Slash THEN line.buffer = <<>>
                         ELSE \A i \in 1..line.cursor : line.buffer[i] # Space}

BackspaceKey == EditOnly(Backspace(line), FALSE)
CompleteKey == choice.may /\ EditOnly(Completed(line, choice.text), TRUE)
-----------------------------------------------------------------------------
(* The line edited: keys                                                   *)

CursorKey(right) ==
  LET cursor == line.cursor
      moved == IF right THEN IF cursor < Len(line.buffer) THEN cursor + 1 ELSE cursor
               ELSE IF cursor > 0 THEN cursor - 1 ELSE cursor
  IN EditOnly(WithText(line, line.buffer, moved), FALSE)

\* toggle_console, on the way in and on the way out.
toggle_console == EditOnly(EmptyLine, TRUE)

Recalled(i) == IF i = -1 THEN EmptyLine
               ELSE WithText(EmptyLine, history[i + 1], Len(history[i + 1]))

\* The older line; on the oldest the key stays there.
UpKey ==
  LET i == IF history_index + 1 >= Len(history) THEN Len(history) - 1 ELSE history_index + 1
  IN Edit(Recalled(i), TRUE) /\ history_index' = i /\ UNCHANGED <<history, overrun>>

DownKey ==
  LET i == IF history_index - 1 < -1 THEN -1 ELSE history_index - 1
  IN Edit(Recalled(i), TRUE) /\ history_index' = i /\ UNCHANGED <<history, overrun>>

\* A line recalled and not changed moves to the front.
Entered(text) ==
  LET others == IF history_index # -1 /\ history[history_index + 1] = text
                THEN RemoveAt(history, history_index + 1) ELSE history
      all == <<text>> \o others
  IN IF Len(all) > HistorySize THEN RemoveAt(all, HistorySize + 1) ELSE all

\* ENTER hands line.fixed_input to the game, and remembers and prints the
\* buffer (the print is ConsoleOutput's).
EnterKey ==
  /\ history' = Entered(line.buffer)
  /\ history_index' = -1
  /\ line' = EmptyLine
  /\ seen' = <<>> /\ fresh' = FALSE
  /\ disturbed' = (disturbed \/ frame # Idle)
  /\ UNCHANGED <<choice, frame, overrun>>
-----------------------------------------------------------------------------
(* The renderer                                                            *)

HasPart(text, part) == \E i \in 0..Len(text) - Len(part) : SubSeq(text, i + 1, i + Len(part)) = part
match_compare(input, text, exact) == IF exact THEN text = input ELSE HasPart(text, input)
find_matches(input, exact) == {i \in DOMAIN Names : match_compare(input, Names[i], exact)}

\* With arguments behind it, only the very name matches.
Matches(input) ==
  IF HasPart(input, <<Space>>)
  THEN find_matches(SubSeq(input, 1, (CHOOSE i \in 1..Len(input) :
         input[i] = Space /\ \A j \in 1..i - 1 : input[j] # Space) - 1), TRUE)
  ELSE find_matches(input, FALSE)

\* draw_input up to where it has the text of the line; with none it returns.
draw_console ==
  /\ frame = Idle
  /\ choice' = [choice EXCEPT !.text = <<>>]
  /\ frame' = IF line.buffer = <<>> THEN Idle
              ELSE [at |-> "read", input |-> Unprefixed(line.buffer)]
  /\ fresh' = (fresh \/ line.buffer = <<>>)
  /\ UNCHANGED <<line, history, history_index, seen, disturbed, overrun>>

Searched(l, input) == [l EXCEPT !.matches = Matches(input), !.fixed_input = input]

\* Fault: no search for what has a match already.
SearchOnce ==
  /\ frame.at = "read"
  /\ line' = IF line.matches # {} THEN line
             ELSE Searched(line, frame.input)
  /\ frame' = [frame EXCEPT !.at = "drawn"]
  /\ choice' = [choice EXCEPT !.may = FALSE]
  /\ seen' = frame.input
  /\ UNCHANGED <<history, history_index, fresh, disturbed, overrun>>

\* The matches are searched anew if the text is not that of the last frame.
Search ==
  /\ frame.at = "read"
  /\ line' = IF frame.input = line.fixed_input THEN line
             ELSE Searched(line, frame.input)
  /\ frame' = [frame EXCEPT !.at = "drawn"]
  /\ choice' = [choice EXCEPT !.may = FALSE]
  /\ seen' = frame.input
  /\ UNCHANGED <<history, history_index, fresh, disturbed, overrun>>

\* The hints, and the first match for TAB; too many to show offer none.
DrawHints ==
  /\ frame.at = "drawn"
  /\ choice' = IF Cardinality(line.matches) \in 1..MaxHints
               THEN [text |-> Names[Min(line.matches)], may |-> TRUE] ELSE choice
  /\ frame' = Idle
  /\ fresh' = (frame.input = Unprefixed(line.buffer))
  /\ UNCHANGED <<line, history, history_index, seen, disturbed, overrun>>

\* Fault: the index survives the history.
ClearKeepsIndex ==
  /\ line' = EmptyLine
  /\ history' = <<>>
  /\ seen' = <<>> /\ fresh' = FALSE
  /\ disturbed' = (disturbed \/ frame # Idle)
  /\ UNCHANGED <<history_index, choice, frame, overrun>>

\* Ctrl-C and the command clear; ConsoleOutput has the rest of it.
ClearConsole ==
  /\ line' = EmptyLine
  /\ history' = <<>> /\ history_index' = -1
  /\ seen' = <<>> /\ fresh' = FALSE
  /\ disturbed' = (disturbed \/ frame # Idle)
  /\ UNCHANGED <<choice, frame, overrun>>

\* Behind a line cleared under a frame the renderer reads what is gone, behind
\* an overrun the cursor is what the write made of it.
GcNext ==
  /\ ~disturbed /\ ~overrun
  /\ \/ \E c \in Typeable : console_char_event(c)
     \/ BackspaceKey
     \/ CompleteKey
     \/ \E right \in BOOLEAN : CursorKey(right)
     \/ toggle_console
     \/ ClearConsole
     \/ UpKey
     \/ DownKey
     \/ EnterKey
     \/ draw_console
     \/ Search
     \/ DrawHints
-----------------------------------------------------------------------------
(* Properties                                                              *)

\* What ENTER executes, whatever is typed, completed, recalled and drawn in
\* between: once the renderer has seen the line as it is, the text on it, or, if
\* the line was erased to nothing, the last text that a frame has read from it;
\* and nothing when no frame has read any since the line was cleared, rather than
\* a line entered or left before.  As long as no line was cleared in the middle
\* of a frame (EnterKey, draw_input).
ExecutesTheLine ==
  /\ fresh => line.fixed_input = IF line.buffer = <<>> THEN seen ELSE Unprefixed(line.buffer)
  /\ ~disturbed /\ seen = <<>> => line.fixed_input = <<>>

\* Until a character is put into the middle of a full line, which overruns the
\* buffer: the cursor is on the line and the line in its buffer, and the line
\* recalled is one of the history whenever a key looks for it (UpKey, DownKey,
\* EnterKey, CompleteKey).
EditsInBounds == ~overrun =>
  /\ line.cursor \in 0..Len(line.buffer) /\ Len(line.buffer) < InputSize
  /\ history_index \in -1..Len(history) - 1 /\ Len(history) <= HistorySize
=============================================================================
