------------------------------ MODULE Commands ------------------------------
(***************************************************************************)
(* Console and client commands: the command line, the commands the client  *)
(* adds to the console, and what a player's client sends, which passes the *)
(* chat of notifies, the handlers of command and the game's own.  What a   *)
(* command does to a player is often put off to the server's frame, and    *)
(* finds him by his slot then.                                             *)
(***************************************************************************)
EXTENDS Integers, Sequences, SequencesExt, FiniteSets

CONSTANTS
  Player,      \* those who join
  Slots,       \* svs_clientCount
  Message,     \* what players say: sequences of characters
  CommandLine, \* command lines: sequences of characters and words
  MaxLines,    \* MAX_CONSOLE_LINES
  MaxCommands  \* bound on the commands that are given

ASSUME CommandsAssumption ==
  /\ Slots \in Nat \ {0} /\ MaxLines \in Nat \ {0} /\ MaxCommands \in Nat
  /\ \A text \in Message : text \in Seq(STRING)

VARIABLES
  single_player,
  command_line,   \* the buffer of parse_command_line, and the lines it found
  startup,        \* what read_startup_variable set
  sv_loaded, sv_cheats,
  client,         \* slot |-> the player in it, or Nobody
  flags,          \* slot |-> what is toggled on its entity
  sv_cmd_args,    \* the client command tokenized last
  tasks,          \* the once tasks of the server's pipeline
  said,           \* the messages of players, as they came
  speaker,        \* history: of each message its command's name and the player, and
                  \* whether until its notify no other command came and he stayed
  notified,       \* the notifies of messages, as scripts got them
  shown,          \* the client commands the game got
  file,           \* what dvarDump and commandDump wrote, and what they were to
  told,           \* the server commands sent to clients
  command_count           \* commands given

commandVars == <<single_player, command_line, startup, sv_loaded, sv_cheats, client,
  flags, sv_cmd_args, tasks, said, speaker, notified, shown, told, file,
  command_count>>

-----------------------------------------------------------------------------
Slot == 0..Slots - 1
Nobody == "nobody"
None == "none"

(* The command line. *)

\* The places of the plus signs that are not between quotes, as far as lines are
\* told apart.
Separators(text) ==
  LET quotes(i) == Cardinality({j \in 1..i : text[j] = "quote"})
      all == {i \in DOMAIN text : text[i] = "+" /\ quotes(i) % 2 = 0}
  IN {i \in all : Cardinality({j \in all : j <= i}) <= MaxLines}

\* Where a separator is replaced the line before it ends; the last line has the rest.
parse_command_line(text) ==
  LET at == SetToSortSeq(Separators(text), <)
      end(k) == IF k = Len(at) THEN Len(text) ELSE at[k + 1] - 1
  IN [k \in DOMAIN at |-> SubSeq(text, at[k] + 1, end(k))]

\* +set name value; the last one counts.
read_startup_variable(lines, dvar) ==
  FoldLeft(LAMBDA value, line :
             IF Len(line) >= 3 /\ line[1] = "set" /\ line[2] = dvar THEN line[3] ELSE value,
           None, lines)

-----------------------------------------------------------------------------
(* What is left alone by most commands. *)

Given == command_count < MaxCommands /\ command_count' = command_count + 1

Begins == UNCHANGED <<single_player, command_line, startup>>
ServerSays == UNCHANGED <<sv_loaded, sv_cheats, client>>
Chat == UNCHANGED <<said, speaker, notified>>

\* The messages whose notify has not come, of which something is no longer so.
Pending(i) == i > Len(notified)
Renamed == [i \in DOMAIN speaker |->
              [speaker[i] EXCEPT !.named = @ /\ ~Pending(i)]]
Deserted(slot) == [i \in DOMAIN speaker |->
                     [speaker[i] EXCEPT !.there = @ /\ ~(Pending(i) /\ said[i].slot = slot)]]

-----------------------------------------------------------------------------
(* notifies: client_command_stub, the first to see a client's command. *)

\* The text scripts are notified of: without the mark, and without the slash that
\* hides it.
Marked(words) == words # <<>> /\ Head(words) = "x1F"
SlashAt(words) == IF Marked(words) THEN 2 ELSE 1
Hidden(words) == Len(words) >= SlashAt(words) /\ words[SlashAt(words)] = "/"
Spoken(words) ==
  IF Hidden(words)
  THEN LET over == [words EXCEPT ![SlashAt(words)] =
                      IF Marked(words) THEN words[1] ELSE @]
       IN Tail(over)
  ELSE words
NotifyText(words) ==
  IF Marked(words) THEN Tail(Spoken(words)) ELSE Spoken(words)

Cheat == {"god", "notarget", "noclip", "ufo"}
Weapon == {"give", "take"}
View == {"setviewpos", "setviewang"}

Toggle(set, flag) == IF flag \in set THEN set \ {flag} ELSE set \cup {flag}

Tell(slot, what) == told' = Append(told, [to |-> slot, what |-> what])
Refuse(slot, what) == Tell(slot, what) /\ UNCHANGED flags

\* The handlers, of the entity in a slot.
toggle(slot, name) ==
  /\ flags' = [flags EXCEPT ![slot] = Toggle(@, name)]
  /\ Tell(slot, name)

weapon(slot, name, size) ==
  IF size < 2 THEN Refuse(slot, "You did not specify a weapon name")
  ELSE /\ flags' = [flags EXCEPT ![slot] = IF name = "give" THEN @ \cup {"weapon"}
                                           ELSE @ \ {"weapon"}]
       /\ UNCHANGED told

set_view(slot, name, size) ==
  IF size < 4 THEN Refuse(slot, "You did not specify the correct number")
  ELSE flags' = [flags EXCEPT ![slot] = @ \cup {name}] /\ UNCHANGED told

Handles(slot, name, size) ==
  \/ name \in Cheat /\ toggle(slot, name)
  \/ name \in Weapon /\ weapon(slot, name, size)
  \/ name \in View /\ set_view(slot, name, size)

\* command: client_command and the handlers of add_mp_commands
handler_sv(slot, name, size) ==
  IF sv_cheats THEN Handles(slot, name, size)
  ELSE Refuse(slot, "Cheats are not enabled on this server")

\* The game tokenizes the command before the stub sees it.  A client that is not
\* fully connected has no client in its entity.
client_command_stub(slot, name, size) ==
  /\ ~single_player /\ Given
  /\ sv_cmd_args' = name /\ speaker' = Renamed
  /\ IF client[slot] = Nobody THEN UNCHANGED <<flags, told, shown>>
     ELSE /\ handler_sv(slot, name, size)
          /\ shown' = Append(shown, [slot |-> slot, said |-> FALSE, text |-> <<name>>])
  /\ Begins /\ ServerSays /\ UNCHANGED <<said, notified, tasks, file>>

\* say and say_team: notified by the server's next frame; a hidden message does
\* not go on to command and to the game.
client_say(slot, name, words) ==
  /\ ~single_player /\ Given
  /\ client[slot] # Nobody
  /\ sv_cmd_args' = name
  /\ said' = Append(said, [slot |-> slot, said |-> TRUE, text |-> words])
  /\ speaker' = Append(Renamed, [name |-> name, player |-> client[slot],
                                 named |-> TRUE, there |-> TRUE])
  /\ tasks' = Append(tasks, [kind |-> "notify", slot |-> slot,
                             text |-> NotifyText(words)])
  /\ shown' = IF Hidden(words) THEN shown
              ELSE Append(shown, [slot |-> slot, said |-> TRUE, text |-> words])
  /\ Begins /\ ServerSays /\ UNCHANGED <<flags, told, notified, file>>

-----------------------------------------------------------------------------
(* party: the commands of the server's console. *)

kick_task(slot) == [kind |-> "kick", slot |-> slot, text |-> <<>>]

\* get_client_num_from_name: the first slot with that name
SlotOf(player) ==
  LET slots == {s \in Slot : client[s] = player}
  IN IF slots = {} THEN <<>> ELSE <<CHOOSE s \in slots : \A t \in slots : s <= t>>

Kicks(slots) == tasks' = tasks \o [i \in 1..Len(slots) |-> kick_task(slots[i])]

kick(player) ==
  /\ Given
  /\ IF sv_loaded THEN Kicks(SlotOf(player)) ELSE UNCHANGED tasks
  /\ Begins /\ ServerSays /\ Chat /\ UNCHANGED <<flags, sv_cmd_args, shown, told, file>>

kick_all ==
  /\ Given
  /\ IF sv_loaded THEN Kicks([i \in 1..Slots |-> i - 1]) ELSE UNCHANGED tasks
  /\ Begins /\ ServerSays /\ Chat /\ UNCHANGED <<flags, sv_cmd_args, shown, told, file>>

clientkick(number) ==
  /\ Given
  /\ IF sv_loaded /\ number \in Slot THEN Kicks(<<number>>) ELSE UNCHANGED tasks
  /\ Begins /\ ServerSays /\ Chat /\ UNCHANGED <<flags, sv_cmd_args, shown, told, file>>

\* say and sayraw go to all, tell and tellraw to the number that is given, which
\* is not looked at.
say(to, what) ==
  /\ Given
  /\ Tell(to, what)
  /\ Begins /\ ServerSays /\ Chat /\ UNCHANGED <<flags, sv_cmd_args, tasks, shown, file>>

\* The commands of the single player, for the entity 0
sp_command(name, size) ==
  /\ single_player /\ Given
  /\ IF sv_loaded THEN Handles(0, name, size) ELSE UNCHANGED <<flags, told>>
  /\ Begins /\ ServerSays /\ Chat /\ UNCHANGED <<sv_cmd_args, tasks, shown, file>>

\* dvarDump and commandDump: the first line makes the file anew, the others are
\* added.  dvarDump counts the places of the list, commandDump the lines.
Lines(list) == SelectSeq(list, LAMBDA entry : entry # None)

dump(list, counted) ==
  LET anew == IF counted = "lines" THEN \E i \in DOMAIN list : list[i] # None
                                   ELSE list # <<>> /\ list[1] # None
  IN IF anew THEN Lines(list) ELSE file.lines \o Lines(list)

Dump(list, counted) ==
  /\ Given
  /\ file' = [lines |-> dump(list, counted), of |-> Lines(list)]
  /\ Begins /\ ServerSays /\ Chat
  /\ UNCHANGED <<flags, sv_cmd_args, tasks, shown, told>>

-----------------------------------------------------------------------------
(* The server's frame: the tasks, in order. *)

\* The task keeps the nesting of the command and not its words, and the slot and not
\* the player: the notify has the name of the command tokenized last, and the one
\* who is in the slot by now, who may be another or nobody.  (Where getentbynum
\* finds no entity for nobody, an exception leaves the frame and the task stays.)
RunNotify ==
  /\ tasks # <<>> /\ Head(tasks).kind = "notify"
  /\ notified' = Append(notified,
       [slot |-> Head(tasks).slot, player |-> client[Head(tasks).slot],
        name |-> sv_cmd_args, text |-> Head(tasks).text])
  /\ tasks' = Tail(tasks)
  /\ UNCHANGED <<single_player, command_line, startup, sv_loaded, sv_cheats, client,
                 flags, sv_cmd_args, said, speaker, shown, told, file, command_count>>

RunKick ==
  /\ tasks # <<>> /\ Head(tasks).kind = "kick"
  /\ tasks' = Tail(tasks)
  /\ LET slot == Head(tasks).slot
     IN /\ client' = [client EXCEPT ![slot] = Nobody]
        /\ flags' = [flags EXCEPT ![slot] = {}]
        /\ speaker' = Deserted(slot)
  /\ UNCHANGED <<single_player, command_line, startup, sv_loaded, sv_cheats,
                 sv_cmd_args, said, notified, shown, told, file, command_count>>

-----------------------------------------------------------------------------
(* The game around it. *)

Joins(slot, player) ==
  /\ sv_loaded /\ client[slot] = Nobody
  /\ \A s \in Slot : client[s] # player
  /\ client' = [client EXCEPT ![slot] = player]
  /\ UNCHANGED <<single_player, command_line, startup, sv_loaded, sv_cheats, flags,
       sv_cmd_args, tasks, said, speaker, notified, shown, told, file, command_count>>

Leaves(slot) ==
  /\ client[slot] # Nobody
  /\ client' = [client EXCEPT ![slot] = Nobody]
  /\ flags' = [flags EXCEPT ![slot] = {}]
  /\ speaker' = Deserted(slot)
  /\ UNCHANGED <<single_player, command_line, startup, sv_loaded, sv_cheats,
       sv_cmd_args, tasks, said, notified, shown, told, file, command_count>>

Starts(text) ==
  /\ command_line = <<>>
  /\ command_line' = <<text, parse_command_line(text)>>
  /\ startup' = read_startup_variable(parse_command_line(text), "fs_game")
  /\ sv_loaded' = TRUE
  /\ UNCHANGED <<single_player, sv_cheats, client, flags, sv_cmd_args, tasks, said,
       speaker, notified, shown, told, file, command_count>>

CommandsInit ==
  /\ single_player \in BOOLEAN
  /\ command_line = <<>> /\ startup = None
  /\ sv_loaded = FALSE
  /\ sv_cheats \in BOOLEAN
  /\ client = [s \in Slot |-> Nobody]
  /\ flags = [s \in Slot |-> {}]
  /\ sv_cmd_args = None
  /\ tasks = <<>> /\ said = <<>> /\ speaker = <<>> /\ notified = <<>>
  /\ shown = <<>> /\ told = <<>>
  /\ file = [lines |-> <<>>, of |-> <<>>]
  /\ command_count = 0

\* Commands with their sizes, and lists: the game's list of dvars has no gaps, and
\* some commands have no name.
Given_sv == {<<"god", 1>>, <<"give", 1>>, <<"give", 2>>, <<"take", 2>>, <<"setviewpos", 4>>}
Lists(counted) ==
  {<<"a">>, <<"a", "b">>} \cup (IF counted = "lines" THEN {<<None, "a">>} ELSE {})

CommandsNext ==
  \/ \E text \in CommandLine : Starts(text)
  \/ \E slot \in Slot :
       \/ \E given \in Given_sv : client_command_stub(slot, given[1], given[2])
       \/ \E words \in Message, name \in {"say", "say_team"} :
            client_say(slot, name, words)
       \/ \E player \in Player : Joins(slot, player)
       \/ Leaves(slot)
       \/ clientkick(slot)
  \/ \E player \in Player : kick(player)
  \/ kick_all
  \/ clientkick(Slots)
  \/ \E to \in {-1, 0} : say(to, "message")
  \/ \E given \in Given_sv : sp_command(given[1], given[2])
  \/ \E counted \in {"lines", "places"} :
       \E list \in Lists(counted) : Dump(list, counted)
  \/ RunNotify \/ RunKick

-----------------------------------------------------------------------------
(* Properties. *)

\* What a player meant: the text without the mark at its front, and without the
\* slash that is at its front then.
Unmarked(text) == IF text # <<>> /\ Head(text) = "x1F" THEN Tail(text) ELSE text
Slashed(text) == Unmarked(text) # <<>> /\ Head(Unmarked(text)) = "/"
Meant(text) == IF Slashed(text) THEN Tail(Unmarked(text)) ELSE Unmarked(text)

\* Some entries of a list are some of another, one by one and in their order.
Nth(i, S) == Cardinality({j \in S : j <= i})
SameInOrder(list, S, other, T) ==
  /\ Cardinality(S) = Cardinality(T)
  /\ \A i \in S, j \in T : Nth(i, S) = Nth(j, T) => list[i] = other[j]

\* Every message is notified once, in the order said, of the slot that said it and
\* without mark or slash, and the game gets those that are not hidden, in order
\* (notifies.cpp, client_command_stub).  Its notify has the name it was said with,
\* say or say_team, only if the server's frame comes before the next command of a
\* client; and it is of the player who said it only if he has not left meanwhile:
\* else it is of another or of nobody, which the code does not prevent.  And a dump
\* holds the list that was dumped, whatever the file held before (dvarDump).
MessagesNotifiedOnce ==
  /\ \A i \in DOMAIN notified :
       /\ notified[i].slot = said[i].slot /\ notified[i].text = Meant(said[i].text)
       /\ speaker[i].named => notified[i].name = speaker[i].name
       /\ speaker[i].there => notified[i].player = speaker[i].player
  /\ Len(said) = Len(notified)
       + Cardinality({i \in DOMAIN tasks : tasks[i].kind = "notify"})
  /\ SameInOrder(shown, {i \in DOMAIN shown : shown[i].said},
                 said, {i \in DOMAIN said : ~Slashed(said[i].text)})
  /\ file.lines = file.of

\* The value behind the last +set of the variable that no quotes enclose.
LastSet(text, dvar) ==
  LET quotes(i) == Cardinality({j \in 1..i : text[j] = "quote"})
      sets == {i \in 1..(Len(text) - 3) :
                 SubSeq(text, i, i + 2) = <<"+", "set", dvar>> /\ quotes(i) % 2 = 0}
  IN IF sets = {} THEN None ELSE text[3 + Max(sets)]

\* The command line sets a variable as its last +set outside quotes says
\* (command.cpp, parse_command_line).
StartupRead == command_line # <<>> => startup = LastSet(command_line[1], "fs_game")
=============================================================================
