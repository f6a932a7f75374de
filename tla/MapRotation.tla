---------------------------- MODULE MapRotation ----------------------------
(***************************************************************************)
(* The map rotation of a dedicated server.  A rotation is asked for by the *)
(* command map_rotate, or when a script exits the level: then a task waits *)
(* until the client part of the game is down and gives the command.  While *)
(* the online data flags are not synchronised it is put off.  The maps are *)
(* taken from sv_mapRotationCurrent if it is set, else from                *)
(* sv_mapRotation, whose position outlives the rotation; both hold keys    *)
(* and values in turn.  While sv_randomMapRotation is set every rotation   *)
(* shuffles the entries where they are kept, and they stay as the last one *)
(* left them.                                                              *)
(***************************************************************************)
EXTENDS Integers, Sequences, SequencesExt, FiniteSets, FiniteSetsExt

CONSTANTS
  Rotation,    \* the values of sv_mapRotation, as sequences of words
  Current,     \* the values given to sv_mapRotationCurrent
  MaxPending   \* bound on the tasks of a kind, and on the commands

\* The words of the rotations, and the names that need none.  The command "map m"
\* stands in the command buffer as the name m alone, which is not a command's.
Name == (UNION {ToSet(words) : words \in Rotation \cup Current})
        \cup {"", "war", "mp_prisonbreak"}

ASSUME RotationAssumption ==
  /\ Rotation \cup Current \subseteq Seq(Name) /\ "map_rotate" \notin Name
  /\ MaxPending \in Nat

VARIABLES
  sv_map_rotation, sv_map_rotation_current, sv_random_map_rotation,
  g_gametype, mapname,
  rotation,    \* dedicated_rotation: [rotation_entries, index]
  loaded,      \* load_rotation has parsed, and what it parsed
  unsynced,    \* Live_SyncOnlineDataFlags(0) # 0
  cgame,       \* CL_IsCgameInitialized
  triggered,   \* the tasks of trigger_map_rotation
  deferred,    \* the perform_map_rotation put off by on_game_initialized
  commands,    \* the game's command buffer
  last,        \* the last map launched: [from, map, gametype, before]
  order,       \* what the last random rotation shuffled the entries into
  turn,        \* which of the rotation's maps was launched last, 0 before
  asked        \* the rotations asked for that are not done

rotationVars == <<sv_map_rotation, sv_map_rotation_current, sv_random_map_rotation,
  g_gametype, mapname, rotation, loaded, unsynced, cgame, triggered, deferred,
  commands, last, order, turn, asked>>

-----------------------------------------------------------------------------
(* rotation_data. *)

Key == {"map", "gametype"}

\* The pairs before the first unknown key: parse keeps them when it throws, and
\* leaves out a last word that has no value.
parse(words) ==
  LET pairs == [i \in 1..Len(words) \div 2 |->
                  [key |-> words[2 * i - 1], value |-> words[2 * i]]]
      bad == {i \in DOMAIN pairs : pairs[i].key \notin Key}
  IN IF bad = {} THEN pairs ELSE SubSeq(pairs, 1, Min(bad) - 1)

rotation_data(entries) == [rotation_entries |-> entries, index |-> 0]

\* A bug: every rotation starts with the first entry.
starts_over(r, k) == [r EXCEPT !.index = 0]

\* get_next_entry k times
get_next_entry(r, k) == [r EXCEPT !.index = (@ + k) % Len(r.rotation_entries)]

\* What apply_rotation meets, from the position to the first map or all around:
\* the last game type on the way, and the map.
PlaceAt(r, i) == ((r.index + i) % Len(r.rotation_entries)) + 1
Entry(r, i) == r.rotation_entries[PlaceAt(r, i)]

Steps(r) ==
  LET n == Len(r.rotation_entries)
      maps == {i \in 0..n - 1 : Entry(r, i).key = "map"}
  IN IF maps = {} THEN n ELSE Min(maps)

GametypeAfter(r, gametype) ==
  LET types == {i \in 0..Steps(r) - 1 : Entry(r, i).key = "gametype"}
  IN IF types = {} THEN gametype ELSE Entry(r, Max(types)).value

DefaultMap == IF mapname # "" THEN mapname ELSE "mp_prisonbreak"

HasMap(r) == Steps(r) < Len(r.rotation_entries)
NextMap(r) == IF HasMap(r) THEN Entry(r, Steps(r)).value ELSE DefaultMap
apply_rotation(r) == get_next_entry(r, IF HasMap(r) THEN Steps(r) + 1 ELSE Steps(r))

-----------------------------------------------------------------------------
(* perform_map_rotation, with rest as the commands that follow. *)

launch_map(from, map, gametype, rest) ==
  /\ commands' = Append(rest, map)
  /\ g_gametype' = gametype
  /\ last' = [from |-> from, map |-> map, gametype |-> gametype,
              before |-> g_gametype]
  /\ asked' = asked - 1

launch_default_map(from, rest) == launch_map(from, DefaultMap, g_gametype, rest)

\* sv_mapRotationCurrent: emptied, and its first map launched.
apply_map_rotation_current(rest) ==
  LET r == rotation_data(parse(sv_map_rotation_current))
  IN /\ sv_map_rotation_current # <<>>
     /\ sv_map_rotation_current' = <<>>
     /\ IF r.rotation_entries = <<>>
        THEN launch_default_map("current", rest)
        ELSE launch_map("current", NextMap(r), GametypeAfter(r, g_gametype), rest)
     /\ UNCHANGED <<rotation, loaded, order, turn>>

\* load_map_rotation: only the first value that is not empty is ever parsed.
Loaded ==
  IF loaded = <<>> /\ sv_map_rotation # <<>>
  THEN rotation_data(parse(sv_map_rotation)) ELSE rotation

load_map_rotation ==
  loaded' = IF loaded = <<>> THEN sv_map_rotation ELSE loaded

Maps(entries) == {i \in DOMAIN entries : entries[i].key = "map"}

MapNumber(entries, i) == Cardinality({j \in Maps(entries) : j <= i})

\* randomize, of sv_randomMapRotation: std::shuffle
Shuffles(entries) ==
  {[i \in DOMAIN entries |-> entries[p[i]]] : p \in Bijection(DOMAIN entries, DOMAIN entries)}

\* The number, in the order f, of the map that is launched from r behind the k-th.
TurnAfter(f, r, k) ==
  IF ~HasMap(r) THEN 0
  ELSE IF sv_random_map_rotation THEN MapNumber(f, PlaceAt(r, Steps(r)))
  ELSE (k % Cardinality(Maps(f))) + 1

apply_map_rotation(rest) ==
  /\ sv_map_rotation_current = <<>>
  /\ load_map_rotation
  /\ UNCHANGED sv_map_rotation_current
  /\ IF Loaded.rotation_entries = <<>>
     THEN /\ launch_default_map("default", rest)
          /\ rotation' = Loaded
          /\ UNCHANGED <<order, turn>>
     ELSE \E entries \in IF sv_random_map_rotation THEN Shuffles(Loaded.rotation_entries)
                         ELSE {Loaded.rotation_entries} :
            LET r == [Loaded EXCEPT !.rotation_entries = entries]
            IN /\ launch_map(IF sv_random_map_rotation THEN "random" ELSE "rotation",
                             NextMap(r), GametypeAfter(r, g_gametype), rest)
               /\ rotation' = apply_rotation(r)
               /\ order' = IF sv_random_map_rotation THEN entries ELSE order
               /\ turn' = TurnAfter(entries, r, turn)

perform_map_rotation(rest) ==
  /\ IF unsynced
     THEN /\ deferred < MaxPending
          /\ deferred' = deferred + 1
          /\ commands' = rest
          /\ UNCHANGED <<sv_map_rotation_current, rotation, loaded, order, turn,
                         g_gametype, last, asked>>
     ELSE /\ UNCHANGED deferred
          /\ apply_map_rotation_current(rest) \/ apply_map_rotation(rest)
  /\ UNCHANGED <<sv_map_rotation, sv_random_map_rotation, mapname, unsynced, cgame,
                 triggered>>

\* on_game_initialized calls it, with the flags synchronised a second ago.
RunDeferred ==
  /\ deferred > 0
  /\ IF unsynced
     THEN UNCHANGED rotationVars
     ELSE /\ deferred' = deferred - 1
          /\ Len(commands) < MaxPending
          /\ apply_map_rotation_current(commands) \/ apply_map_rotation(commands)
          /\ UNCHANGED <<sv_map_rotation, sv_random_map_rotation, mapname, unsynced,
                         cgame, triggered>>

-----------------------------------------------------------------------------
Game == <<sv_map_rotation, sv_map_rotation_current, sv_random_map_rotation,
          g_gametype, mapname, rotation, loaded, last, order, turn>>

\* The game takes the first command; "map" makes its map the current one.
ExecuteCommand ==
  /\ commands # <<>>
  /\ IF Head(commands) = "map_rotate"
     THEN perform_map_rotation(Tail(commands))
     ELSE /\ mapname' = Head(commands)
          /\ commands' = Tail(commands)
          /\ UNCHANGED <<sv_map_rotation, sv_map_rotation_current,
               sv_random_map_rotation, g_gametype, rotation, loaded, unsynced, cgame,
               triggered, deferred, last, order, turn, asked>>

\* GScr_ExitLevel's hook
trigger_map_rotation ==
  /\ triggered < MaxPending /\ asked < MaxPending
  /\ triggered' = triggered + 1
  /\ asked' = asked + 1
  /\ UNCHANGED <<Game, unsynced, cgame, deferred, commands>>

RunTriggered ==
  /\ triggered > 0 /\ ~cgame
  /\ Len(commands) < MaxPending
  /\ triggered' = triggered - 1
  /\ commands' = Append(commands, "map_rotate")
  /\ UNCHANGED <<Game, unsynced, cgame, deferred, asked>>

\* The administrator's command, and his settings
map_rotate ==
  /\ Len(commands) < MaxPending /\ asked < MaxPending
  /\ commands' = Append(commands, "map_rotate")
  /\ asked' = asked + 1
  /\ UNCHANGED <<Game, unsynced, cgame, triggered, deferred>>

SetCurrent ==
  /\ \E words \in Current : sv_map_rotation_current' = words
  /\ UNCHANGED <<sv_map_rotation, sv_random_map_rotation, g_gametype, mapname,
       rotation, loaded, unsynced, cgame, triggered, deferred, commands, last, order,
       turn, asked>>

SetRotation ==
  /\ \E words \in Rotation : sv_map_rotation' = words
  /\ UNCHANGED <<sv_map_rotation_current, sv_random_map_rotation, g_gametype,
       mapname, rotation, loaded, unsynced, cgame, triggered, deferred, commands, last,
       order, turn, asked>>

\* sv_randomMapRotation is read at each rotation.
SetRandom ==
  /\ sv_random_map_rotation' = ~sv_random_map_rotation
  /\ UNCHANGED <<sv_map_rotation, sv_map_rotation_current, g_gametype, mapname, rotation,
       loaded, unsynced, cgame, triggered, deferred, commands, last, order, turn, asked>>

\* The online data flags and the client part of the game come and go.
GameChanges ==
  /\ \/ unsynced' = ~unsynced /\ UNCHANGED cgame
     \/ cgame' = ~cgame /\ UNCHANGED unsynced
  /\ UNCHANGED <<Game, triggered, deferred, commands, asked>>

RotationInit ==
  /\ sv_map_rotation \in Rotation
  /\ sv_map_rotation_current = <<>>
  /\ sv_random_map_rotation = FALSE /\ order = <<>>
  /\ g_gametype = "war" /\ mapname = ""
  /\ rotation = rotation_data(<<>>)
  /\ loaded = <<>>
  /\ unsynced = TRUE /\ cgame = FALSE
  /\ triggered = 0 /\ deferred = 0
  /\ commands = <<>>
  /\ last = [from |-> "none", map |-> "", gametype |-> "war", before |-> "war"]
  /\ turn = 0
  /\ asked = 0

RotationNext ==
  \/ ExecuteCommand \/ RunDeferred
  \/ trigger_map_rotation \/ RunTriggered \/ map_rotate
  \/ SetCurrent \/ SetRotation \/ SetRandom \/ GameChanges

RotationSpec == RotationInit /\ [][RotationNext]_rotationVars

-----------------------------------------------------------------------------
(* Properties. *)

\* The maps in the order they stand, each with the game types that stand between
\* it and the map before, the last one counting; the first map has those behind
\* the last map too, except on the first round.  Without any it keeps gametype.

TurnAt(entries, place, gametype) ==
  LET before == {j \in Maps(entries) : j < place}
      types == {j \in DOMAIN entries : entries[j].key = "gametype"}
      since == {j \in types : j < place /\ \A b \in before : b < j}
      behind == {j \in types : \A b \in Maps(entries) : b < j}
  IN [map |-> entries[place].value,
      gametypes |-> IF since # {} THEN {entries[Max(since)].value}
                    ELSE IF before = {} /\ behind # {}
                         THEN {entries[Max(behind)].value, gametype}
                         ELSE {gametype}]

Turn(entries, k, gametype) ==
  TurnAt(entries, CHOOSE i \in Maps(entries) : MapNumber(entries, i) = k, gametype)

\* However rotations are asked for, put off and crossed with a current rotation,
\* none is lost or done twice.  One that is not random plays the next map, with the
\* game type that stands before it, round after round: in the order written until
\* the first random rotation, and from then on, when sv_randomMapRotation is reset
\* again too, in the order the last random one left, as randomize shuffles the
\* entries that are kept.  Whatever is played is a map that was written.
RotationInOrder ==
  /\ asked = triggered + deferred
             + Cardinality({i \in DOMAIN commands : commands[i] = "map_rotate"})
  /\ LET written == parse(loaded)
         t == Turn(IF order = <<>> THEN written ELSE order, turn, last.before)
     IN Maps(written) # {} =>
          /\ last.from \in {"rotation", "random"} =>
               \E i \in Maps(written) : written[i].value = last.map
          /\ last.from = "rotation" => last.map = t.map /\ last.gametype \in t.gametypes
=============================================================================
