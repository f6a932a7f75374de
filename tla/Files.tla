------------------------------- MODULE Files -------------------------------
(***************************************************************************)
(* Where the client takes things from instead of the game: files from its  *)
(* search paths (client/component/filesystem.cpp), textures and strings    *)
(* from overrides or the disk (images.cpp, localized_strings.cpp), and     *)
(* commands from the keys they are bound to (binding.cpp), written to the  *)
(* config when the game ends and executed from it when it starts.          *)
(*                                                                         *)
(* A file that cannot be opened is none, for all of them.  The buffer of   *)
(* the config is large enough.  The four parts share no state.             *)
(***************************************************************************)
EXTENDS Integers, Sequences, SequencesExt, FiniteSets

CONSTANTS
  StartupPaths,   \* the paths that startup registers, in its order
  Path,           \* these and those registered by others
  FileContent,        \* what a file may hold
  BindKeys,       \* how many keys there are
  BoundCommand,   \* commands
  Whitelist,      \* command_whitelist: its last position stands for the hundredth
  MaxRegistered   \* BOUND: paths registered

NoContent == "none"

ASSUME FilesAssumption ==
  /\ StartupPaths \in Seq(Path) /\ "data" \notin Path
  /\ FileContent \cap {NoContent, ""} = {}
  /\ BindKeys \in Nat /\ NoContent \notin BoundCommand
  /\ Whitelist \in Seq(BoundCommand \cup {NoContent}) /\ Whitelist # <<>>
  /\ MaxRegistered \in Nat

BindKey == 1..BindKeys

VARIABLES
  search_paths,
  initialized,
  registrations,          \* history: the paths registered and not taken away since
  path_disk,              \* what each path has of the file
  game_directories,       \* what the game's file system was given since its start
  custom_path_registered,
  overriden_textures,     \* the override of the texture, "" if there is none
  texture_disk,           \* what iw6x/images has of it
  localized_override,     \* the override of the string
  shown_last,                  \* the texture and the string given last, and what there was to give
  custom_binds,
  bindings,               \* playerKeys: the number each key is bound to, 0 for none
  config,                 \* the command in the line of each key, if it has a line
  meant,                  \* history: the command each key was bound to
  saved                   \* history: the commands when the config was written

pathVars == <<search_paths, initialized, registrations, path_disk>>
directoryVars == <<game_directories, custom_path_registered>>
shownVars == <<overriden_textures, texture_disk, localized_override, shown_last>>
bindVars == <<custom_binds, bindings, config, meant, saved>>
filesVars == <<pathVars, directoryVars, shownVars, bindVars>>

-----------------------------------------------------------------------------
(* Search paths.                                                           *)

Paths == [searched |-> search_paths, order |-> registrations]
can_insert_path(paths, path) == path \notin ToSet(paths.searched)

\* A path in front of the others, unless it is there already.
PushFront(paths, path) ==
  IF can_insert_path(paths, path)
  THEN [searched |-> <<path>> \o paths.searched, order |-> Append(paths.order, path)]
  ELSE paths

\* startup: its paths in front of those registered before.
Startup ==
  LET after[i \in 0..Len(StartupPaths)] ==
        IF i = 0 THEN Paths ELSE PushFront(after[i - 1], StartupPaths[i])
  IN after[Len(StartupPaths)]

Becomes(paths) == search_paths' = paths.searched /\ registrations' = paths.order

check_for_startup ==
  /\ initialized' = TRUE
  /\ Becomes(IF initialized THEN Paths ELSE Startup)

Searched == IF initialized THEN search_paths ELSE Startup.searched

\* find_file, exists and both read_file: the first path that has the file.  It is
\* looked for and opened at once.
find_file == SelectInSeq(Searched, LAMBDA p : path_disk[p] # NoContent)
read_file == IF find_file = 0 THEN "" ELSE path_disk[Searched[find_file]]

Read == check_for_startup /\ UNCHANGED <<path_disk, directoryVars, shownVars, bindVars>>

register_path(path) ==
  /\ Len(registrations) < MaxRegistered
  /\ Becomes(PushFront(Paths, path))
  /\ UNCHANGED <<initialized, path_disk, directoryVars, shownVars, bindVars>>

\* No path is there twice, so that one at most is erased.
unregister_path(path) ==
  /\ search_paths' = RemoveFirst(search_paths, path)
  /\ registrations' = RemoveFirst(registrations, path)
  /\ UNCHANGED <<initialized, path_disk, directoryVars, shownVars, bindVars>>

\* Somebody writes or removes a file.
DiskChanges(path, content) ==
  /\ path_disk' = [path_disk EXCEPT ![path] = content]
  /\ UNCHANGED <<search_paths, initialized, registrations, directoryVars, shownVars, bindVars>>

\* The game's own file system: at its start, and for each directory it adds,
\* ours first.
fs_startup_stub ==
  /\ custom_path_registered' = FALSE /\ game_directories' = <<>>
  /\ UNCHANGED <<pathVars, shownVars, bindVars>>

register_custom_path_stub(dir) ==
  /\ Len(game_directories) < 3
  /\ custom_path_registered' = TRUE
  /\ game_directories' =
       Append(IF custom_path_registered THEN game_directories
              ELSE Append(game_directories, "data"), dir)
  /\ UNCHANGED <<pathVars, shownVars, bindVars>>

-----------------------------------------------------------------------------
(* Textures and strings.                                                   *)

override_texture(content) ==
  /\ overriden_textures' = content
  /\ UNCHANGED <<pathVars, directoryVars, texture_disk, localized_override, shown_last, bindVars>>

override(content) ==
  /\ localized_override' = content
  /\ UNCHANGED <<pathVars, directoryVars, overriden_textures, texture_disk, shown_last, bindVars>>

TextureWritten(content) ==
  /\ texture_disk' = content
  /\ UNCHANGED <<pathVars, directoryVars, overriden_textures, localized_override, shown_last, bindVars>>

\* load_image: the override, or else the file; a pair of whether there is an
\* image, and its bytes.
load_image ==
  IF overriden_textures # "" THEN <<TRUE, overriden_textures>>
  ELSE IF texture_disk = NoContent THEN <<FALSE, "">>
  ELSE <<TRUE, texture_disk>>

\* load_texture_stub and load_material_stub: what is no image is given up with
\* an exception, and the game loads its own.
load_texture_stub(images) ==
  /\ shown_last' = [texture |-> IF load_image[1] /\ load_image[2] \in images THEN load_image[2] ELSE "game",
               string |-> shown_last.string,
               textures |-> <<overriden_textures, texture_disk>>, strings |-> shown_last.strings]
  /\ UNCHANGED <<pathVars, directoryVars, overriden_textures, texture_disk,
                 localized_override, bindVars>>

seh_string_ed_get_string ==
  /\ shown_last' = [shown_last EXCEPT
       !.string = IF localized_override = NoContent THEN "game" ELSE localized_override,
       !.strings = localized_override]
  /\ UNCHANGED <<pathVars, directoryVars, overriden_textures, texture_disk,
                 localized_override, bindVars>>

-----------------------------------------------------------------------------
(* Bindings.  The number of a command is its place in the whitelist, or, for *)
(* a command of the client, as many more than the hundred as its place in    *)
(* custom_binds, from 0.  The whitelist begins at 0, with no command.        *)

Hundred == Len(Whitelist)

\* key_get_binding_for_cmd_stub: the hundredth place is looked at too.
key_get_binding_for_cmd(command, binds) ==
  LET original == SelectInSeq(Whitelist, LAMBDA c : c = command)
      custom == SelectInSeq(binds, LAMBDA c : c = command)
  IN IF original # 0 THEN <<original, binds>>
     ELSE IF custom # 0 THEN <<Hundred + custom - 1, binds>>
     ELSE <<Hundred + Len(binds), Append(binds, command)>>

\* What cl_execute_key_stub executes, and what is written to the config.
Executed(number, binds) ==
  IF number >= Hundred
  THEN IF number - Hundred < Len(binds) THEN binds[number - Hundred + 1] ELSE NoContent
  ELSE IF number = 0 THEN NoContent ELSE Whitelist[number]

Bind(key, command) ==
  LET result == key_get_binding_for_cmd(command, custom_binds)
  IN /\ custom_binds' = result[2]
     /\ bindings' = [bindings EXCEPT ![key] = result[1]]
     /\ meant' = [meant EXCEPT ![key] = command]
     /\ UNCHANGED <<config, saved, pathVars, directoryVars, shownVars>>

Unbind(key) ==
  /\ bindings' = [bindings EXCEPT ![key] = 0]
  /\ meant' = [meant EXCEPT ![key] = NoContent]
  /\ UNCHANGED <<custom_binds, config, saved, pathVars, directoryVars, shownVars>>

\* A key has a line if its number leads to a command.
key_write_bindings_to_buffer_stub ==
  /\ config' = [key \in BindKey |-> Executed(bindings[key], custom_binds)]
  /\ saved' = meant
  /\ UNCHANGED <<custom_binds, bindings, meant, pathVars, directoryVars, shownVars>>

\* The line of a key is executed, if there is one.
Rebound(state, key) ==
  LET result == key_get_binding_for_cmd(config[key], state.binds)
  IN IF config[key] = NoContent THEN state
     ELSE [binds |-> result[2], keys |-> [state.keys EXCEPT ![key] = result[1]]]

\* The game ends, or crashes, starts and executes its config, line by line.
Restart ==
  LET after[key \in 0..BindKeys] ==
        IF key = 0 THEN [binds |-> <<>>, keys |-> [k \in BindKey |-> 0]]
        ELSE Rebound(after[key - 1], key)
  IN /\ custom_binds' = after[BindKeys].binds /\ bindings' = after[BindKeys].keys
     /\ meant' = saved
     /\ UNCHANGED <<config, saved, pathVars, directoryVars, shownVars>>

-----------------------------------------------------------------------------
FilesInit ==
  /\ search_paths = <<>> /\ initialized = FALSE /\ registrations = <<>>
  /\ path_disk = [p \in Path |-> NoContent]
  /\ game_directories = <<>> /\ custom_path_registered = FALSE
  /\ overriden_textures = "" /\ texture_disk = NoContent /\ localized_override = NoContent
  /\ shown_last = [texture |-> "game", string |-> "game",
              textures |-> <<"", NoContent>>, strings |-> NoContent]
  /\ custom_binds = <<>> /\ bindings = [k \in BindKey |-> 0]
  /\ config = [k \in BindKey |-> NoContent]
  /\ meant = [k \in BindKey |-> NoContent] /\ saved = [k \in BindKey |-> NoContent]

PathNext ==
  \/ Read
  \/ \E path \in Path :
       \/ register_path(path) \/ unregister_path(path)
       \/ \E content \in FileContent \cup {NoContent} : DiskChanges(path, content)

DirectoryNext ==
  \/ fs_startup_stub
  \/ \E dir \in Path : register_custom_path_stub(dir)

\* Which contents are images is any set of them.
ShownNext ==
  \/ \E content \in FileContent \cup {""} : override_texture(content)
  \/ \E content \in FileContent : override(content)
  \/ \E content \in FileContent \cup {NoContent} : TextureWritten(content)
  \/ \E images \in SUBSET FileContent : load_texture_stub(images)
  \/ seh_string_ed_get_string

BindNext ==
  \/ \E key \in BindKey :
       \/ Unbind(key)
       \/ \E command \in BoundCommand : Bind(key, command)
  \/ key_write_bindings_to_buffer_stub
  \/ Restart

-----------------------------------------------------------------------------
(* Properties.                                                             *)

\* The path that was registered last is searched first and none twice, whether
\* it was registered before the first read or after: what is read is of the last
\* one that has the file, or of one of the client's own or the game's
\* (filesystem.cpp).  In the game's file system the client's data come once and
\* first.
FrontmostServed ==
  /\ search_paths = Reverse(registrations)
  /\ LET having == SelectLastInSeq(registrations, LAMBDA p : path_disk[p] # NoContent)
     IN initialized => read_file = IF having = 0 THEN "" ELSE path_disk[registrations[having]]
  /\ game_directories # <<>> =>
       Head(game_directories) = "data" /\ "data" \notin ToSet(Tail(game_directories))

\* A texture or a string is the override's if there is one that can be used,
\* then the disk's, then the game's (images.cpp, localized_strings.cpp).
OverridesShown ==
  /\ shown_last.texture \in {"game", IF shown_last.textures[1] # "" THEN shown_last.textures[1]
                                ELSE shown_last.textures[2]}
  /\ shown_last.string = IF shown_last.strings = NoContent THEN "game" ELSE shown_last.strings

\* A key executes the command it was bound to, also after the config was written
\* and the game started again with other numbers for its commands, but for the
\* hundredth command of the game's, whose number is that of the first of the
\* client's (binding.cpp, key_get_binding_for_cmd_stub).
BindingsKept ==
  \A k \in BindKey : meant[k] # Whitelist[Hundred] => Executed(bindings[k], custom_binds) = meant[k]
=============================================================================
