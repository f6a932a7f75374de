------------------------------ MODULE MCServer ------------------------------
(***************************************************************************)
(* The instance of the modules of what the game is given to run with that  *)
(* TLC checks: Hooks, Signature, Codecs, BitBuffer, Services, Files,       *)
(* MapRotation, Commands, Bots, Stats and Datagrams.  They share no state, *)
(* so a behaviour is one of a component chosen at the start, while the     *)
(* others stay in their first state.  Files is in four parts, of which     *)
(* each is such a component.                                               *)
(***************************************************************************)
EXTENDS Hooks, Signature, Codecs, BitBuffer, Services, Files, MapRotation, Commands, Bots, Stats,
        Datagrams

VARIABLE component

MCUint32 == {<<1, 128, 255, 0>>, <<170, 85, 15, 240>>}
MCBitBytes == {<<129>>, <<254, 7>>}
MCRotation ==
  {<<>>, <<"map", "a", "gametype", "sd", "map", "b", "gametype">>,
   <<"gametype", "dm", "map", "a", "mp", "x", "map", "b">>}
MCCurrent == {<<"gametype", "inf", "map", "c", "maps", "x">>}
MCMessage == {<<"a">>, <<"x1F", "/", "a">>, <<"/", "b">>, <<"x1F", "b">>}
MCCommandLine ==
  {<<"+", "set", "fs_game", "a", "+", "set", "fs_game", "quote", "b", "+", "quote">>}
MCStartupPaths == <<"iw6x", "main">>
MCWhitelist == <<"+attack", "none", "+frag">>
MCPatternText == UNION {[1..n -> {"0", "1", "?", " ", "g"}] : n \in 0..4}
MCMemory == {<<1, 0, 1, 1, 0, 1>>, <<0, 0, 0, 0, 0, 0>>, <<16, 1, 16, 1, 16, 17>>}
MCStatPath ==
  {<<"alienPlayerStats", "rank">>, <<"pastTitleData", "other">>, <<"challengeState", "c1">>}
MCChallenge == [c1 |-> <<5, 10, 0, 0>>, c2 |-> <<1, 2, 3, 4>>, p1 |-> <<0, 0, 0, 0>>]

-----------------------------------------------------------------------------
Init ==
  /\ component \in {"Hooks", "Signature", "Codecs", "BitBuffer", "Services", "Path", "Directory",
                    "Shown", "Bind", "MapRotation", "Commands", "Bots", "Stats", "Datagrams"}
  /\ HooksInit /\ (component = "Hooks" \/ mode = "server")
  /\ \/ component = "Signature" /\ SignatureInit
     \/ /\ component # "Signature"
        /\ sig_text = <<>> /\ sig_memory = <<>> /\ cpu = [cores |-> 0, sse |-> FALSE]
        /\ sig = <<>> /\ searching = {} /\ matches = <<>>
  /\ CodecsInit /\ BitInit
  /\ ServicesInit /\ (component = "Services" \/ overridden = {})
  /\ RotationInit
  /\ component = "MapRotation" \/ sv_map_rotation = <<>>
  /\ CommandsInit /\ (component = "Commands" \/ (~single_player /\ ~sv_cheats))
  /\ FilesInit /\ BotsInit /\ StatsInit /\ DatagramsInit

Next ==
  /\ UNCHANGED component
  /\ component # "Hooks" => UNCHANGED hooksVars
  /\ component # "Signature" => UNCHANGED signatureVars
  /\ component # "Codecs" => UNCHANGED codecsVars
  /\ component # "BitBuffer" => UNCHANGED bitVars
  /\ component # "Services" => UNCHANGED servicesVars
  /\ component \notin {"Path", "Directory", "Shown", "Bind"} => UNCHANGED filesVars
  /\ component # "MapRotation" => UNCHANGED rotationVars
  /\ component # "Commands" => UNCHANGED commandVars
  /\ component # "Bots" => UNCHANGED botVars
  /\ component # "Stats" => UNCHANGED statsVars
  /\ component # "Datagrams" => UNCHANGED datagramVars
  /\ \/ component = "Hooks" /\ HooksNext
     \/ component = "Signature" /\ SignatureNext
     \/ component = "Codecs" /\ CodecsNext
     \/ component = "BitBuffer" /\ BitNext
     \/ component = "Services" /\ ServicesNext
     \/ component = "Path" /\ PathNext
     \/ component = "Directory" /\ DirectoryNext
     \/ component = "Shown" /\ ShownNext
     \/ component = "Bind" /\ BindNext
     \/ component = "MapRotation" /\ RotationNext
     \/ component = "Commands" /\ CommandsNext
     \/ component = "Bots" /\ BotsNext
     \/ component = "Stats" /\ StatsNext
     \/ component = "Datagrams" /\ DatagramsNext

vars == <<component, hooksVars, signatureVars, codecsVars, bitVars, servicesVars, filesVars,
          rotationVars, commandVars, botVars, statsVars, datagramVars>>

Spec == Init /\ [][Next]_vars

-----------------------------------------------------------------------------
\* No two components take over the same of the game's code, and so, whatever the
\* order they are unpacked in, none undoes what another did (component_loader.cpp,
\* hook.cpp).
HooksPlaced == PlacesApart /\ HooksKept

\* What is read is what the text or the message says: a pattern is found at every
\* place that has its bytes, the command line sets what its last +set says, and
\* what is written into a message is read from it, whole fields and single bits
\* (signature.cpp, command.cpp, byte_buffer.cpp, data_types.hpp, bit_buffer.cpp).
ReadsBack == SignaturesFound /\ StartupRead /\ AnswerReadsBack /\ BitsReadBack

\* What is served under a name, from the user's files, the search paths, the
\* overrides or the bindings, is what was stored under it last (bdStorage.cpp,
\* filesystem.cpp, images.cpp, localized_strings.cpp, binding.cpp).
FilesServed == StoredIsServed /\ FrontmostServed /\ OverridesShown /\ BindingsKept

\* What players say is notified once, bots are never lost from sight, and what is
\* set of the statistics sticks (notifies.cpp, command.cpp, bots.cpp, stats.cpp).
PlayersServed == MessagesNotifiedOnce /\ BotsTended /\ StatsStick
=============================================================================
