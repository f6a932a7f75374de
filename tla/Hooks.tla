------------------------------- MODULE Hooks -------------------------------
(***************************************************************************)
(* What the components take over in the game.  The game's executable is    *)
(* mapped and unpacked, then component_loader::post_unpack calls every     *)
(* component's post_unpack, which overwrites spans of its code and enters  *)
(* callbacks under names of the shared tables (console and client          *)
(* commands, network packets, localized strings, dvar overrides, imports). *)
(* Nobody arbitrates: the components are written apart, and they run in    *)
(* the order their translation units are initialised in, which neither the *)
(* language nor the source fixes.  Addresses are offsets from 0x140000000; *)
(* detours of the system's own libraries are left out.                     *)
(***************************************************************************)
EXTENDS Integers, Sequences, FiniteSets

CONSTANT MaxUnpacked  \* bound on the components whose order is told apart

ASSUME HooksAssumption == MaxUnpacked \in Nat

VARIABLES
  mode,      \* what was started: game::environment
  unpacked,  \* the components whose post_unpack has run, in order
  code,      \* the spans of the game's code that are overwritten, by whom
  names      \* the names of the shared tables that are taken, by whom

hooksVars == <<mode, unpacked, code, names>>

-----------------------------------------------------------------------------
(* game::environment. *)

Mode == {"singleplayer", "multiplayer", "server", "linker"}

Sp(m) == m = "singleplayer"
Mp(m) == m = "multiplayer"
Dedi(m) == m = "server"
Linker(m) == m = "linker"
Server(m) == Dedi(m) \/ Linker(m)

When(condition, S) == IF condition THEN S ELSE {}

\* SELECT_VALUE: the address in the single player and the multiplayer executable
Of(m, pairs) == {IF Sp(m) THEN p[1] ELSE p[2] : p \in pairs}

-----------------------------------------------------------------------------
(* utils::hook: how much code each way of patching overwrites. *)

Patch(at, length) == [at |-> at, to |-> at + length - 1]

Jumps(S) == {Patch(at, 5) : at \in S}
FarJumps(S) == {Patch(at, 12) : at \in S}  \* mov rax, imm64; jmp rax
Calls(S) == {Patch(at, 5) : at \in S}
Ints(S) == {Patch(at, 4) : at \in S}       \* set<int>, and the displacement of inject
Bytes(S) == {Patch(at, 1) : at \in S}
Words(S) == {Patch(at, 2) : at \in S}
Longs(S) == {Patch(at, 8) : at \in S}
Nops(length, S) == {Patch(at, length) : at \in S}
Detours(S) == {Patch(at, 5) : at \in S}    \* MinHook's jump

Names(table, keys) == {[table |-> table, key |-> k] : k \in keys}

\* add_sv keeps what came first; elsewhere, for imports too, the last one counts.
FirstKept == {"sv_command"}

IsPatch(hook) == "at" \in DOMAIN hook
Overlap(p, q) == p.at <= q.to /\ q.at <= p.to

-----------------------------------------------------------------------------
(* What each component takes over, and where its assembled stubs jump back *)
(* into the game's code.                                                   *)

arxan_hooks(m) ==
  When(~Sp(m),
    Jumps({\h4FE1E0, \h558C20, \h591850, \h589480}) \cup Nops(6, {\hAE2B384})
    \cup Nops(4, {\hA31E98E, \hA920E10, \hA1A2425, \hAE07CEA}))
  \cup Names("import", {"SetThreadContext"})

\* The patches of the single player and of the others both, whatever was started.
auth_everywhere(m) ==
  Jumps({\h4BF3F0, \h4C02AF, \h4C07F4})
  \cup Jumps({\h585410, \h142252, \h142334, \h5864EF, \h586A80})
  \cup FarJumps({\h479636})
  \cup Calls({\h2C4F8E})
  \cup Names("command", {"guid"})

auth_hooks(m) ==
  When(Sp(m), Jumps({\h4BF3F0, \h4C02AF, \h4C07F4}))
  \cup When(~Sp(m),
         Jumps({\h585410, \h142252, \h142334, \h5864EF, \h586A80})
         \cup FarJumps({\h479636}) \cup Calls({\h2C4F8E}))
  \cup Names("command", {"guid"})

auth_resumes(m) ==
  When(~Sp(m), {\h479757})

binding_hooks(m) ==
  When(~Server(m),
    Calls(Of(m, {<<\h23DF2B, \h2C465B>>})) \cup Jumps(Of(m, {<<\h23D6E0,
      \h2C3E50>>})) \cup Detours(Of(m, {<<\h239970, \h2BF0E0>>})))

bots_hooks(m) ==
  When(~Sp(m),
    Detours(Of(m, {<<\h0, \h460B80>>})) \cup Names("command", {"spawnbot"})
    \cup Names("packet", {"getbotsresponse"}))

branding_hooks(m) ==
  When(~Server(m),
    Calls(Of(m, {<<\h3BDABA, \h414424>>})) \cup Detours(Of(m, {<<\h415FD0,
      \h4D7C00>>})) \cup Names("string", {"LUA_MENU_LEGAL_COPYRIGHT"}))
  \cup When(Mp(m),
         Names("command", {"jasmin"}) \cup Names("string",
           {"LUA_MENU_MULTIPLAYER_CAPS"}))

bullet_hooks(m) ==
  When(~Sp(m), Detours({\h238FD0}))

colors_hooks(m) ==
  When(Mp(m), Jumps({\h4F5FC0, \h4F63C0}) \cup Calls({\h25CE79}))
  \cup When(~Server(m), Jumps(Of(m, {<<\h55DCC0, \h62AE80>>})))

command_hooks(m) ==
  When(~Sp(m),
    Calls({\h41213C}) \cup Detours({\h3929B0}) \cup Names("sv_command", {"god",
      "notarget", "noclip", "ufo", "setviewpos", "setviewang", "give",
      "take"}))
  \cup Names("command", {"quit", "quit_hard", "crash", "dvardump",
    "commanddump", "consolelist", "listassetpool", "vstr"})
  \cup When(Sp(m),
         Names("command", {"god", "notarget", "noclip", "ufo", "give",
           "take"}))

console_hooks(m) ==
  Jumps(Of(m, {<<\h43DFA0, \h502A80>>}))

cursor_hooks(m) ==
  Calls(Of(m, {<<\h40117E, \h4BB119>>})) \cup Names("import", {"ShowCursor"})

dedicated_hooks(m) ==
  When(Server(m),
    Calls({\h3A0AF9, \h413AD8, \h412183, \h412FD3}) \cup Jumps({\h3C9660,
      \h5E8530, \h2C89A0, \h610EB6, \h4FF510}) \cup Ints({\h47147C})
    \cup Nops(5, {\h412FE9, \h4DDC2E, \h2CA12D, \h4F8BD9})
    \cup Bytes({\h416100, \h2E5830, \h2C7935, \h503FF0, \h602380, \h658580,
      \h2CF570, \h2C49B0, \h5DAE1F, \h4FFCE2, \h503420, \h4BEC10, \h5E87DE,
      \h4FFCF0, \h5F0620, \h5F0530, \h5F05C0, \h324F00, \h5F0580, \h5B81A0,
      \h5E0CF0, \h5E1530, \h5E3E50, \h5E1050, \h167E00, \h167D80, \h6492A0,
      \h5047A0, \h5B8DB0, \h5E7D20, \h5B8BD0, \h5E7DF0, \h5E76C0, \h65EA00,
      \h47BE70, \h423B20, \h423A60, \h328660}) \cup Nops(6, {\h47261C})
    \cup Nops(4, {\h471B6B}) \cup Nops(2, {\h2CA0F5, \h2CA0B9, \h4F8BE1})
    \cup Longs({\h4FA6BD, \h4FA76F}) \cup Names("command", {"map",
      "map_restart", "fast_restart", "heartbeat"}) \cup Names("import",
      {"SetFocus"}))

demonware_hooks(m) ==
  Jumps(Of(m, {<<\h602230, \h6F54D0>>}))

dvar_cheats_hooks(m) ==
  When(~Sp(m),
    Nops(4, {\h4F0D13}) \cup FarJumps({\h4F0D1A, \h38A59A}) \cup Nops(5,
      {\h38A553}) \cup Calls({\h287AED}) \cup Bytes({\h26B50E}))

dvar_cheats_resumes(m) ==
  When(~Sp(m), {\h4F0FC5, \h4F0D2E, \h4F0D74, \h38A5A7, \h38A5CD})

dvars_hooks(m) ==
  Detours(Of(m, {<<\h42AF10, \h4EDD60>>}))

fastfiles_hooks(m) ==
  Detours(Of(m, {<<\h275850, \h3237F0>>, <<\h272300, \h31F3A0>>}))
  \cup Names("command", {"loadzone", "materiallist"})

filesystem_hooks(m) ==
  Ints(Of(m, {<<\h41C053, \h4DDA13>>}))
  \cup When(Sp(m), Calls({\h41B744, \h41CD00, \h41CD20, \h41CD5F}))
  \cup When(~Sp(m), Calls({\h4DD704, \h4DDB43, \h4DE550, \h4DE570, \h4DE5AF}))

fps_hooks(m) ==
  When(~Server(m),
    Calls(Of(m, {<<\h242C11, \h2CF457>>, <<\h1F400A, \h272B98>>})))

game_console_hooks(m) ==
  When(~Server(m), Names("command", {"clear"}))

game_log_hooks(m) ==
  When(~Sp(m), Longs({\h9E8A20}))

gameplay_hooks(m) ==
  When(Sp(m), Nops(16, {\h46EC5C}))
  \cup FarJumps(Of(m, {<<\h46EC5C, \h228FFF>>})) \cup Detours(Of(m,
    {<<\h479640, \h238A90>>}))
  \cup When(~Sp(m),
         Calls({\h382C13, \h48A49A, \h2B5B88, \h225857, \h2219A5, \h213007,
           \h221F92, \h221FFA, \h21F0E3, \h3D933E}) \cup Nops(13, {\h3828C8,
           \h383789}) \cup FarJumps({\h3828C8, \h383789, \h213484}))

gameplay_resumes(m) ==
  When(Sp(m), {\h46EC7E, \h46EC6C, \h46ED26})
  \cup When(~Sp(m), {\h3828D5, \h383796, \h229019, \h22900B, \h228FB8,
    \h213494})

images_hooks(m) ==
  When(~Dedi(m),
    Detours(Of(m, {<<\h514FD0, \h5E1A30>>, <<\h516000, \h5E2A60>>})))

input_hooks(m) ==
  When(~Server(m),
    Detours(Of(m, {<<\h23CE50, \h2C2AE0>>, <<\h23D070, \h2C2CE0>>})))

linker_hooks(m) ==
  When(Linker(m), Detours({\h321C00}))

localized_strings_hooks(m) ==
  Detours(Of(m, {<<\h3F42D0, \h4A5F60>>}))

logger_hooks(m) ==
  When(Mp(m),
    Calls({\h1CCBD2, \h1CCBDE, \h1CCBE6, \h1CCBF2, \h1CCE48, \h1CCE54,
      \h1CCE5C, \h1CCE68, \h1CD0AD, \h1CD0B9, \h1CD0C1, \h1CD0CD, \h1CF46D,
      \h1CF479, \h1CF481, \h1CF48D, \h1D02B8, \h1D02D8, \h1D02E4, \h1D0388,
      \h1D03A8, \h1D03B4, \h1D03CD, \h1D1884, \h1D1A36, \h1C9CAE, \h1CC7F5,
      \h1CC97E, \h1CE43C, \h1CF7E4, \h1D15BA, \h1D24BC}))
  \cup When(~Sp(m), Calls({\h501AE3}))
  \cup Detours(Of(m, {<<\h3BBFF0, \h412740>>})) \cup Jumps(Of(m, {<<\h6283A4,
    \h732184>>}))

map_rotation_hooks(m) ==
  When(Dedi(m), Jumps({\h3CBC30}) \cup Names("command", {"map_rotate"}))

musical_talent_hooks(m) ==
  When(Mp(m), Calls({\h4903BD}))

network_hooks(m) ==
  When(~Sp(m),
    Jumps({\h501A00, \h41D010, \h41D060, \h471AAC, \h472671, \h5019CB})
    \cup FarJumps({\h2C64CB, \h41DFB0}) \cup Bytes({\h2ECF1D, \h2ED02A,
      \h2ED34D, \h2C4A1F, \h471AF0, \h154AA9, \h154AC3, \h4745DB, \h2CCCC7,
      \h47A17A, \h4799AD, \h4717BA, \h4719DF, \h2C8083, \h2C808C, \h501A63,
      \h2C6AA4}) \cup Nops(2, {\h474584}) \cup Calls({\h47A16E, \h4799A1,
      \h4717AD, \h4719D2, \h47197E, \h500FD0}) \cup Names("packet", {"print"}))

network_resumes(m) ==
  When(~Sp(m), {\h2C6DE8, \h2C64EE, \h41DFBD, \h47771E})

notifies_hooks(m) ==
  When(~Sp(m),
    Calls({\h4724DD}) \cup Detours({\h3CE0C0, \h3CE260})
    \cup FarJumps({\h43A584}))

notifies_resumes(m) ==
  When(~Sp(m), {\h43A593})

party_hooks(m) ==
  When(~Sp(m),
    Jumps({\h2C6370}) \cup Bytes({\h3CBFD0}) \cup Detours(Of(m, {<<\h42D6E0,
      \h4F08E0>>})) \cup Names("command", {"reconnect", "connect",
      "clientkick", "kick", "tell", "tellraw", "say", "sayraw"})
    \cup Names("packet", {"getinfo"}))
  \cup When(Mp(m), Nops(13, {\h2C6100}) \cup FarJumps({\h2C6100}))
  \cup When(~Sp(m) /\ ~Dedi(m), Names("packet", {"inforesponse"}))

party_resumes(m) ==
  When(Mp(m), {\h2C617D})

patches_hooks(m) ==
  Bytes(Of(m, {<<\h242DDB, \h2CF58B>>})) \cup Calls(Of(m, {<<\h1F3E96,
    \h27273C>>})) \cup Calls(Of(m, {<<\h228DDE, \h2AB04C>>, <<\h228E0E,
    \h2AB07C>>, <<\h228E3E, \h2AB0AC>>, <<\h317079, \h272777>>}))
  \cup Jumps(Of(m, {<<\h3BFCB0, \h416A60>>, <<\h3B39BB, \h3F752B>>}))
  \cup FarJumps(Of(m, {<<\h3B3A12, \h3F7582>>})) \cup Nops(6, Of(m,
    {<<\h43E6CB, \h504A2B>>, <<\h23B3AC, \h2C0CE0>>})) \cup Nops(2, Of(m,
    {<<\h23D490, \h2C3099>>}))
  \cup When(Sp(m), Calls({\h1F3EC7}))
  \cup When(~Sp(m),
         Calls({\h476F4F}) \cup Detours({\h413A90, \h4FDAA0, \h46F730,
           \h4EE270, \h3926A0}) \cup Bytes({\h2C836D, \h470300})
         \cup Ints({\h4EAC50, \h599890, \h2F61B0}) \cup Calls({\h25C825,
           \h2BC42F, \h2C3699, \h13B9AC, \h31E8AB}) \cup Nops(5, {\h3E984E,
           \h3A072F}) \cup FarJumps({\h3A1A03}) \cup Nops(1, {\h3A1A0F})
         \cup Names("override", {"r_umbraExclusive"}))

patches_resumes(m) ==
  When(Sp(m), {\h3B39C0, \h3B3A04})
  \cup When(~Sp(m), {\h3F7530, \h3F7574, \h3A1A10})

ranked_hooks(m) ==
  When(Dedi(m), Ints({\h479CF0}))
  \cup When(~Sp(m), Detours({\h217020, \h216DC0, \h216F70, \h2170E0}))
  \cup When(Mp(m) \/ Dedi(m), Names("override", {"xblive_privatematch"}))

raw_mouse_hooks(m) ==
  When(~Server(m),
    Calls(Of(m, {<<\h43845F, \h4FC3FB>>, <<\h519F71, \h5E69A1>>, <<\h43BF04,
      \h500824>>})) \cup Bytes(Of(m, {<<\h519F76, \h5E69A6>>, <<\h43BF09,
      \h500829>>})))

rcon_hooks(m) ==
  When(~Sp(m), Names("command", {"status"}))
  \cup When(~Sp(m) /\ ~Dedi(m), Names("command", {"rcon"}))
  \cup When(Dedi(m), Names("packet", {"rcon"}))

redirect_hooks(m) ==
  Names("import", {"ShellExecuteA"})

renderer_hooks(m) ==
  When(~Server(m),
    Detours(Of(m, {<<\h4FF600, \h5CB470>>, <<\h535FF0, \h603240>>})))

resources_hooks(m) ==
  Names("import", {"LoadIconA", "LoadImageA"})

scheduler_hooks(m) ==
  Detours(Of(m, {<<\h534860, \h601AA0>>})) \cup Calls(Of(m, {<<\h3BC922,
    \h413142>>, <<\h3185FD, \h3A0AF9>>}))

script_error_hooks(m) ==
  When(~Sp(m),
    Detours({\h42E150}) \cup Calls({\h42E0E4, \h42E138, \h42E22B})
    \cup Jumps({\h438ED0, \h438AD0, \h4388B0, \h4393D0, \h438E10, \h438D60,
      \h4390B0, \h439280, \h4392F0}))

script_extension_hooks(m) ==
  Longs(Of(m, {<<\h86F468, \h9E6CE8>>, <<\h86F480, \h9E6D00>>}))
  \cup Ints(Of(m, {<<\h3D353C, \h42E33C>>, <<\h3D3546, \h42E346>>, <<\h3E0BE0,
    \h43BBC1>>, <<\h3D38E7, \h42E737>>}))
  \cup When(~Sp(m),
         Nops(2, {\h43BBC3}) \cup Calls({\h43BBBE, \h43CEB1, \h42E76F})
         \cup Longs({\h9E6E38, \h9E6E50, \h9E6E20}))

script_loading_hooks(m) ==
  Calls(Of(m, {<<\h3DC8F0, \h437940>>, <<\h32D1E0, \h3CCED9>>, <<\h32D345,
    \h3CD08D>>}))
  \cup When(~Sp(m), Calls({\h4378D7, \h4378E7, \h3CD009, \h39F64E, \h39F653}))

scripting_hooks(m) ==
  Detours(Of(m, {<<\h3E29C0, \h43D9B0>>, <<\h13D5D0, \h3C4E60>>, <<\h318C10,
    \h3A0DF0>>, <<\h3D3560, \h42E360>>, <<\h3DC870, \h4378C0>>, <<\h3D36F0,
    \h42E4F0>>}))
  \cup When(~Sp(m),
         Jumps({\h2084A0, \h2084A5}) \cup Words({\h2084D0})
         \cup Detours({\h161F90}))

security_hooks(m) ==
  When(~Sp(m), Calls({\h287C5C, \h47A29A}))

server_list_hooks(m) ==
  When(Mp(m),
    Calls({\h4FE840, \h2F7480, \h1E7171, \h1E7616, \h1E7225, \h1E7405})
    \cup Nops(5, {\h1E7635}) \cup FarJumps({\h1EBE30}) \cup Names("string",
      {"PLATFORM_SYSTEM_LINK_TITLE", "LUA_MENU_STORE_CAPS",
      "LUA_MENU_STORE_DESC", "MENU_NUMPLAYERS"}) \cup Names("command",
      {"lui_open"}) \cup Names("packet", {"getserversresponse"}))

slowmotion_hooks(m) ==
  When(Dedi(m), Jumps({\h3B4A10}) \cup Detours({\h415D50}))

splash_hooks(m) ==
  Nops(5, Of(m, {<<\h43C15B, \h500ADB>>})) \cup Jumps(Of(m, {<<\h43D5A0,
    \h502000>>, <<\h43D5E0, \h502040>>}))

stats_hooks(m) ==
  When(Mp(m),
    Names("command", {"setreservedplayerdataint", "getreservedplayerdataint",
      "setplayerdataint", "getplayerdataint", "unlockstats"}))

ui_scripting_hooks(m) ==
  Bytes(Of(m, {<<\h178C5E, \h197E7E>>})) \cup Calls(Of(m, {<<\h1B0028,
    \h1CE6C8>>})) \cup Jumps(Of(m, {<<\h15BD10, \h17E040>>, <<\h15C3D0,
    \h17E700>>, <<\h15D400, \h17F730>>, <<\h15D3D0, \h17F700>>, <<\h15C930,
    \h17EC60>>, <<\h158C20, \h17AF50>>, <<\h158B10, \h17AE40>>, <<\h15D7E0,
    \h17FB10>>, <<\h1569D0, \h178CF0>>, <<\h163CD0, \h177E00>>, <<\h163DE0,
    \h177F10>>, <<\h157DA0, \h17A0D0>>, <<\h1606A0, \h1747D0>>})) \cup Nops(5,
    Of(m, {<<\h15B639, \h17D969>>}))
  \cup When(Mp(m),
         Calls({\h1C7F57, \h1C7F24}) \cup Detours({\h178020, \h1D8E90,
           \h1D24A0}) \cup Names("command", {"lui_restart"}))

ultrawide_hooks(m) ==
  Calls(Of(m, {<<\h510D0E, \h5DCF58>>})) \cup FarJumps(Of(m, {<<\h519EC7,
    \h5E68F7>>, <<\h1CD75B, \h2008BB>>, <<\h1CD793, \h2008F3>>, <<\h24D323,
    \h2F7043>>})) \cup Nops(5, Of(m, {<<\h24AEF2, \h2D4FB2>>, <<\h24D655,
    \h2F7375>>, <<\h24AF19, \h2D4FD9>>, <<\h24D664, \h2F7384>>}))
  \cup Bytes(Of(m, {<<\h24AF19, \h2D4FD9>>, <<\h24D1A3, \h2F6EC3>>, <<\h24D1DB,
    \h2F6EFB>>, <<\h24D20C, \h2F6F2C>>, <<\h24D20B, \h2F6F2B>>, <<\h24D23C,
    \h2F6F5C>>, <<\h24D23B, \h2F6F5B>>}))

ultrawide_resumes(m) ==
  When(Sp(m), {\h519ED3, \h1CD772, \h1CD79F, \h24D32F})
  \cup When(~Sp(m), {\h5E6903, \h2008D2, \h2008FF, \h2F704F})

-----------------------------------------------------------------------------
Component == {
  "arxan", "auth", "binding", "bots", "branding", "bullet", "colors",
  "command", "console", "cursor", "dedicated", "demonware", "dvar_cheats",
  "dvars", "fastfiles", "filesystem", "fps", "game_console", "game_log",
  "gameplay", "images", "input", "linker", "localized_strings", "logger",
  "map_rotation", "musical_talent", "network", "notifies", "party",
  "patches", "ranked", "raw_mouse", "rcon", "redirect", "renderer",
  "resources", "scheduler", "script_error", "script_extension",
  "script_loading", "scripting", "security", "server_list", "slowmotion",
  "splash", "stats", "ui_scripting", "ultrawide"}

\* component_interface::post_unpack, of every component that takes something
Hooks == [m \in Mode |-> [
  arxan |-> arxan_hooks(m), auth |-> auth_hooks(m),
  binding |-> binding_hooks(m), bots |-> bots_hooks(m),
  branding |-> branding_hooks(m), bullet |-> bullet_hooks(m),
  colors |-> colors_hooks(m), command |-> command_hooks(m),
  console |-> console_hooks(m), cursor |-> cursor_hooks(m),
  dedicated |-> dedicated_hooks(m), demonware |-> demonware_hooks(m),
  dvar_cheats |-> dvar_cheats_hooks(m), dvars |-> dvars_hooks(m),
  fastfiles |-> fastfiles_hooks(m), filesystem |-> filesystem_hooks(m),
  fps |-> fps_hooks(m), game_console |-> game_console_hooks(m),
  game_log |-> game_log_hooks(m), gameplay |-> gameplay_hooks(m),
  images |-> images_hooks(m), input |-> input_hooks(m),
  linker |-> linker_hooks(m),
  localized_strings |-> localized_strings_hooks(m),
  logger |-> logger_hooks(m), map_rotation |-> map_rotation_hooks(m),
  musical_talent |-> musical_talent_hooks(m), network |-> network_hooks(m),
  notifies |-> notifies_hooks(m), party |-> party_hooks(m),
  patches |-> patches_hooks(m), ranked |-> ranked_hooks(m),
  raw_mouse |-> raw_mouse_hooks(m), rcon |-> rcon_hooks(m),
  redirect |-> redirect_hooks(m), renderer |-> renderer_hooks(m),
  resources |-> resources_hooks(m), scheduler |-> scheduler_hooks(m),
  script_error |-> script_error_hooks(m),
  script_extension |-> script_extension_hooks(m),
  script_loading |-> script_loading_hooks(m),
  scripting |-> scripting_hooks(m), security |-> security_hooks(m),
  server_list |-> server_list_hooks(m), slowmotion |-> slowmotion_hooks(m),
  splash |-> splash_hooks(m), stats |-> stats_hooks(m),
  ui_scripting |-> ui_scripting_hooks(m), ultrawide |-> ultrawide_hooks(m)]]

Resumes == [m \in Mode |-> [c \in Component |->
  CASE c = "auth" -> auth_resumes(m)
    [] c = "dvar_cheats" -> dvar_cheats_resumes(m)
    [] c = "gameplay" -> gameplay_resumes(m)
    [] c = "network" -> network_resumes(m)
    [] c = "notifies" -> notifies_resumes(m)
    [] c = "party" -> party_resumes(m)
    [] c = "patches" -> patches_resumes(m)
    [] c = "ultrawide" -> ultrawide_resumes(m)
    [] OTHER -> {}]]

-----------------------------------------------------------------------------
HooksInit ==
  /\ mode \in Mode
  /\ unpacked = <<>>
  /\ code = {}
  /\ names = {}

\* What c writes replaces what it overlaps.
post_unpack(c) ==
  LET patches == {h \in Hooks[mode][c] : IsPatch(h)}
      taken == {h \in Hooks[mode][c] \ patches :
                  h.table \in FirstKept => \A n \in names : n.name # h}
  IN /\ Len(unpacked) < MaxUnpacked
     /\ \A i \in DOMAIN unpacked : unpacked[i] # c
     /\ unpacked' = Append(unpacked, c)
     /\ code' = {w \in code : \A p \in patches : ~Overlap(w.patch, p)}
                  \cup {[owner |-> c, patch |-> p] : p \in patches}
     /\ names' = {n \in names : n.name \notin taken}
                   \cup {[owner |-> c, name |-> n] : n \in taken}
     /\ UNCHANGED mode

HooksNext == \E c \in Component : post_unpack(c)

HooksSpec == HooksInit /\ [][HooksNext]_hooksVars

-----------------------------------------------------------------------------
(* Properties. *)

\* The call of the server's frame, which two components take over.
GlassCall == Patch(\h3A0AF9, 5)

\* No patch of a component overlaps another's, no name is taken by two, and no
\* stub returns into the middle of a patch.
PlacesApart ==
  \A m \in Mode, c, d \in Component :
    /\ c # d => \A h \in Hooks[m][c] \ {GlassCall}, g \in Hooks[m][d] :
                 IF IsPatch(h) THEN IsPatch(g) => ~Overlap(h, g) ELSE h # g
    /\ \A at \in Resumes[m][c], h \in Hooks[m][d] :
         IsPatch(h) => ~(h.at < at /\ at <= h.to)

\* Whatever the order the components are unpacked in, none undoes what another
\* did: every patch of a component is still in place, no assembled stub returns
\* into the middle of what another wrote, and every name still has its callback.
\* (The server's frame call is the exception: see ArxanErrorFixKept.)
HooksKept ==
  \A i \in DOMAIN unpacked :
    LET c == unpacked[i]
    IN /\ \A h \in Hooks[mode][c] \ {GlassCall} :
            IF IsPatch(h) THEN [owner |-> c, patch |-> h] \in code
                          ELSE [owner |-> c, name |-> h] \in names
       /\ \A at \in Resumes[mode][c], w \in code :
            ~(w.patch.at < at /\ at <= w.patch.to)

\* A dedicated server calls glass_update, the fix of Arxan's error, where the
\* game called G_Glass_Update.
ArxanErrorFixKept ==
  Server(mode) /\ (\E i \in DOMAIN unpacked : unpacked[i] = "dedicated")
    => [owner |-> "dedicated", patch |-> GlassCall] \in code
=============================================================================
