# TLA+ specifications of the IW6x client

The IW6x client is loaded into the process of Call of Duty: Ghosts, hooks functions of the game
and adds what the game lost with its servers: an emulated Demonware lobby, a server browser, a
dedicated server, Lua scripting. This directory specifies the client, as far as its code decides
anything over time or computes anything that could be wrong; TLC checks the modules on small
instances, and TLAPS proves what matters most about nearly all of them for all instances.

    tlc -config Scheduler.cfg MCScheduler        # any run: see "Runs"
    tlapm SchedulerProofs.tla                    # any module *Proofs: see "Proofs"

`PROJECT.json` lists every component with its files, every run, for every definition the source
lines it models, for every property a fault of the code that it catches, and the hazards the
properties are for. Definitions whose comment begins with "Fault:" or "A bug:" are those faults;
nothing else uses them.

## The system

Source paths are relative to `src/src/client/`. A component registers itself with the component
loader, which calls `post_start`, `post_load`, `post_unpack` and `pre_destroy` in the life of the
process. Four kinds of threads meet: the game's main thread (frames, network packets, menus,
console commands), the renderer's and the server's frame hooks, the threads components start
("Async Scheduler", the Demonware thread, two console threads), and threads of the game that use
sockets.

| Component | State | Operations | Talks to | Hard about it | Correct when |
|---|---|---|---|---|---|
| scheduler (`component/scheduler.cpp`) | per pipeline `new_callbacks_` and `callbacks_`; `kill`, `thread` | schedule, loop, once, on_game_initialized; execute per frame; pre_destroy | called by nearly every component, from any thread and from its own handlers; polls the game's readiness | adds race with merges, handlers add while a pass iterates, erase while walking, shutdown during a pass | no task lost, doubled or reordered; onces once; nothing starves; quiet after the join |
| server list (`component/server_list.cpp`) | `servers`, `queued_servers`, `requesting`, scroll offset, line clicked last | refresh, getServersResponse, frame work, info response, scroll, join | master server and game servers over UDP; party; menus | lost, late, doubled and crossing answers; time-outs; indices into a list that changes | one line and one question per server, sorted, never scrolled past the end, the queue drains |
| party (`component/party.cpp`) | `connect_state`, motd, max clients; deferred connects in the scheduler | connect, reconnect, disconnect, infoResponse, kick, say, tell | network, server list, scheduler | late and doubled answers, connects put off; slots that change hands | only answers to the newest connect with no refresh since connect, once each |
| network (`component/network.cpp`) | table of callbacks | on, handle_command, send | every component with packets | delivery | each packet to its handler |
| Demonware sockets (`component/demonware.cpp`) | `socket_links`, `blocking_sockets`, `servers`, `datagram_packets` under `server_mutex`; `terminate`, the thread | hooks of connect, send, recv, close, ioctl and their datagram forms; server thread; pre_destroy | the game's socket threads; service and STUN servers | several critical sections per call, blocking receives that poll, a join with the mutex held | answers reach the readers in order, calls return, nothing runs after shutdown |
| service server and services (`game/demonware/`) | `incoming_queue_`, `outgoing_queue_`, `reply_sent_`; user files, groups | send, recv, run_frame; a handler per request | files, the web, the buffers | looks at queues before it locks; packets of several messages; two namings of files | answers complete and in order, read back as written, files served as stored |
| dedicated server (`component/dedicated.cpp`) | two command queues | execute_*_command, the callback that initializes and empties them | scheduler, command | the game's readiness comes and goes between a command and the callback | early commands run once, in order, and in the end |
| map rotation (`component/map_rotation.cpp`) | entries and position, four dvars | map_rotate, end of a level | scheduler, command | put off, crossed, random and current rotations | every map in turn with its game type, in the order that is kept |
| Lua (`game/scripting/lua/`, `component/scripting.cpp`, `component/notifies.cpp`) | tasks and listeners with their new ones, endon conditions, contexts; hooks of functions | ontimeout, oninterval, onnotify, endon, clear; notify; detour; start, stop | the script machine | callbacks that add, end, clear and notify in turn; values without owners | ended tasks never run, calls reach their function, values arrive |
| script machine (`game/scripting/`, `component/gsc/`, `component/ui_scripting.cpp`) | reference counts, custom fields, the isolated stack; handles, function tables, loaded scripts | calls, fields, loading, shutdown of a level, errors | the game's two machines | failures by long jumps, nested calls, scripts kept or freed | counts match holders, tables match scripts |
| console and rcon (`component/console.cpp`, `component/rcon.cpp`, `component/game_console.cpp`) | message queue, pipe, two threads; redirect; line, history, output | print, log, rcon, keys, drawing, pre_destroy | everybody prints; network; command | redirect is global, threads must wake up to stop, the renderer reads what the main thread edits | output in order and to the right place, ENTER executes what was last seen of the line, shutdown returns unless the pipe is full |
| commands (`component/command.cpp`, `component/notifies.cpp`) | tables of handlers, command line, deferred notifications | client commands, chat, dumps | scripts, server frame | what is put off finds its player by slot | a message is notified once, in order |
| bots, statistics (`component/bots.cpp`, `component/stats.cpp`) | tasks by slot, names; the game's data buffer | spawnBot, answers of the master; set, unlock | scheduler, network, the game's storage | slots that change hands; writes that are never asked for | no bot is lost; what is set is read back, and sticks once a write was asked for |
| files and bindings (`component/filesystem.cpp`, `images.cpp`, `localized_strings.cpp`, `binding.cpp`) | search paths, overrides, custom binds | find, override, bind, config | the game's file system and config | order of registration, numbers of commands | the frontmost is served, keys keep their command |
| hooks (`post_unpack` of every component, `utils/hook.cpp`, `utils/signature.cpp`) | the game's code | patch, search | the game | no order among components | nobody undoes what another did |
| Steam callbacks (`steam/steam.cpp`) | call results, handlers, callbacks | register, return_call, run_callbacks | game, Steam interfaces | handlers called during iteration | each result delivered once, in the order of queueing |
| component loader and process (`loader/component_loader.cpp`, `main.cpp`, `launcher/`, `component/exception.cpp`) | list of components, a `handled` flag per phase, the mode, recoveries | the phases, clean, the exit paths | all components | exit paths that meet | phases once and in order, each component destroyed once |

## Modules

| Module | Models | Of |
|---|---|---|
| `DeferredCalls` | what the scheduler promises of a single task | (abstract) |
| `Scheduler`, `MCScheduler` | pipelines, passes, the async thread | `component/scheduler.cpp` |
| `SequenceLemmas` | what appending, joining, erasing, reversing and taking the head do to sequences, counting in them, and iteration | (proofs) |
| `SchedulerProofs` | theorems of `Scheduler`; it implements `DeferredCalls` | (proofs) |
| `BrowserProofs`, `DemonwareProofs`, `LuaProofs`, `ScriptProofs`, `ProcessProofs` | theorems of `Browser`; of `Demonware` and `Datagrams`; of `Lua`; of `ScriptVM`, `LuaValues`, `Gsc` and `UiScripting`; of `Process`, `Dedicated`, `Steam`, `Console`, `ConsoleOutput` and `GameConsole` | (proofs) |
| `ServerProofs` | theorems of `MapRotation`, `Bots`, `Stats`, `Commands`, `Hooks`, `Services` and `Files` | (proofs) |
| `ServerList`, `Party` | operators and one action per handler | `component/server_list.cpp`, `component/party.cpp` |
| `Browser`, `MCBrowser` | both, composed, with player, network, frames and clock | with `component/network.cpp` |
| `ServiceServer` | the operations of an emulated server | `game/demonware/service_server.cpp` |
| `Demonware`, `MCDemonware` | TCP hooks, server thread, shutdown, composed with it | `component/demonware.cpp` |
| `Datagrams` | UDP hooks and STUN servers | `component/demonware.cpp`, `game/demonware/stun_server.cpp` |
| `Dedicated` | early commands and the initialization | `component/dedicated.cpp` |
| `Lua`, `MCLua` | tasks, listeners and contexts | `game/scripting/lua/` |
| `LuaValues` | values, arrays, detours, damage callbacks | `lua/value_conversion.cpp`, `lua/context.cpp`, `component/notifies.cpp` |
| `ScriptVM` | calls into the machine, reference counts, failures | `game/scripting/` |
| `Gsc` | scripts of a level, tables, hooks, errors | `component/gsc/`, `component/scripting.cpp` |
| `UiScripting` | the menus' scripts and references | `component/ui_scripting.cpp`, `game/ui_scripting/` |
| `Process` | phases, modes, launcher, exits, recoveries | `loader/component_loader.cpp`, `main.cpp`, `launcher/`, `component/exception.cpp` |
| `Console` | messages, redirect, the two threads | `component/console.cpp`, `component/rcon.cpp` |
| `ConsoleOutput`, `GameConsole` | output; line, completion, history | `component/game_console.cpp` |
| `Steam` | calls, results, callbacks | `steam/` |
| `Hooks` | every component's patches, stubs and names, in any order | `post_unpack` of every component, `utils/hook.cpp` |
| `Signature` | patterns and their search by threads | `utils/signature.cpp` |
| `Codecs`, `BitBuffer` | what is written and read, by bytes and by bits | `byte_buffer.cpp`, `data_types.hpp`, `bit_buffer.cpp`, the authentication services |
| `Services` | the services' handlers and files | `game/demonware/services/`, `component/motd.cpp` |
| `Files` | search paths, overrides, bindings | `filesystem.cpp`, `images.cpp`, `localized_strings.cpp`, `binding.cpp` |
| `MapRotation`, `Commands`, `Bots`, `Stats` | the components of these names | `component/*.cpp` |
| `MCProcess`, `MCConsole`, `MCScripting`, `MCServer` | instances: independent modules side by side | |

The last four put modules together that share no state. A behaviour of such an instance is one of
a single component, chosen at the start, while the others rest in an initial state; a property
that needs several of these modules is the conjunction of theirs. The product of their state spaces
would show nothing of a component that its own steps do not.

### Scheduler

`new_callbacks`, `callbacks`, `kill`, `thread` are the variables of the source. A task is an
identity, numbered in the order of the `add` calls; `call` gives its handler and interval.
`last_call` appears as `age`, its distance to the clock, saturated at `MaxAge`, since the code only
compares `now - last_call` with the interval. `cursor[p]` is the iterator of the pass (0 outside of
one) and `running[p]` says that the handler it points at has been called and not returned.

A pass is many steps: `BeginPass` locks `callbacks_` and merges (`merge_callbacks` holds both
mutexes, so it is one step), `Skip` and `CallHandler` are the two outcomes of the interval test,
`Continue` and `End` the two answers of a handler, `GameInitialized` the third kind of handler
end, which schedules the callback, and `EndPass` releases the locks. Between any two of them other
threads and the running handler itself add tasks (`Schedule`), the clock ticks, other pipelines go
on. `schedule` reads the clock before it adds; the time between is the parameter `a`, up to
`MaxPreempt` ticks. The async thread is its loop (`TestKill`, `AsyncBegin`, the pass, `AsyncEnd`,
`Wake`); `PreDestroy` and `Join` are the two halves of `pre_destroy`. The game's readiness changes at
any time. The exit path runs on the main thread, so no main frame follows `PreDestroy`.

A call of handler A from within handler B of the same pipeline (a handler that runs a frame of the
game) is not in the model; see the hazards.

`DeferredCalls` knows for each call whether it is unused, pending, running or finished and how
long ago its handler was last called, and allows a call only when it is due, one call of a once
handler, and no loss of a pending one. `Status` in `Scheduler` reads this off the vectors and the
iterators: the refinement mapping.

### Server list, party, browser

All handlers run on the main thread, so each is one step; what interleaves are handlers, frames,
clicks and packets. `queued_servers` keeps the age of a question in place of its time (`Unasked`
for 0, `Absent` for no entry), saturated just beyond the time-out. The walk of `do_frame_work`
through an `unordered_map` takes its servers in any order: `chosen` is any set of unasked servers of
the size the limit allows. `sort_serverlist` is the stable sort by rank.

`Browser` adds the network. `getInfo` holds every question ever sent, and an `InfoResponse` to any
of them may arrive at any time and any number of times: loss, delay, duplication and reordering
need no actions of their own. One handler, in party.cpp, feeds both components, hence
`InfoResponse` conjoins `handle_info_response` and `infoResponse`. The challenges of the list's
own questions are random and remembered by nobody (`ListChallenge`); those of `connect` are taken to
be distinct. `Info` abstracts an answer to what the handlers tell apart: the players, whether the
filters let it through, whether the joining checks do. Whoever the player connects to is one of
the addresses of the network (`BrowserAssumption`). `reconnect` while the client game is up puts
a `disconnect` and itself into the command buffer, which the game empties first; it is one action.

The code forgets the connection asked for at a refresh only, neither when its answer was accepted nor
when the player disconnects. Hence `accepted` is a sequence: each answer that led to a connection is an
entry of it, a second copy of the same answer a second entry. `connects` counts the calls of
`CL_ConnectFromParty` for each host, and `forgotten` the calls of `connect` before the last refresh.
`MaxAccepts` bounds the answers accepted.

### Demonware and datagrams

A hook is as many steps as it has critical sections: `Send` finds the server under `server_mutex`,
`SendPush` uses it after the release; `Recv` finds it, `RecvMode` reads the mode, `RecvPoll` looks
whether there are bytes without the lock, `RecvTake` takes them under the server's `mutex_`. The
thread's loop is tested, locked, one frame per server, unlocked, woken. `pre_destroy` takes
`server_mutex` and keeps it while it joins. `terminate = false` at the thread's start is a step,
too. A packet is the sequence of the kinds of its messages, since `parse_packet` answers some,
leaves some without an answer and stops at others; a byte of a reply is known by packet, message and
place, so that lost, doubled and mixed bytes are visible.

`Datagrams` has the other half. `RecvFrom` finds the queue and the mode under the mutex, `RecvWait`
polls without it, `RecvLocked` takes. The queue a call found is known by the life of the socket; if
`close_socket` or `pre_destroy` has erased it meanwhile, the call goes on with what is no longer
there, and may see anything (`Dangling`). A `sendto` whose socket is closed before the server
answers has its answer put into the queue of the next socket of that number. A datagram that is too
short for its type leaves the type uninitialized: any type is read (`TypeRead`).

### Services and codecs

`Codecs` writes objects field by field into a buffer of bytes, each told apart by its field, with
type bytes, lengths, array headers and the frame of a reply, and reads them as the game does, object
by object; a field order, a width or a type that differs on the two sides shows. `BitBuffer` does
the same with real bytes, bit by bit across byte boundaries, for the services that speak it. The
ciphers of the messages are left out. `Services` has one action per request of every service:
`bdStorage`'s two namings of user files (by hash and by name, in one folder), publisher files from
the disk, the executable and the web, groups, matchmaking and the ones with constant answers.

### Dedicated, maps, players

A command is a number, in the order given. `callback` follows the callback of `on_game_initialized`
from its polling over the second's delay to its call. The commands of the command line come before
the first frame, console commands after. The online data flags and the state of the fastfiles
change at any time.

`MapRotation` keeps both rotations as sequences of words; `trigger_map_rotation`, the command and
`perform_map_rotation` put off are counted, and `last` is what was launched. `sv_randomMapRotation` may be
switched at any time (`SetRandom`). `randomize` shuffles the entries that are kept, so `order` remembers
what the last random rotation made of them. `Turn` is the reference: the map and the game types that
are next, read off the words alone, or off `order` if there is one. A command in the buffer that
launches a map is known by the map's name, so that no map may be called `map_rotate`.

`Commands` follows what a client sends from `client_command_stub` over the chat of notifies to the
handlers of `command.cpp` and to the game, with the tasks put off to the server's frame. A notify
reads the name of the command and the player in the slot when its task runs; `speaker` remembers the
ones the message came with, and whether another command or a departure came between. `Bots`
has the server pipeline's tasks as a set of those pending, in any order; each knows a slot, whose
occupant changes. `Stats` is the buffer as a function from paths to values, what is on disk, and
the flag that a write is needed; closes and crashes come at any time. `stat_given` is kept by what is
said at the console and not by the buffer: for each question of a get command the value that a set command was
given last or that `unlockstats` says, and whether it is unsaved, to be written, or written.

### Files and hooks

`Files` is in four parts, the file itself (`PathNext`), the game's own file system (`DirectoryNext`),
textures and strings (`ShownNext`), bindings (`BindNext`). Startup registers one path after the
other, and a restart executes one line of the config after the other: both are functions of the number
of turns done. `config` is the command in the line of each key, and a key without a line has none.

`Hooks` lists for every component and mode the spans it patches, with the kind of patch, which
gives its length, the addresses its assembled stubs jump back to, and the names it enters in the
tables of commands, packets, strings and dvars. Components are unpacked in any order. `Signature` parses the
texts of patterns and searches images of a few bytes, serially or by threads that end in any order,
by bytes or by vectors.

### Lua and the script machines

In `Lua`, `stack` holds the walks under way, the innermost last: a frame of tasks or a dispatch, with
its context and its place. A callback adds entries, ends and removes them, and notifies, which starts
a walk within the walk. An inner walk that changes the vector of the outer one leaves the outer
iterator invalid (`disturbed`); the model goes on with the index as long as it is in the vector and
stops otherwise (`undefined`). `Skip`, `Call`, `Discard` and `Return` are the branches of the loops.

`LuaValues` has the conversions as operators (`to_script`, `to_lua`), arrays with the addresses of
their elements remembered, and the functions that are running on both sides with the hooks between
them. A damage is on its way through the callbacks in steps of one callback each; a callback
that damages again has a hit of its own, and one that adds a callback while the list is walked is left
out. The machine's integers are `2 * IntLimit` wide, so that what a conversion cuts off shows. `ScriptVM` has the reference counts of the machine's objects, the parameters of the calls
under way, what a failure unwinds; `events` counts the references that `notify` takes to the string of its
event and nobody releases (`MaxEvents` of each). `Gsc` has the life of a level: scripts are loaded, run, kept or freed,
and with them handles, tables and hooks. `UiScripting` has the variables that own references in the
registry of the menus' machine, and the scripts that require each other.

### Process, consoles, Steam

`Process` is `main` step by step over the phases of `component_loader`, with a component that asks for
a premature shutdown, the mode from the arguments or the launcher, crashes and what is recovered
from. `Console` has a message's way from any thread to the window or to an rcon client, the pipe of
stdout, and the two threads through start and end. The pipe holds `PipeSize` pieces; a flush, of the
console's thread or of `pre_destroy` (`FlushAll`), puts in piece by piece (`FlushPiece`), holds stdio's lock
and waits while the pipe is full. `GameConsole` splits the renderer's frame at the
reads of the line that the main thread edits without a lock; `seen` is the last text that a frame read
since the line was cleared, and `overrun` says that a character went into the middle of a full line, with
which a behaviour ends. `ConsoleOutput` has the lines and the
scrolling. `Steam` has the recursive mutex, the list of results and its index. A method takes the mutex twice, to
take a handle (`register_call`) and to queue the result (`return_call`), and another thread may come
between; a handler that makes a call itself changes the list that is walked (`overtaken`).

## Runs

| Run | Question | Bounds |
|---|---|---|
| `scheduler_safety` | does the scheduler lose, double or reorder tasks, and does it implement `DeferredCalls`? | two pipelines (async and main; renderer and server are driven like main), three tasks out of five kinds of calls, delays 0 and 1, one tick of preemption |
| `scheduler_liveness` | does every task run, every callback come, the shutdown end? | three tasks, loops without delay among them |
| `browser` | is every connection an answer to the newest call, made once? | two servers, two `connect`s, two answers accepted |
| `server_list` | is the list right in spite of the network, and does the queue drain? | three servers, two questions a frame, a time-out of two ticks, a page of one line |
| `demonware` | do requests and answers arrive, do calls and the shutdown return? | one server, two sockets, two packets of up to four messages, replies of two bytes, reads of up to two |
| `dedicated_console` | does the console wait for the initialization, as a comment says? (it does not) | two commands |
| `dedicated_hooks` | is the fix of Arxan's error in force on a dedicated server, as a comment says? (not in every order) | all components; two of them unpacked |
| `lua` | are entries kept until they are done, never called when ended, and called at all? | two scripts, two events, two entries, a walk within a walk |
| `process` | is each component destroyed once; do lines and results arrive; does the console stay in bounds? | three components; a buffer of five characters, two names with one shown, one line of history; two calling threads, three calls |
| `console` | are early commands executed, once and in order; do messages arrive once and in order, and do the console's threads end? | four commands; two printing threads, one of two messages and one of one; two pieces written to a pipe of one |
| `scripting` | do counts, tables and scripts stay right; do Lua and scripts reach each other? | two objects, two calls, one argument, one notify of each event; two files with two functions; two variables; two hooked functions, two Lua functions, two damage callbacks, integers of three bits for those of 32 |
| `server` | do hooks stay in place, messages read back, files and names get served, maps rotate, players and datagrams get what is theirs? | all components in all modes, two unpacked in every order; two objects of every data type; two files, two contents; three search paths; two rotations; two slots, two players; two bots; two sockets, two threads, two datagrams |

What the properties say. `QueueIntegrity`, `OnceAtMostOnce`, `NothingLost`, `ImmediateInOrder`,
`QuietAfterJoin` relate the vectors of the scheduler to the calls made, and `ImplementsPromise` is the
refinement; `EveryTaskRuns`, `CallbackRunsOnceReady`, `JoinReturns` are their liveness.
`JoinsAsAsked` ties each connection to the newest `connect` at the time its answer was accepted; `OncePerRefresh`, `DrawnRight`
and `QueueDrains` are the list's. `AnswersInOrder`, `SoleReaderFindsBytes`, `QuietWhenDestroyed`,
`RequestsHandled`, `BlockingRecvReturns`, `JoinReturnsBetweenFrames` follow a request through
Demonware, `DatagramsInOrder` a datagram. `EarlyOnceInOrder` and `EarlyExecuted` are about early
commands. `KeptUntilDone`, `EndedNeverCalled`, `TasksRun` say what becomes of a Lua entry.
`DestroyedOnce`, `MessagesInOrder`, `ConsoleEnds`, `ExecutesTheLine`, `ConsoleInBounds`,
`AnsweredInOrder` belong to the process and its consoles, `CountsMatchHolders`, `ScriptsKept`,
`LuaBridged` to the machines, and `HooksPlaced`, `ReadsBack`, `FilesServed`, `RotationInOrder`,
`PlayersServed` to what the game is given. Every one of them is stated in words above its definition.

Why the bounds are enough. Three tasks on a pipeline make every situation of a merge and an erase:
a task before the iterator, at it, and behind it or still new; a fourth repeats one of them, and
the theorems hold for any number. Three servers exceed the question limit and the page by one,
give a sort something in the middle, and leave one to be stale while two cross. Two sockets are
the least that race for a server's bytes or a queue's datagrams, and with a reply longer than some
reads and a packet of two answers every boundary between reads, replies and packets occurs. Two Lua
entries and two contexts are an entry that calls and one that is changed by it, in the same vector or another; a
third walk nests no differently from the second. Two objects and two nested calls share and hand over
references in every way. Two components unpacked in every order are enough for what one can undo of
another, since a patch conflicts with one other patch. Pattern texts of up to four characters and
images of six bytes put a match at the seam of two parts, at the end and nowhere. Two slots with two
occupants are a task's bot gone, replaced, or another's. Counters are bounded by constants with names that begin with
`Max`, each a guard or a saturation; bounds of data are marked BOUND where they are declared. No symmetry is used: the sets are
small, and in the liveness runs it would not be sound.

Deadlock is checked in the scheduler's and the browser's runs and in `dedicated_console`. It is not checked in
`demonware`, where the process really may stop, after `pre_destroy` and also in the deadlock
described below; nor in `dedicated_hooks`, which ends when all are unpacked; nor in `lua`, `process`,
`console`, `scripting` and `server`, where behaviours end with the process, with an undefined step, or when
everything has been answered.

Fairness. The scheduler's liveness assumes that frames keep coming, handlers return, the operating
system runs the async thread and the clock advances (weak fairness of each); nobody has to add a
task. The browser's assumes frames and clock, nothing of the network or the player. Demonware's
assumes that its threads are scheduled and strong fairness of `ThreadLock`: a waiting thread gets a
mutex that is free again and again. The code holds it for microseconds and sleeps 50 ms between,
so this asks nothing of the mutex that a run of the program would not give. The game is not
assumed to call anything. `Dedicated` assumes that frames go on; the premise of `EarlyExecuted` is
that the game becomes ready for good. `Lua` assumes that the clock goes on, that loops make their
next step, and strongly that frames run, that callbacks return and that a script comes to the end of its loading:
callbacks may notify again and again, but each walk is a call that returns before the frame does. `Console` assumes that its
two threads are not suspended and that a process that has begun to end goes on.

## What the runs found

- `ConsoleWaitsForInitialization` is violated. dedicated.cpp:298 says of the hook "delay console
  commands until the initialization is done"; the code (line 165) tests the online data flags.
  They clear before the callback of `on_game_initialized` runs, which also waits for the fastfiles
  and a second more, so a console command can run before `initialize()` and before commands
  given earlier that still wait in the queue.
- `ArxanErrorFixKept` is violated. dedicated.cpp:276 patches a call of the server's frame as "Arxan
  error fix", scheduler.cpp:181 patches the same call for its server pipeline. The order of the two is
  that of the initialization of two translation units, which nothing fixes; whichever is first is overwritten.

Behaviours that no text of the repository forbids, which the modules have and the properties are
stated around:

- `pre_destroy` (demonware.cpp:450) joins the thread with `server_mutex` held, and the thread waits
  for that mutex if it has tested `terminate` already (line 196 to 198), or resets `terminate` when
  it starts (line 195). `JoinReturnsBetweenFrames` says from where the shutdown does succeed.
- Commands queued when the online data flags are set again after the initialization stay queued
  (dedicated.cpp:171). A connection put off (party.cpp:49) is not cancelled by a later `connect`.
- Neither an accepted answer nor a disconnect resets `connect_state` (party.cpp:65, 433): a second copy of the
  answer connects again, also after the player has left.
- A Lua callback that notifies changes the vector the outer dispatch walks (event_handler.cpp:52);
  a handler of a Steam call that makes a call changes the list of results (steam.cpp:78). Two threads
  can queue the results of their Steam calls in another order than that of the handles (steam.cpp:13, 59).
- `notify` takes a reference to the string of its event that nobody releases (execution.cpp:70).
- A chat message is notified with the name of the command that is tokenized when the task runs, and of
  whoever is in the slot then (notifies.cpp:186).
- Random map rotations shuffle the list that is kept (map_rotation.cpp:213); it stays so when
  `sv_randomMapRotation` is reset.
- `pre_destroy` of the console never returns if the reader has ended and more is flushed than the pipe still
  takes, by it (console.cpp:96) or by the console's thread, which it joins (console.cpp:200).
- A datagram sent just before its socket is closed is answered to the next socket of that number
  (demonware.cpp:239, 407).
- `disable` and `enable` of a detour use references to locals that are gone (context.cpp:351); a
  table of an array can outlive its elements (value_conversion.cpp:19), and a field given an object there
  takes no reference of its own.
- A `script_value` of the menus moved onto another that owned a reference leaves that behind
  (ui_scripting/script_value.cpp:36).
- A line of the game console erased letter by letter executes, on ENTER, what the renderer last saw of it
  (game_console.cpp:202, 617). Text inserted into the middle of a full line goes past the buffer
  (game_console.cpp:486), and behaviours end with it; a full output lets the window slip by one line, and a clear resets the offset before it has the
  lock.
- A search for a pattern never looks at the last positions of the image (signature.cpp:145); the
  hundredth bound command of the game's takes the number of the client's first (binding.cpp:81);
  `setReservedPlayerDataInt` does not ask for a write (stats.cpp:335), and what it sets is lost at the next
  start unless something else asks for one.

## Proofs

Every module with theorems extends the modules it is about, so that a theorem names the very
definitions the runs check. The theorems hold for all constants that satisfy the named assumptions of
the modules; these ask for what the types of the code give (natural bounds, disjoint or non-empty
sets), and TLC evaluates them in the runs. Specifications that a run only has as one alternative
among several are named in the proofs (`SteamSpec`, `ConsoleSpec`, `GcSpec`, `DatagramsSpec`,
`ProcessSpec`, `ScriptSpec`) or in the modules (`DedicatedSpec`, `RotationSpec`, `BotsSpec`, `StatsSpec`):
the module's own Init and Next. Theorems about a property that several modules share are of the whole
instance's `Spec`.

| Module | Theorem | States |
|---|---|---|
| `SchedulerProofs` | `TypeCorrect`, `QueuesIntact`, `OnceMeansOnce`, `NoTaskLost`, `ImmediateTasksInOrder`, `NoAsyncAfterJoin` | the invariants of `scheduler_safety` |
| | `Refinement` | `Spec => ImplementsPromise`: the scheduler implements `DeferredCalls` |
| `BrowserProofs` | `JoinedAsAsked` | `JoinsAsAsked` |
| | `ListedAndAskedOnce`, `LinesDrawnRight` | `OncePerRefresh`, `DrawnRight` |
| `DemonwareProofs` | `DemonwareTypes`, `ServiceAnswers`, `QuietForEver`, `SoleReaders` | `TypeOK`, `AnswersInOrder`, `QuietWhenDestroyed`, `SoleReaderFindsBytes` |
| | `DatagramAnswers` | `DatagramsInOrder` |
| `LuaProofs` | `EntriesKept`, `NeverCalledAgain` | `KeptUntilDone`, `EndedNeverCalled` |
| `ScriptProofs` | `ScriptTypes`, `CountsAreHolders` | `ScriptTypeOK`, `CountsMatchHolders` |
| | `LuaStaysBridged` | `LuaBridged` |
| | `ScriptsStayKept` | `ScriptsKept` |
| `ProcessProofs` | `ProcessTypes`, `ComponentsDestroyedOnce` | `ProcessTypeOK`, `DestroyedOnce` |
| | `EarlyCommands` | `EarlyOnceInOrder` |
| | `SteamAnswers`, `ConsoleMessages`, `LineExecuted`, `ConsoleBounded` | `AnsweredInOrder`, `MessagesInOrder`, `ExecutesTheLine`, `ConsoleInBounds` |
| `ServerProofs` | `RotationsInOrder` | `RotationInOrder` |
| | `BotsLookedAfter`, `StatsKept`, `MessagesKept`, `PlayersAreServed` | `BotsTended`, `StatsStick`, `MessagesNotifiedOnce`, and `PlayersServed`, which is the three |
| | `HooksStay` | `PlacesApart => (Spec => []HooksPlaced)` |
| | `FilesAreServed` | `FilesServed` |

`SequenceLemmas` has what all of them need: `AppendElements`, `ConcatElements`, `RemoveElements`,
the head of a queue, the same for sequences without repetitions (`Distinct`), and how often an
element stands in a sequence (`OccurrencesAppend`, `OccurrencesConcat`). Some of its facts go
further: `LeastNatural`, a set of numbers with an element has a least one, from the well-foundedness
of the numbers; and with it, by a least counterexample in place of an induction, what the joined
replies of a list of messages are (the lemmas about flattening), what a step function makes of a value
in any number of turns (`UpTo`, `IterationExists`, `IterationTyped`), and where an element that stands
once is found (`FirstPlace`). A sequence turned round is one that is built from the other end
(`FrontOfReverse`, `RemoveFromReverse`).

The invariants are not inductive one by one; what each proof adds is the reason why the property holds.

*Scheduler.* `OnceAtMostOnce` does not say where the iterator may be, and `ImmediateInOrder` speaks
only of the moments in which a handler runs. `IInv` adds `CursorInv`, a handler that runs is the one
the iterator points at and counts as called; `Visited`, the tasks before the iterator have been
called if they did not have to wait; and `ThreadInv`, a pass on the async pipeline exists only while
the thread executes, and after the join the thread has ended or never was. Ascending identities
carry the argument: add appends the largest, merge joins two ascending vectors the first of which
lies below the second, erase keeps the order. The refinement shows for each action what it does to
`Status`: a schedule starts a call, `CallHandler` makes a pending one run, `Continue` returns it,
`End` finishes it, the end of an `on_game_initialized` finishes one call and starts another, merges
and moves of the iterator stutter.

*Browser.* `PartyInv`: challenges are numbers given one after another, and as long as a host is remembered,
it and the challenge are those of the newest call, which no refresh has followed; when none is, the
challenge is 0, which no question ever carries (`QuestionsTyped`). `CountInv`: for each host, its
connections made and put off are together as many as its entries in `accepted`. `ListInv`: beside `ListedOnce` and `AskedOnce`, while the master's answer is
awaited nothing is listed, queued or asked (`FreshWhileRequesting`), so that its late or doubled
answers queue only what was never asked. `DrawnRight` needs that `sort_serverlist` sorts:
`Sorting` shows that the stable ranks are a permutation (an injection of a finite set into itself is
onto) and that lines follow each other by players, then ping, then age, a total order (`AheadTotal`).

*Demonware.* `AnswersInOrder` is inductive once the types of packets, queues and calls under way are
known: a frame takes the head of the queue and appends the replies of its messages, a read moves a
prefix. `QuietWhenDestroyed` needs that nothing is registered once `pre_destroy` is done.
`SoleReaderFindsBytes` needs `ReadersKnown`, a socket that reads is among the readers of its server, and
then only that socket takes bytes between its look and its lock. `DatagramsInOrder` says that what was
answered is what was popped followed by what is queued; it needs that a queue that is gone has left
nothing (`QueuesGone`).

*Dedicated.* `DedicatedInv`: until the initialization the two queues, one after the other, hold just the
early commands, in rising numbers, and the console's is empty while the process boots
(`EarlyWaits`); afterwards all early ones have been executed (`EarlyDone`). Numbers are given in turn
(`NumbersGiven`), nothing that waits has been executed, and what the initialization joins to
`executed` is in order there (`JoinRising`).

*Map rotation.* `Kept` says where the index stands: behind the map that was launched last
(`Position`), in the entries as they stand: those that were loaded, or what the last random rotation
shuffled them into (`Standing`). From there the next
map stands behind with none between (`Onward`), or is the first, and none stands behind (`Around`); in
either case its number is the next one (`NextNumber`), and the last game type on the way is the last
one that its turn names (`GametypeOfTurn`). `Rotations` counts: what was asked for waits in a task, was
put off, or is a command of the buffer. The theorem assumes of the words only that none is
`map_rotate`.

*Bots.* `Tended` is what holds of a slot: who is to be spawned has a task that spawns, a bot that is
there one that looks after it, and together these tasks are at most as many as bots have left the slot,
and one more while a bot is in it. Without the last part nothing would bound the tasks when the next bot
comes, and without `client[n].kind = "bot" \/ left[n] > 0` for a slot with tasks, somebody could be
commanded where no bot has ever been. The theorem assumes that there are finitely many slots.

*Messages.* `MessagesInv` counts: as many lines have been said as have been notified and as wait in tasks
of the server's frame, and the n-th task that notifies is for the line that stands n places behind those
notified (`Nth`). That the game is shown the lines that do not begin with a slash, and these in their order,
is the same relation between the places of two sequences (`SameInOrder`). `SpeakersInv` says of a
message that still waits what the property says of one notified: the name is that of the command
tokenized last, and the player is in the slot, as far as `speaker` has no other command and no departure.

*Statistics.* `StickInv` adds to `StatsStick` that what has an answer is a question, a reserved name or a
path. Then two questions are never of the same place, and each is of the place that its set command
writes (`PlacesAsked`), so a command for one leaves the answers to the others as they were.

*Lua.* Tasks and listeners are kept in the same way, in a vector that is walked and one of new
entries; `Kept` and `Settled` say what holds of such a pair and the walks through it, and are used
for both. `Kept`: an entry stands in one place, and only in vectors of its kind. `Settled`: while a
callback runs, its walk's index points at the entry that was called; an entry that was to be called once
and has been is the one of a callback under way; one that is not held any more has been ended, or
called if once was enough. For tasks this always holds, since a frame is never a walk within a walk
(`Stacked`). For listeners it holds until a dispatch within a dispatch has moved or erased in the vector
of an outer one, which is what `disturbed` records. `EndedNeverCalled` follows from `Marked`: what was
ended is marked before anything else runs, and only `Call` starts a callback (`OnlyCallStarts`).

*Calls of the script machine.* The holders of an object are counted as sets of places on stacks, so
that the lemmas can say what a push, a reversal, a join and a cut do to their cardinality
(`TimesAppend`, `TimesReverse`, `TimesConcat`, `TimesCut`) and what a call that begins or ends does to
that of the stacks that wait (`WaitingPush`). `ScriptInv`: beside the counts, a result stands alone on
the stack of its call, and only a call that may have one has one (`Alone`, of every stack in `Shape`).
Without that a call could end with parameters on its stack that nobody releases: `Leave` clears the
out parameters only. `EndStep` is the end of a call with or without result, and of one that failed.

*Lua values.* A value made of a Lua function is a number that no code has and no hook. `HookInv` says why
there is one: such numbers are those in use among the first ones (`Numbered`), fewer than the
lowest position of code (`HooksCounted`), so that a hook passed over by an invoke is told from them as
well. The damage a hit does is the number given last by the callbacks called so far, or what it came
with (`LastGiven`). A field of an array stands in one child variable, with what was written last, as long
as no table has outlived its elements (`ArrayInv`).

*Gsc.* `GscInv` says that every table is that of some code its file was compiled to (`Tabled`). Files are
`Width` positions apart and the functions of one `Length`, so that a position is in one function of one file
and `find_function` has one answer; the sorted table gives the names of the functions themselves.

*Menus.* `RootInv` ties a script that is being required to the folder of the script that asks. `HandleInv` is
about references of the registry: each taken one is owned by one variable (`Rooted`). There are more
references than variables, so a free one is found by counting (`FreeReference`), and what is given back was
nobody else's (`GiveKeeps`, `TakeKeeps`, `MoveKeeps`).

*Process.* The order of a component's hooks rests on three facts in `LifeInv`: what a listed component
was called with is among the functions that are handled; where the main thread is bounds what can be
handled; and in a loop over the components those at and behind the iterator have not been called.
`Cleaning` and `Forgotten` do the same for the loop that drops the unsupported ones, `AllDestroyed` for
the moment at which the loop over `pre_destroy` is through without an interruption.

*Client.* `SteamInv`: `answered` gives each result its place among all. As long as no handler makes a call
itself, these places rise in `results_` (`ResultsRising`), those still to be handed out lie above those
delivered (`DeliveredRising`), those of one thread's calls rise with its handles (`CallsInOrder`), a handle
belongs to one caller (`HandlesGiven`), and every call has been delivered, has gone without a handler, or waits
(`CallsSettled`). `MessagesInv`: of each thread, the messages in the window, the queue and what was sent
are those it has printed but for the one it is dispatching (`ArrivedOnce`, `Dispatching`), once each and
in order; the pieces in the pipe lie above those read (`PiecesRise`); the copy of the queue exists only
while it is logged (`CopyInLog`). `LineInv` ties what the renderer has read in the frame under way (`FrameInv`) to the line, and
`fixed_input` to the last text that a frame has read (`SeenInv`).

*Game console.* `OutputInv`: the lines kept follow each other in the order of their prints, and the window
begins at the front until it is full, then at most one place past the last that fills it
(`WindowFollows`); a clear goes on from the front. `EditInv`: the cursor is within a text that
has room for its end, and the line recalled is one of the history or none, until an overrun. The frames in which a resize or a tear
lets the window slip are left out by `resized` and `torn`, as in the property.

*Hooks.* That no two components take over the same of the game's code is `PlacesApart`, a formula about the table
alone, which TLC evaluates in the run `server`. The theorem goes from pairs to all: whatever number of
components is unpacked, in whatever order and mode, what each has written and entered is still there
(`HooksInv`).

*Services.* `OnDiskInv`: a name under a naming has a path of its own (`PathOf`), which has a file just if
something was written, and then what was written last. `MotdInv`: the text is the web's only if the web has
answered, and it is given only after the answer or the failure.

*Files.* `PathInv`: the paths searched are the registrations turned round, none twice (`FrontPaths`);
`PushFront` keeps that, hence startup does whenever it happens, and with it the first path that has the file
is the one registered last of those that have it (`LastRegisteredRead`). `BindInv`: the number of a key leads to the
command the key was bound to (`Reaches`), and binding another only adds numbers behind those given. A restart
gives new numbers: that each line executed leaves the keys before it with their commands is followed line by line
(`ReboundKeeps`, `RestartKeeps`). The theorem has the exception the property has: the
hundredth command of the game's.

### Only model-checked

- Liveness (`EveryTaskRuns`, `CallbackRunsOnceReady`, `JoinReturns`, `QueueDrains`, `RequestsHandled`,
  `BlockingRecvReturns`, `JoinReturnsBetweenFrames`, `EarlyExecuted`, `TasksRun`, `ConsoleEnds`): it
  rests on fairness and ENABLED, which the prover does not handle.
- `ReadsBack` (the search for patterns, the command line, whole messages and single bits): each side of it is
  a fold over the characters, fields or bits of what is read, and that the two sides agree for every input is
  an induction over data, which the installed provers cannot do; `SelectSeq` is opaque to them besides.
- `PlacesApart`, the premise of `HooksStay`: a table of constants without parameters, which TLC
  evaluates in full for all components and modes.

## Not modelled

- The game itself: external actions stand for its frames, flags, clients, machines and calls.
- The image loader (a file format, once), what patched code of the game does (limits, drawing,
  colours, audio, input, weapons), texts and layout, the launcher's HTML, rich presence, the updater,
  crash dumps, the runner: I/O or single assignments.
- Cryptography, compression, the compiler of scripts and the Lua library: libraries.
- The declarations of the game's structures and symbols (`game/structs.hpp`, `symbols.hpp`), which
  are a sixth of the source: they have no behaviour.
- `start_map`, heartbeats and the title of the dedicated server; the getInfo answer of a server;
  the words of the rcon command. They read state of the game and send or print it.

`PROJECT.json` says for every component what is left out of it.

## Plan

1. Done: the modules above, with all components that decide anything over time.
2. Done: the theorems of the table above.
3. Done: every invariant a run checks is a theorem, but for `ReadsBack`.
4. What is left: `ReadsBack` for messages of any length, if a prover with induction is at hand; the
   components listed as partly modelled in `PROJECT.json`, as far as they decide more than they do now.
