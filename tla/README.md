# TLA+ models of MCX

MCX is a C++ server core for Minecraft-like games: events come in (players join,
leave, chat), a script runtime and loaded modules answer each with actions, and
an applier carries the actions out. Around the core the repository has thread
pools, network listeners, managers for bans, money, kits and teleports, and
three launchers. This directory holds TLA+ models of that code, the TLC
configurations that check them, and proofs checked by TLAPS.

Paths below are those of the repository (`src/core/...`, `include/mcx/...`).

## 1. Inventory

### Components with a model

| Component | State it keeps | Operations | Interacts with | Hard behaviour | What makes it correct |
|---|---|---|---|---|---|
| `ThreadScheduler` | priority queue `tasks_`, `running_`, the worker thread | `Schedule`, `Stop`, the worker loop | any thread schedules; tasks run on the worker | the condition variable, a Stop that takes no mutex, a worker started before `running_` exists | due order, at most once, no oversleeping, Stop is a barrier and returns |
| Frame loop (`Server::Run`, `MainLoop`, `Scheduler`, signal handler) | vector `tasks_`, `running_`, `g_shutdownRequested` | `Schedule`, `Update`, `Clear`, `Run`, `Stop`, a signal | tasks re-enter `Schedule` and `Clear` in the middle of a scan | erase and push_back under an iterator, tasks that throw, stop flags set at any point | a frame runs what is due, once; nothing is lost; stop and signal end the loop |
| Destruction of `Server` | its members in declaration order | the default destructor | the `ThreadScheduler` worker keeps running tasks until its own destructor | a task that reaches a member already destroyed | members outlive the tasks that use them |
| Event pipeline (`HandleEvent`, `PlayerRegistry`, `SceneManager`, `Metrics`, hardcoded runtime, `ActionApplier`) | registered players, current scene, unsigned counters | one event, then the application of its actions | runtime and modules may change the action list | repeated joins, unmatched quits, wrap-around, stale scene | the counters and the registry agree |
| `ModuleLoader` | `modules_`, the handles behind it | `LoadModule`, `UnloadModule`, `UnloadAll`, `DispatchEvent` | module code is called back and may throw | loading works outside the mutex; exceptions in the middle of a loop; one object loaded twice | no call into unmapped code, every handle accounted for |
| `AsyncWorker` | `tasks_`, `workers_`, `running_`, `activeThreads_` | `Start`, `Stop`, `Submit`, the worker loop | any thread submits | restarts, exceptions, the bound of Start's loop | each work runs once, its callback after it; threads bounded; Stop returns |
| `ChatFilter` | timestamps per player | `IsSpam` | the caller's clock | the boundary of the window, refused messages | the rate limit, and an end to it |
| `EventBus` | a vector of handlers per event type | `Subscribe`, `Publish`, `Clear` | handlers call the bus again | the vector grows or goes away under the iteration | the handlers a type had are called, once, in order |
| `HttpClient` | request queue, `running_`, the worker | `Start`, `Stop`, `Get`, `Post`, the worker | callbacks run on the worker and may ask again | a Stop without the mutex, what it leaves queued, exceptions that end the process | one answer per call, in order, none after Stop |
| `UpdateChecker` | an HTTP client for the length of a call | `CheckForUpdates`, `DownloadUpdate`, `IsVersionNewer` | `HttpClient`; the callback captures the caller's variables | a sleep of two seconds that nothing relates to the answer | no callback after the return; the comparison is an order |
| `WebSocketServer` | `serverFd_`, `clients_`, the accept thread | `Start`, `Stop`, the accept loop with handshake and frames | callbacks per client; the descriptors of the process | descriptor numbers used again, silent clients | connects and disconnects pair up, nothing leaks |
| `RconServer`, `RconClient` | a socket, `connected_`, the request id | `Connect`, `Authenticate`, `SendCommand`, `Disconnect`; the server's loop | each other, or another program's server | cut and missing replies, leaked sockets | replies and requests stay in step |
| `NetworkBridge`, `PaperBridge` | `connected_`, a send queue; a listening thread | `Start`, `Stop`, `Send`, the loops | a peer on a local port; callbacks on the thread | Stop against Connect and between two reads of flags; `socket`, `bind`, `listen`, `accept` that fail; callbacks that throw | what the flags claim; sockets that are never closed; each client has one fate |
| `ConfigWatcher` | an inotify watch on an inode | `Start`, `Stop`, the loop | editors that rewrite or replace the file | a watch that dies with its inode, or stays on one kept under another name | the configuration in use becomes the file's |
| `BackupManager` | a directory of backups | `BackupNow` by loop and caller, `RestoreBackup`, retention | two threads and the disk, no lock | names of one second's resolution, a clock that is set, a failing copy | a reported backup is there; a whole one remains |
| Codecs (`Protocol`, `PacketSerializer`, RCON packets, WebSocket frames) | none | encode, decode, put, get | the network | 16-bit lengths, signed bytes, packets in pieces | decode inverts encode exactly when all has arrived |
| `launcher-rs` | release directories, `state.json` | `download`, `install`, `launch` | the release server, the disk | a failure or interruption at every step | the recorded release can be launched |
| Qt launcher | a `QProcess`, the running flag, timers | start, stop, restart, check for updates, close | the server's process, message boxes that run the event loop | timers and signals that arrive in any order | no server outlives the window; the widgets show the state |
| ImGui launcher | detached threads, the update's fields, the configuration | start, stop, restart, check, save, load | its own threads | threads of an earlier start, fields guarded by a flag | the answer is not read while it is written (the progress is); threads end |
| `main()`, setup wizard | the answers, the server's settings | the options, the questions | standard input, which may end | end of input at every question | consent before anything is written or started |
| `Console`, `CommandRegistry::Execute` | `running_`, the thread | `Start`, `Stop`, the loop | commands that stop the console | a read that nothing interrupts, the end of input | lines handled once, in order, none after Stop |
| `EconomyManager`, `TeleportManager`, `KitManager`, `BanManager` | maps by player | accounts and transfers; requests; kits and cooldowns; bans | clocks | overflow, requests that replace others, clocks that are set | money is conserved, answers go to the last request, cooldowns and bans end when they should |

### Components without a model

Entity, world, stats and permission maps: accessors of one step, used by one
thread, with no relation between them that a step could break. The Lua runtime:
it is built only with Lua, and its `HandleEvent` discards what the script
returns. The configuration loader and validator: nothing calls them. Logging,
the demo's fake events, the stub of the minecraft bridge, the vendored JSON
library and the prebuilt binaries.

## 2. Plan

The modules were written in this order, the parts the whole server depends on
first: the two schedulers with their proofs, the destruction of the server on
top of the first, the module loader, the event pipeline, the worker pool, the
chat filter; then the HTTP client and the update checker above it, `launcher-rs`,
the listeners and bridges, the codecs, backups and the config watcher, the
managers, the event bus, the launchers with windows, the console and the entry
point.

Each component has a module of its own. Two compositions matter and are modelled
as such: `ServerShutdown` EXTENDS `ThreadScheduler`, and `UpdateCheck` EXTENDS
`HttpClient`. The abstract specifications are `DelayedTasks` and `RequestQueue`.
Components that share nothing are checked side by side, see section 4.

Every safety property that a run checks is now a theorem, the refinements of
`DelayedTasks` and `RequestQueue` among them. What the plan has left: larger
instances of `MCNetwork`, whose parts are at the least size at which their
interesting cases happen, and the bounds of histories (events, requests, packets)
that some modules still carry as constants where the code has none.

## 3. The modules

**`DelayedTasks`** is what `ThreadScheduler` promises, without its thread: a task
submitted once begins at most once, when it is due, while no earlier one is
pending and no other runs, and not after Stop has returned.

**`ThreadScheduler`** (`src/core/thread_scheduler.cpp`). One action per critical
section. The worker's section is cut where it matters: after it has decided to
sleep (`idleBlock`, `timedBlock`) and before it sleeps, because `Stop` touches
neither the mutex nor waits for it. `WorkerFindsEmpty` evaluates the predicate of
`cv_.wait`, `Notified` is what a notify does to a sleeping worker, and
`SpuriousWakeup` lets any wait return. `Init` leaves `running` open, since the
thread starts before `running_` is initialised. `TaskStops` is a task that calls
`Stop`, whose self-join throws. Due times are ticks; the argument of `wait_until`
is read once, when the wait begins, and its result is ignored as in the code.

**`FrameLoop`** (`src/core/server.cpp`, `scheduler.cpp`, `signal_handler.cpp`).
`tasks` is the vector in order and `it` the iterator as an index. `Schedule` and
`Clear` are enabled outside `Run` and inside a running task; `itValid` records
whether one of them invalidated the iterator, after which the model goes to
`undefined` and promises nothing. `TaskThrows` follows the exception past the
erase into `MainLoop`'s handler. `UpdateCalled` is an `Update` outside `Run`, as
`RunDemo` in `src/main.cpp` makes; `back` is where the main thread goes on when
the scan ends or a task throws. `Stop` and `Signal` fall anywhere, the signal
once `Run` has registered its handler. `LoadScripts`
and `LoadModules` are one step that returns or throws.

**`ServerShutdown`** EXTENDS `ThreadScheduler` and adds the destruction of the
members of `Server`, last declared first; the destructor of the thread scheduler
is its `Stop`. `Uses` says which members a task reaches.

**`ModuleLoader`** (`src/core/module_loader.cpp`). The shared mutex is read off
the threads' places. `LoadOpens` is everything up to a valid handle; the four
early returns are `LoadRejected`; an exception of the module is `LoadThrows`.
`UnloadAll` goes entry by entry, because an exception can leave it anywhere.
`refs` counts the open handles of each object as `dlopen` does, so an object
loaded twice unmaps with its second `dlclose`.

**`EventPipeline`** (`server.cpp` `HandleEvent` and what it calls). An action is
the scene it loads or `Shown`; modules may append to the list or empty it.
Counters are `% Word`. As in `RunDemo` the actions of an event are applied before
the next event.

**`AsyncWorker`** (`src/core/async_worker.cpp`). `size` and `capacity` are those
of `workers_`; `StartSpawns` is one turn of the loop, whose bound `capacity` it
doubles itself when the vector is full. `MaxThreads` is what the system grants.

**`ChatFilter`** (`src/core/chat_filter.cpp`). One player's timestamps, on a clock
finer than a second, with the truncation of `duration_cast`.

**`EventBus`** (`src/core/event_bus.cpp`). `publishing` is the stack of calls of
`Publish` in progress, each with the end of its vector as it was read; `capacity`
decides whether a `Subscribe` under them reallocates. From a dangling iterator
on the model is `undefined` and promises nothing.

**`RequestQueue`** is what `HttpClient` promises: calls answered in the order they
were made, one at a time, each at most once, none while the client is stopped.
**`HttpClient`** (`src/core/http_client.cpp`) implements it. The mutex is held
between two actions only at `block`, as in `ThreadScheduler`. `PerformReturns` has
the outcomes of `PerformRequest`; `PerformKills` is a port that `stoi` rejects and
`CallbackKills` a callback that throws: neither is caught on the worker. The peer
answers any of `Status`, or closes.

**`UpdateCheck`** (`src/core/update_checker.cpp`) EXTENDS it with the one request of
`CheckForUpdates` or `DownloadUpdate`, the sleep, Stop and return. **`Releases`** has
the comparison of versions and the choice of an asset of the C++ checker and of
`launcher-rs/src/github.rs`, side by side, and an operator who installs what one
or the other calls newer. A version is a count of leading letters v and a
sequence of parts, of which only the number in front and whether text follows
matter to either program.

**`WebSocketServer`** (`src/core/websocket_server.cpp`). Descriptors are the lowest
free numbers, given out by the system to this server or to any other part of
the process. `serverFd_` keeps its number after a close, which `stale` records;
`lost` are listeners that a failed Start on a running server forgot.

**`Rcon`** (`src/core/rcon.cpp`). A connection is a link that goes from pending to
accepted to gone. The client's peer is `RconServer`, which answers nothing, or
another server, which answers every packet, whole or cut. A reply that does not
come is a packet of zeros, as `RecvPacket` leaves its buffer.

**`NetworkBridge`**, **`PaperBridge`** (`src/integration/`). The loop of the bridge
reads `running_` and `connected_` one after the other, and Connect is split between
the `connect` call and the store of `connected_`; a Stop may fall in either gap
(`reopens` counts the first, `raced` the second). The loop of `PaperBridge` makes,
binds and listens on its socket on its thread, after `Start` has returned true; each
of the three may fail and end the thread (`SetUpFails`), a failing `accept` only
goes round, and a callback that throws, or that calls `Stop` and so joins its own
thread, ends the process (`CallbackKills`). What a silent or unreachable peer
makes of `socket`, `connect` and `send` is chosen freely.

**`Codecs`** (`protocol.cpp`, `packet_serializer.cpp`, `rcon.cpp`,
`websocket_server.cpp`). A payload is its length; the bytes of every length field
are computed, with their sign where a `char` is widened. One packet is encoded,
a part of the stream arrives, and that part is decoded.

**`ConfigWatcher`** (`src/core/config_watcher.cpp`). The file is an inode and a
version; a rewrite raises the version, a replacement changes both. The replaced
inode dies, which queues `IN_IGNORED`, or is kept (renamed away, a second link, an
open descriptor): then no event comes, as the mask has neither `IN_MOVE_SELF` nor
`IN_DELETE_SELF`, until it is gone too. A kept file may be changed under its
other name and may be put back (`Restore`). Making the watch may fail, and a callback
that throws ends the process. The kernel's queue holds at most one event of each
kind, as inotify merges equal neighbours.

**`BackupManager`** (`src/core/backup_manager.cpp`). Two actors, the loop and a
caller, go through copy, list, remove and report with no lock. A `remove_all` of
the cleanup may throw, which reports a whole backup as failed. A backup is named
by the second of a clock that may be set back.

**`Installer`** (`launcher-rs/src/main.rs`, `installer.rs`). The commands as
processes over one directory; each step may also fail or be the last before the
process is killed, and what is on disk stays.

**`QtLauncher`** (`src/launcher/mcx_launcher.cpp`). A slot is one action, but a
message box runs the event loop in the middle of a slot, where the timer of the
first update check may also fire. **`ImGuiLauncher`**
(`src/launcher_imgui/mcx_imgui_launcher.cpp`) has the window's thread, the detached
server threads of `StartServer` (which print two lines and then heartbeats) and the
thread of `CheckForUpdates`. The panel tests the flag of the check and then reads
either the progress, for the bar, or the answer, while that thread may write;
`owed` counts the lines a thread prints after a stop that it was not bound to. The
configuration goes through `SaveConfig` and `LoadConfig`.

**`EntryPoint`** (`src/main.cpp`, `setup_wizard.cpp`). A typed line is empty, yes, an
address, a number, or other; after the end of input `getline` leaves it empty,
and the answer read by `cin >> c` is uninitialised.

**`Console`** (`src/core/console.cpp`, `command_registry.cpp`). The thread is in
`reading` while `getline` blocks; a command may call `Stop` itself, whose self-join
throws.

**`Economy`**, **`TeleportManager`**, **`KitManager`**, **`BanManager`** (their files in
`src/core`): one action per call, on integers that wrap, a second that is cut
off, or a clock that an operator may set. Anybody may cancel at any time, with
nothing pending or with requests that were all replaced, and may ask to teleport
to themselves: the manager checks neither. What was promised in real time is
kept beside the code's state as history (`owed`, `given`, `newest`, `issued`).

Operators under a comment "Faulty variant" are not part of the models. They are
what a plausible slip in the code would turn the definition below them into, and
serve to show that each property notices one.

## 4. What the runs check

Each configuration is that of an MC module or, for a finding, of the component
itself. Where an MC module holds several components, `part` says which one a
behaviour is about: that component moves and the others stay as constructed, so
that each is explored by itself. The constants of the components are constants of the MC
module, so that what is proved of it holds for all of them; the .cfg gives the
bounds and the head of the module says why they are enough. Variables are renamed
in the `INSTANCE`, the assumptions on constants are assumed again, fairness is
stated for each part, and a property of the MC module is the conjunction of the
named properties of one component, which its module states and explains one by
one. Safety and liveness are kept apart: what is proved is safety, and the
liveness of all parts of a run is one property named `...Progress` or
`...Progresses`.

| Run | Bounds | States | Properties |
|---|---|---|---|
| `scheduler` | 3 tasks, delays 0 to 2, clock to 4 | 107 000 | `NoOversleep` (mutex and notify together), `EachTaskOnce`, `ImplementsContract` (every step is one `DelayedTasks` allows, so that tasks begin earliest first), `Progresses` |
| `frame_loop` | 3 tasks, one of which throws, delays 0 and 1, clock to 1 | 697 000 | `NothingLost`, `OnceAFrame`, `FrameServesDue`, `SignalIsFinal`, `RunProgresses`, with tasks that schedule, clear and throw during a scan |
| `shutdown` | 2 tasks, one using every member, clock to 2 | 9 700 | `TasksReachLiveMembers`, `NoThreadLeft` |
| `concurrency` | 2 threads, 2 objects, 3 loads; 3 tasks on 2 workers; 2 event types, 5 handlers, a Publish within a Publish | 44 000 | `ModulesStayMapped`, `DispatchesComplete`, `PoolKeepsTasks`, `WorkProgresses` |
| `players` | 3 accounts up to 3 coins; 2 players, 5 events, counters of 2 bits; 8 seconds of chat in halves; bans, kits and 5 requests | 455 000 | `MoneyKept`, `TransferExact`, `MetricsFollow`, `ChatRate`, `BansLast`, `KitsCool`, `TeleportsAnswered` |
| `network` | 2 calls over 2 Starts; 3 descriptors, 2 clients; 2 connections, 3 requests; 3 Starts of the bridge; 2 Paper clients | 93 000 | `HttpAnswers` (with the refinement of `RequestQueue`), `WebSocketServes`, `RconInStep`, `BridgeConnects`, `PaperReports`, `NetworkProgress` |
| `files` | 4 versions of the file, 2 Starts; 2 backups kept, 4 seconds; 2 releases; 25 sizes cut at every boundary | 421 000 | `ConfigFollows`, `BackupsKept`, `InstalledKept`, `CodecsExact`, `FilesProgress` |
| `programs` | 2 servers; 2 processes, 2 timers, 2 checks; 7 numbers at the ends of their ranges; 3 lines over 2 Starts; one request; versions of 2 parts | 116 000 | `ImGuiThreads`, `QtProcess`, `EntryConsents`, `ConsoleHandles`, `CheckIsClosed`, `NewerIsNewer`, `ProgramsProgress` |
| `chat_window_comment`, `install_completes`, `imgui_load`, `qt_server` | as above | | a violation each, see Findings |

Why the bounds are enough. Three tasks is the least with a head, one that
overtakes it and one left behind; where a theorem covers a property it holds for
every number anyway. Two threads suffice for the module loader since every
conflict is between a pair, and three loads let a throwing module stand behind
two entries of one object. Two Starts let a component meet what the first one
left, three let it recover. Two ticks a second put ages on both sides of each
whole second. The sizes given to the codecs stand on both sides of every length
at which a header changes or a byte changes its sign.

Bounds are named constants (`MaxTime`, `MaxLoads`, `MaxEvents`, `MaxThreads`,
`MaxStarts`, `MaxRequests`, `MaxHandlers`, `MaxDepth` and the like) and are guards of
the actions they bound. `Word`, `MaxCurrency` and `Largest` are widths, not bounds.
`CHECK_DEADLOCK FALSE` is set because every program here may come to rest:
everything submitted is done, the component is stopped, the process has ended,
or a bounded clock has run out.

What the properties say of the code, where it is not all good news:

- `StopReturns` of `ThreadScheduler` (in `Progresses`) and of `HttpClient` (in
  `NetworkProgress`) excludes one place of the worker: `Stop` stores `running_` and notifies without the mutex, so both can
  fall between the predicate and the sleep; the wake-up is then lost and `join`
  never returns.
- `QueuedTasksBegin` (in `Progresses`) excludes a worker that left early, which a thread that read
  `running_` before its initialisation can do.
- `CallsAreMapped` and `HandlesBalance` hold until an `OnUnload` throws out of the
  middle of `UnloadAll`; from then on closed entries stay in `modules_`.
- `TasksReachLiveMembers` says nothing of `metrics_`, `permissions_` and the modules
  unless the owner stopped the scheduler first: they are destroyed before the
  worker is joined.
- `TasksRun` (in `RunProgresses`) leaves out tasks behind one that throws: that one is never erased
  and ends every frame before them.
- `ThreadsBounded` excludes a `Start` on a running pool, which does not end
  before the system refuses a thread.
- `MetricMatchesRegistry` carries the drift that repeated joins and unmatched
  quits leave behind for good.
- `ForeignOnlyWhenStale`: a second Stop of the WebSocket server closes whatever
  has its old descriptor's number by then.
- `NeverRefused`: `RconServer` closes without an answer, which `Authenticate` takes
  for consent, whatever the passwords. `InStep` holds while replies come whole.
- `StaleOnlyIfRaced`: a stopped `NetworkBridge` may report a connection, if its Stop
  fell between the loop's test of `running_` and the store of `connected_`.
  `SocketsBounded`: every Start leaves a socket open, and a second one if the Stop
  fell between the loop's reads of the two flags.
- `DeafOnlyIfFailed`: `Start` of `PaperBridge` has returned true when `socket`, `bind`
  or `listen` fails, and the bridge then says that it runs and hears nobody.
- `ReplacementNoticed` speaks of a file whose replaced inode is gone. While that inode
  is kept under another name nothing tells the watcher, and once it has been told
  that the inode is gone it watches nothing, so that later changes are never seen.
  `FreshWhileWatched` leaves out what changed before the watch was made and a file
  that was moved away and put back.
- `ReportedExists` excludes a clock that was set back, which makes the new backup
  the oldest and the first to be removed, and operations that overlap.
- `McxExact`, `MaskedExact` and `UnmaskedExact` name the sizes at which decoding fails:
  MCX payloads and unmasked frames from 65536 on, and masked frames where the lower
  byte of the length is 128 or more.
- `LostOnlyAfterKill`: a restart of the Qt launcher after a server had to be killed
  starts nothing.
- The server that the wizard starts takes its answers, and nothing ever reads the
  `server.json` that the wizard writes or `config.json`.
- `OnlyProgressRaces`: the bar of the ImGui launcher reads `update_progress_`, a plain
  float, while the thread of the check writes it: a data race, of which the model
  says only where it is and that no other field of the update has one.
- `OnlyOwedPrinted`: a thread started just before a stop still prints that the
  server started, after "Server stopped".
- `SameAsset` leaves out releases with "linux" in their tag: the C++ checker looks for
  it in the whole URL, `launcher-rs` in the name.
- `LaunchersAgree` is about plain numbers. Of 1.1.1-rc the C++ checker reads 1.1.1,
  so that the release itself is not newer; `launcher-rs` reads 1.1.0, so that it
  is, but so is 1.1.1 then to 1.1.9-rc.

**Findings**, each a run that ends in a violation.

- `chat_window_comment`: the comments of `IsSpam` say that messages older than 5
  seconds are removed; the age is truncated to whole seconds and compared with
  `> 5`, so that messages stay, and count, until they are six seconds old.
  `RateHolds` states the limit the code does enforce.
- `install_completes`: `launcher-rs` saves an archive as `<asset>.download` and
  extracts only names that end in `.zip`, `.tar.gz` or `.tgz`: no install succeeds,
  and it has removed the old directory of the release by then.
- `imgui_load`: the formats with which `LoadConfig` reads match no line that
  `SaveConfig` writes; the panel says that it loaded the file and shows the old
  values.
- `qt_server`: the Qt launcher, like the Windows release notes, starts
  `mcx --server`; `main()` knows no such option and prints its usage.

### Fairness

Weak fairness of the steps of threads that can run: workers, accept loops and
other threads of the program go on, an owner inside a call goes on, and what a
thread calls in a module, a task or a callback returns or throws. Time passes in
the two schedulers. Each worker of `AsyncWorker` has its own fairness, as each is
an operating system thread. No caller has to schedule, stop, load or ask, no
operator has to type or click, no client has to connect or speak, no signal has
to come and no wait has to return spuriously. No fairness is put on a mutex,
since no liveness property needs a contended lock to be won.

The peer of `HttpClient` and the other server of `Rcon` answer or close in the
end, since the code has no timeout and promises nothing without it. Strong
fairness appears twice. The listener of `WebSocketServer` selects again and again
with a timeout; a client that stays in the backlog makes some `select` return,
though a timeout may always come first in the model. The worker of `UpdateCheck`
takes the one request, though its owner interleaves with it.

## 5. What is proved

`ThreadSchedulerProofs` proves, for every set of tasks, set of delays and clock
bound, `TypeOK`, `NoOversleep`, `EachTaskOnce`, `EarliestFirst` and
`ImplementsContract`. It assumes what `ThreadScheduler` assumes: `NoTask` is no
task, and delays and the clock bound are naturals. `NoOversleep` is not inductive
alone: that a worker asleep without a limit has an empty queue depends on no
`Schedule` having come between its test and its sleep, which is what holding the
mutex at `idleBlock` and `timedBlock` excludes, and on every `Schedule` moving a
sleeping worker. The invariant joins the type invariant, both properties, and
that a task is current exactly while the worker runs it and that a stopped
owner's worker has exited. The refinement is the usual argument: initial states
map to initial states, every action maps to the contract's action of the same
task or to a stutter.

`FrameLoopProofs` proves `TypeOK`, with the iterator's bound in it,
`FrameServesDue`, `OnceAFrame`, `NothingLost` and `SignalIsFinal`, for every set of
tasks, throwing tasks and delays. The invariant says that the vector has no
duplicates, that what lies before the iterator was not due, and that what lies
ahead has not run in this frame; `thisFrame` only holds tasks once scheduled, so one
appended in the middle of the scan is new. `NothingLost` needs in addition that
whatever has left the vector has run, and the lemma `RemoveAtIs`, which says what an
erase does to the sequence. `SignalIsFinal` is proved
as a state that no step leaves: between frames only `FrameBegins` starts one, which
looks at the request, and no step takes the request back.

`ServerShutdownProofs` proves `TasksReachLiveMembers` and `NoThreadLeft` for every
set of tasks and whatever members they use. Every step of the composition is a
step of `ThreadScheduler` or leaves it alone, so that its invariant carries over;
what is added is that members below the scheduler go only after the join, and
that a caller's own Stop puts the join before all of them.

The other four modules prove what `MCConcurrency`, `MCPlayers`, `MCNetwork`, `MCFiles`
and `MCPrograms` check. Each of these runs several components side by side, so
each proof module has an invariant per component, a lemma per action or group of
actions, a lemma `PartsNext` that a step of the whole is a step of one part and
leaves the others, and the theorems at the end.

`ConcurrencyProofs` proves `ModulesStayMapped`, `DispatchesComplete` and
`PoolKeepsTasks` for every finite set of threads, every set of objects, tasks and
event types, any number of loads of one object and any nesting of `Publish`.
- `LoaderInv` adds to the balance of handles what the shared mutex gives: a thread
  that unloads is alone with threads that do not hold it. An entry that no
  `UnloadAll` has closed then counts for one open handle more than is closed, so its
  object is mapped. What an `erase` does to the number of entries of an object is a
  lemma with a bijection (`CountAfterRemove`).
- `BusInv` says that each type's vector still begins with what it was when a `Publish`
  in progress read its end, and that the handlers called are the first of those.
- `PoolInv`: a worker that holds a task is exactly at `took`, `work` or `callback`, what
  is queued or held has been handed over, the counter is the number of workers at
  `work` or `callback`, and a `Start` on an empty pool keeps its index equal to the
  vector's size. It assumes that the system grants more threads than the
  constructor asks for, as the model does.

`PlayersProofs` proves `MoneyKept`, `TransferExact`, `MetricsFollow`, `ChatRate`,
`BansLast`, `KitsCool` and `TeleportsAnswered` for every set of players, every width of
a Currency, a counter and a clock, and every division of a second.
- `NoDebt` is inductive with the types: a transfer withdraws only what is covered,
  and only a deposit that overflows turns a balance negative. `Conserved` adds up
  a fold over all players; the proof goes through a function that gives the sum of
  every subset (`SumsOf`), so that a change of one balance changes the sum by as much.
- `PipelineInv` counts, modulo the width, what was applied and what is pending, and
  relates the metric to the registry by the drift that repeated joins leave.
- `ChatInv` says that the timestamps kept are the last of the messages that passed,
  in the order of time, and that the ones before them have expired, which is what
  `RateHolds` needs of spans that began before the current call.
- `BanInv`, `KitInv` and `TeleportInv` relate what the maps hold to the history of
  what was promised.

`NetworkProofs` proves `HttpAnswers`, `WebSocketServes`, `RconInStep`, `BridgeConnects`
and `PaperReports` for any number of calls, descriptors, clients, connections,
packets and Starts.
- `HttpInv`: the calls made are those answered, then the one in flight, then those
  queued, in this order, and once `Stop` has returned there is no worker until the
  next `Start`. What the peer does only picks the outcome of a request. The refinement
  of `RequestQueue` maps what was asked to its calls made, the length of what was
  answered to its calls given, and the client is open while it runs or its owner
  is not yet back from `Stop`.
- `WsInv`: a client's descriptor is that of the client being served and never
  `serverFd_`; `serverFd_` names a listener exactly while it is not stale, and every
  listener it has not forgotten is it; the client that shakes hands has a number
  nobody was reported with. The first part is stronger than what was checked
  before the proof: the accept thread itself never closes a descriptor of others.
- `RemoteInv`: while the stream is whole the other server owes the client at most one
  reply, unread request or reply on its way, and nothing ever arrives from
  `RconServer`. Nothing in the code compares ids; the theorem says why it need not,
  and what breaks the argument: a reply that is cut.
- `BridgeInv`: a loop that may still connect has a socket to spare (`Spare`), one for
  its Start and one more for each Stop that fell between its reads of the flags, and
  a Stop that joins a thread which is connected or about to be has raced with it.
  `PaperInv`: the clients waiting, served, reported and reset are disjoint, and a
  thread that is over while the bridge runs has failed to listen.

`FilesProofs` proves `ConfigFollows`, `BackupsKept`, `InstalledKept` and `CodecsExact` for
any number of changes of the file, any retention of at least one, every number of
releases, and every set of packet sizes that an int can count (size + 10 at most
2147483647) with values of 32 bits. `WatchInv` says that the path names another inode
than the watched one only after a change, and that a watch is lost only to an event
read later than the watch was made, after which the file is read again; `BackupInv` relates what each actor has
copied, listed or doomed to what the disk holds, and needs the lemma `NewestSurvive`,
that removing the oldest leaves the newest; `InstallInv` says that an install comes
to the directory with the whole archive of its own release; `PacketInv` and
`SerialInv` are arithmetic on the bytes of a length.

`ProgramsProofs` proves `ImGuiThreads`, `QtProcess`, `EntryConsents`, `ConsoleHandles`,
`CheckIsClosed` and `NewerIsNewer` for any number of servers, timers, checks, lines and
Starts, every range the wizard asks for, and versions of any number of parts.
`LinesInv` counts the lines handled against the lines typed (`Counted`, `PlaceOfLine`);
that newer is a strict order goes through the first place at which two versions
differ (`NewerMeans`, `NewerTransitive`).

Some of these go over data of any length. The library's induction theorems take an
operator as a parameter and cannot be used; where an induction is needed, a lemma
`Smallest`, from the well-foundedness of Nat, gives the least counterexample, and a
recursive function is known by its defining equation.

Only model-checked: the liveness of every run, `Progresses`, `RunProgresses`,
`WorkProgresses`, `NetworkProgress`, `FilesProgress` and `ProgramsProgress`, since fairness
and ENABLED are out of the prover's reach; and the four findings, which are
counterexamples.

## 6. What is left out

- An exception that is not a `std::exception` ends the process wherever it leaves
  a thread; no module models the rest of such a run.
- A signal that arrives while a second `Run` replaces `g_callback`, and one that
  arrives after the server that registered it is destroyed.
- Module code that calls back into the loader from `OnEvent`: undefined for the
  shared mutex.
- Module instances are never destroyed by the loader (`DestroyModule` is not
  called), which no property is about.
- The order of tasks with equal due time in the priority queue: any of them.
- Writer starvation of the shared mutex.
- The memory that tasks still queued at destruction own.
- `console_lines_` of the ImGui launcher is written by several threads without a
  lock: undefined, whatever the order; of the race on `update_progress_` only the place
  is modelled (`OnlyProgressRaces`), not the value read. The end of the program under its detached
  threads, and the drawing of both launchers.
- A Start on a running `RconServer` and the reuse of its descriptor's number: the
  same code as in `WebSocketServer`, where both are modelled.
- The Windows halves of `ConfigWatcher` and of the sockets.
- The text searches of the update checkers, `ParseCommand`'s splitting, the regular
  expressions of `ChatFilter`, and the packets with fixed texts in `protocol.cpp`.
- Operations without a caller: `PlayerRegistry::UpdatePlayerScene`,
  `TeleportManager::ClearExpiredRequests`, the configuration loader; and
  `BanManager`'s files, whose functions are empty.
