# winxime and libximecore: TLA+ models, model checking and proofs

The repository holds an input method for Windows (`winxime`) built on the Rime
engine, and a library (`libximecore`) with the engine's bindings, a settings
application, a plugin system and a clipboard synchronisation server.  The modules
in this directory model the parts of it where several threads, processes or
network clients share state.  TLC checks them on small instances, TLAPS proves
the central invariants for every instance, and `PROJECT.json` ties each
definition to the lines it stands for.

## 1. The system

### 1.1 Inventory

| component | state it keeps | operations | talks to |
|---|---|---|---|
| `winxime-tsf` (DLL in every application) | `composing`, `degraded`, `ascii_mode`, `tray_visible`, the TSF composition, an IPC client | key down/up, Shift, focus, (de)activation, language bar, edit sessions | server, over a named pipe, blocking |
| `winxime-server`, IPC (`ipc_server.rs`) | the engine behind one `Mutex`, the flag `ascii_mode`, `SharedInputContext` | about 25 commands, one thread per connection | engine, candidate window, market |
| `winxime-server`, window (`ui.rs`) | `model`, `root_model`, `view` behind three mutexes; one HWND | show, hide, update, overlay; `wnd_proc` | posted messages, `SetWindowPos` |
| `winxime-server`, tray (`tray.rs`) | static HWND, icon, visibility | icon, menu, left click, quit | engine (try_lock), posted messages |
| `winxime-server`, start-up (`main.rs`, `register.rs`) | the user's configuration files, dictionaries, the registration of the DLL beside it | replace the server before it, copy, compile, register, serve, end | the other process's pipe, disk, registry |
| `winxime-server`, schema market (`schema_manager.rs`) | registry file, schema files | index, download, install, uninstall | HTTP, disk, `redeploy` |
| `winxime-ipc` | pipe handle | connect, request, one-way | server |
| `xime-rime` | Rime session, schema, options | key, select, deploy, redeploy | librime (C++) |
| `xime-sync-service` (`clipboard.rs`) | cached profile, event number, ring buffer, broadcast channel | put, load | store, SQLite |
| `xime-sync-store` | files or WebDAV, SQLite table | get, put, list, insert, trim | disk, HTTP |
| `xime-sync-server` | shared state of the handlers | HTTP, SSE, WebSocket, configuration, login | service |
| `xime-setup` (settings application) | what its pages show, one result slot per kind of task | a thread per operation; results polled four times a second | server, HTTP, `xime-plugin` |
| `xime-plugin` | plugin directories, `registry.yaml` | install, uninstall, enable, list | disk |
| `winxime-tsf-register` (run by the installers) | none of its own: DLL in System32, registry, TSF profile | about twenty commands, each a list of steps | registry, disk, the DLL's own entry points |
| `winxime-tsf`, DLL entry points (`dll.rs`, `class_factory.rs`) | instance count | register, unregister, create, may unload | registry |
| `xime-config` | YAML files, the schema list | read, edit, deploy | disk |

What is hard in it, component by component, is the list of hazards in
`PROJECT.json`.  In short:

* **One engine, many applications.**  Each application's text service sends keys to
  the one engine.  A request that does not get the engine's mutex at once is
  answered with an empty "busy" response and never repeated.  What the response
  says reaches the document later, in an edit session that TSF schedules.
  Correct means: a letter is committed at most once, where it was typed; nobody
  is left waiting; copies of the engine's state (`composing`, the ASCII flag, the
  window) agree with it or are explained.
* **Two threads, three mutexes, one window.**  The thread that holds the engine's
  mutex measures and places the window itself and posts the rest to the message
  loop.  Correct means: no deadlock, and the last command wins on the screen.
* **Numbered events.**  An upload is stored, cached, numbered, recorded, announced
  and entered into the history, with awaits in between, at each of which the
  request may be dropped.  Correct means: store, cache and events agree, events
  keep their order, subscribers miss and repeat nothing, and a slow subscriber
  does not stop the server.
* **Threads over plain files.**  Every operation on a plugin runs in its own thread,
  in several writes, any of which may fail or be cut off when the window is
  closed, and all of them rewrite one registry file without a lock.  Correct
  means: record and directory agree unless such an accident is to blame, the page
  comes to show the registry, and no "downloading" stays for ever.
* **One slot, many threads.**  The schema pages start a thread per click and take
  results from one slot; indexes are asked for again while an answer is under way;
  installations and selections rewrite one schema list and deploy it, each in its own
  thread, and the server in its own process.  Correct means: nothing on the page waits
  for what is over, the newest index is the one shown, and the list on the disk is the
  one deployed unless deployments overlapped or a write failed.
* **A process that replaces itself.**  A new server asks the old one to end, waits
  for its pipe, copies the user's files, and serves; its tray is changed by posted
  messages from several threads; its market downloads under the engine's mutex.
  Correct means: whoever is in the message loop can be reached, the files are
  whole, the tray tells the mode, the registry names the files there are.
* **Registration.**  Twenty commands copy, register, unregister and remove one DLL
  that applications hold loaded and that every server registers again at its
  start, and any of their steps may fail, some without a word.  Correct means: the
  registry names a DLL that is gone only after an accident that is known, and an
  uninstallation in which nothing failed leaves nothing.
* **WebSocket clients.**  A client gets a snapshot on request and changes as they are
  broadcast, and uploads attachments through a temporary file others may share.
  Correct means: who has received everything has been told the current profile
  last, and an attachment is the whole of one upload.

### 1.2 Modules

| module | what it is |
|---|---|
| `ImeSession` | the text services, the pipe and the server around the engine's mutex |
| `LetterLifecycle` | abstract: the life of a typed letter (untyped, pending, delivered, dropped) |
| `MCImeSession` | symmetry sets for `ImeSession` |
| `ImeSession_proofs` | eight theorems about `ImeSession`, one of them that it implements `LetterLifecycle` |
| `CandidateWindow` | IPC thread, UI thread, mutexes, posted messages, the screen |
| `CandidateWindow_proofs` | three theorems about `CandidateWindow` |
| `ClipboardService` | profile, file, cache, events, history, failing and dropped requests |
| `ClipboardFeed` | extends `ClipboardService` with the SSE streams and their clients |
| `ClipboardFeed_proofs` | six theorems about `ClipboardService` and `ClipboardFeed` |
| `PluginTasks` | the plugin pages, their threads and the plugin manager on the disk |
| `MCPluginTasks` | symmetry sets for `PluginTasks` |
| `PluginTasks_proofs` | four theorems about `PluginTasks` |
| `SchemaStore` | the schema and model pages, their threads, the indexes, the schema list and its deployment |
| `MCSchemaStore` | symmetry and bounds for `SchemaStore` |
| `SchemaStore_proofs` | six theorems about `SchemaStore` |
| `Installer` | `winxime-tsf-register`'s commands, the DLL's entry points, the server's own registration |
| `Installer_proofs` | three theorems about `Installer` |
| `ServerProcess` | server processes: start, replacement, user files, tray, market |
| `MCServerProcess` | symmetry sets for `ServerProcess` |
| `ServerProcess_proofs` | five theorems about `ServerProcess` |
| `SyncServer` | the synchronisation server's process, WebSocket connections and attachments |
| `MCSyncServer` | symmetry sets for `SyncServer` |
| `SyncServer_proofs` | three theorems about `SyncServer` |

Where two modules look at one piece of code, each keeps what its questions need.
`ImeSession` has the requests a text service makes and one server; `ServerProcess`
the processes and the requests about tray and market.  `ClipboardService` has an
upload step by step; `SyncServer` has it as one step (told or dropped) with
several clients around it.

## 2. ImeSession

**State.**  The server: `up`, `holder` (who has the engine mutex), `input` (the
engine's composition), `asciiOpt` (the engine's option), `asciiFlag` (the
server's `AtomicBool`), `shown`.  Each text service: `link`, `composing`,
`degraded`, `localAscii`, `comp` (the TSF composition), `edits` (sessions
requested and not run), `call`/`answer` (the one blocking request).  The user:
`owner` (where a letter was typed), `focus`, `notice`.  `lastWriter` is a
history variable.

**Letters are identities.**  Each letter is typed at most once, so a set is enough
for the engine's input, a preedit, a commit or a document, and "twice" and "in
the wrong place" are visible.  The order of letters is not modelled.

**Actions.**  A request is one action to send (`KeyDown`, `ShiftUp`, `HandleLose`,
...), `Accept` or `RefuseBusy` for `try_lock`, one `Serve...` action for what
`process_request` does under the mutex and its response, and one `Return...`
action for what the text service does with it.  While a call is out its thread
starts nothing (`Idle`).  Edit sessions run one at a time and in order, may be
refused a composition, or find the focus gone.  `RimeKey` is external: the
set of outcomes the engine may have for a key; the code in `src/` reads them
through `process_key`, `get_commit` and `get_context`.  `RimeReject` is what it may do with a
key it hands back: nothing, or clear or commit the input first, as Caps Lock and
printable keys no processor wants do.  `ServeKeyUnhandled` takes the commit and hides the
window for such a key as well, and `ReturnKeyUnhandled` drops the response, as the
code does.  A crash loses the server's
whole state and breaks every pipe; the text services notice at their next read.

**Events.**  `Events` names what the environment does in an instance, so that a
run can leave out what multiplies its states without touching its question:
`switch` focus, `away` (focus where no service is), `deactivate`, `tray`,
`button` (language bar), `redeploy`, `fetch` (a market download), `crash`,
`terminate` (the application ends the composition), `release` (key releases reach
the service), `caps` (so does Caps Lock, while the service composes), `select` (the
settings program selects a schema), `candidates` (the engine may have some to show).

| run | instance | shows |
|---|---|---|
| `ime_two_clients` | 2 clients, 2 letters, switch, terminate | `CommitAtMostOnce`, `ComposingExplained`, `ImplementsLifecycle` |
| `ime_all_events` | 1 client, 2 letters, every event, 2 pending edits, fair | `TypeOK`, `NoHiddenComposition`, `WindowExplained`, `ComposingExplained`, `CallsReturn` |
| `ime_stay_home` | violation of `LettersStayHome` | a FocusOut answered busy, or sent too late, leaves a composition to another application |

Two clients are what a leak between applications needs; two letters let one be
in the engine while another is on its way or already written.  Symmetry over
clients and letters is used in `ime_two_clients` (invariants and the refinement,
which is symmetric), never in `ime_all_events`, which checks liveness.  The two have 1.44
million and 838 thousand states.  A Caps Lock key, which multiplies the states of the first,
is run with one application only; the theorems of section 10 have it with any number.

**Exceptions.**  `ComposingExplained` speaks of a service whose own change of the engine's
input was the last and whose response it has read.  It says nothing after a change by
another service or the settings program (`ReloadConfig`, `SelectSchema`), after a click
on its language bar (which reads the mode only), after a crash, and after a key that
Rime rejected once it had cleared or committed the input: `composing` then stays set
with nothing behind it, and the commit is lost.  `lastWriter` records which of these it
was.  `WindowExplained` has the two commands of the settings program as its only
exceptions.

**Limits.**  `ime_two_clients` has no crash: with one, a response can be lost after
another application received the same letter in a commit, and the raw key
follows; `CommitAtMostOnce` is then false, and the repository promises nothing
there.  What is left of it with crashes is proved, not run (section 10): no
application commits a letter twice, and two have it only if one of them is the
one it was typed into.  The response of the pipe is taken as delivered or broken as a whole.

**Fairness** (`FairSpec`): the server's thread of a connection goes on
(`Serve`), a response that is there is read (`Return`), a market command that
began ends (`MaintEnd`; its HTTP client has time limits).  Users, crashes, restarts,
focus changes and TSF's edit sessions are owed nothing.

**Refinement.**  `LetterLifecycle` allows a letter to go from untyped to pending or
straight into a document, from pending into one document or to dropped, and
nothing else.  `LetterStatus` computes that status from the engine's input, the
calls, responses, edits and documents; `ImplementsLifecycle` says every step of
`ImeSession` is a step of it or none.

## 3. CandidateWindow

Each method of `CandidateWindow` and each message of `wnd_proc` is a sequence of
operations (take or drop a mutex, clone the overlay, measure, place, post,
draw); the two threads interleave between any two operations.  IPC commands come
one at a time, since their thread holds the engine's mutex.  `queue` holds
posted messages, `moves` the asynchronous `SetWindowPos` requests, which are
handled before them.  A geometry or a drawing is abstracted to the content it was
made for, which is what a stale size and a stale picture differ in.

| run | instance | shows |
|---|---|---|
| `win_list` | 2 lists, no overlay, repaints, 2 queued messages, fair | `NoLockCycle`, `CommandsFinish` |
| `win_overlay` | 2 lists, 1 overlay, DPI changes | `TypeOK`, `LastCommandShown` |
| `win_root` | 1 list, 1 overlay | violation of `NoLockCycle`: the deadlock of `repaint_current` and `apply_layout` |

`LastCommandShown` is checked with the overlay, whose commands include those of the
lists.  `win_overlay` does not check deadlock, because the program does deadlock there;
`win_root` is the run about it.  `win_list` checks deadlock.  `MaxQueue` bounds
the messages waiting when a new command begins; with two, a whole show/update
pair can be overtaken by the next command.  **Fairness**: a thread runs unless it
waits for a mutex; a mutex that is free again and again is got (`SF` of `Take`);
the loop takes waiting messages.  `WM_SET_POSITION` is handled and never posted,
so it has no action.

## 4. ClipboardService and ClipboardFeed

`ClipboardService` follows `put` through its awaits: the write lock and the
comparison (`Enter`, `Compare`), the file (`Save`, `SaveFails`), cache and number
(`Commit`), the ring buffer under its own lock (`Record`), the broadcast
(`Send`), the history and the end of the lock (`Insert`).  `Cancel` drops the
task of an HTTP request at any await, and a file operation under way goes on in
the blocking pool (`late`, `LateWrite`).  `Restart` keeps the file and the
table only.  `torn` is a history variable: a request was dropped half-way or a
read failed in this life of the server, the two ways out of agreement that the code
does not close (both are listed as hazards).

`ClipboardFeed` adds the streams: `Connect`, `Replay` under the buffer's read
lock, `Unlock`, `Subscribe`, `Live`, `Lag`, the client's `Receive` and
`Disconnect`.  The client keeps the number of the last event it received across
reconnects and restarts of the server.

| run | instance | shows |
|---|---|---|
| `clip_feed` | 2 tasks, 2 profiles, 1 client, all capacities 1, 2 events a life, every fault, fair | the seven properties of the two modules |

With capacity 1 the ring drops, the channel fills and a receiver lags with
two events; the safety properties were also checked with capacities 2 and
`MaxSeq` 3 (2.8 million states).  **Fairness**: tokio runs what can run, and its
`RwLock` is first come first served, hence strong fairness of the two steps that
wait for it; clients are never obliged to read, so `RequestsFinish` shows that
one that does not cannot stop an upload.

## 5. PluginTasks

**State.**  The disk: `registry` (the record of each plugin: none, off, on) and
`dirs` (its directory: none, partial, whole).  The page: `installed` (its copy of
the registry), `downloading`, and `slot`, the one `PLUGIN_TASK_RESULT`.  The
threads: `task`, one record per thread with its operation, plugin, place in the
code (`pc`) and what it has read.  Two history variables say what accidents there
were: `excused` holds the plugins whose record and directory may disagree (a
change failed half-way or was cut off, two threads worked on the plugin, or two
rewrote the registry at once; then all plugins), and `missed` says that the page
may not have seen the last change (a result was replaced in the slot, a read
failed or met a half-written file).

**Actions.**  `Get`, `Uninstall`, `Toggle` start a thread, with no guard but what the
page shows, as in the code.  A download goes through `Fetch`, `Open`, `Clear`,
`Extract`, `Read`, `Truncate`, `Write`, `Report`; a removal enters at `Remove`, a
switch at `Read`.  `Truncate` and `Write` are apart because `fs::write` empties the
file first and other threads read in between; a file that cannot be read or parsed
counts as an empty list (`Listed`).  Each step may fail.  `Poll` takes the
slot, `RefreshPlugins` is the button and the arrival of an index, `Reopen` closes
and starts the application.

| run | instance | shows |
|---|---|---|
| `plugin_tasks` | 2 plugins, 2 threads at once, 3 in all | `TypeOK`, `RegistryMatchesDisk`, `PageMatchesRegistry`, `DownloadIsAlive` |

Two threads are what the slot and the registry need to go wrong, two plugins let
one thread lose another's change, and the third thread repairs or meets what two
have left.  Threads and plugins are interchangeable, hence the symmetry.  Nothing
here waits for anything, so there is no question of liveness; deadlock is checked.

**Left out**: names, versions, dates, the temporary package (its name is the
plugin's, and the page downloads one at a time), the plugin's own configuration
file, progress and messages.  `installing` is never set, because no code fills
`downloaded_ids`, which the button that sets it needs.  A second instance of the
settings application is not modelled.

## 6. SchemaStore

**State.**  The page: `page` (is it loading, has it loaded, which request's answer it
shows, what it calls downloaded, the item being downloaded), `have` (installed schemas
as it knows them), `installing`, and `choice`, the schemas of the settings page.  The
slots: `index`, `slot`, `deploySlot`.  Requests of indexes are numbered; `fetch` holds
those under way.  The threads: `task`, with operation, item, place and what was
read.  The disk: `disk` (each item's directory: none, empty, a part, whole), `files`,
`list` and the list that was `deployed`.  `ui` is the selection the UI thread
is in the middle of.  History variables name the accidents: `taint` (an operation on
the item failed, was cut off, met another or had its result replaced), `crossed` (the
newest request of an index met an earlier one or its answer), `doubt` (below).  `reload`
is the deployment the server is in the middle of.

**Actions.**  Clicks are actions with the page's own guards (`SchemaAction`,
`MarketGuard`); each step of a thread is one.  `Refresh` clears `loading` and `loaded`
and asks again, as the button does.  `PollBackground` takes all slots at once.
`SaveSchema`, `SaveSchemaList`, `SaveSchemaDeploy` and `SaveSchemaBuild` are a selection
with no server to take it, in the UI thread.  `Reopen` closes the window, which ends
every thread, and starts the program again, which deploys once as it starts Rime.

A deployment is two steps, wherever it runs: Rime reads the list (`DeployStep`,
`SaveSchemaDeploy`, `ServerDeploys`), and some time later writes `build/default.yaml`
(`BuildStep`, `SaveSchemaBuild`, `ServerBuilds`), or leaves it as it is.  No lock keeps
two of them apart: `deploy` runs its tasks in the thread that calls it.  A write of the
list may fail before it has begun, or leave the list cut off.  `doubt` says that the
newest deployment began or went on beside another, did not write what it had read, or
that the list has been cut off since: then the one deployed need not be the one on the
disk, and these are `DeployedIsCurrent`'s exceptions.  The two kinds, schemas and
models, have slots of their own and share the refresh button only, so a behaviour is
about one of them, chosen in `Init`.

| run | instance | shows |
|---|---|---|
| `schema_store` | 1 schema with a package, 2 models, 2 loads, 3 threads, selections or server deployments | `TypeOK`, `MarkHasThread`, `LoadingHasRequest`, `PageMatchesDisk`, `IndexIsFresh`, `DeployedIsCurrent` |

Two loads are a refresh, or a restart, over a request under way.  Three tasks let an
installation, a selection and a deployment meet, or a deletion meet a download whose
result it replaces; two models are what a mark of one and a result of another need.
The server's deployments count as tasks.  A behaviour about schemas has three tasks with
one load, or two with two (`Small` in `MCSchemaStore`): nothing that is said of the list
and its deployment is about loads, except that a restart begins with one.  The run has
1.08 million states and ends with the bound on tasks, so deadlock is not checked.

**As the code has it.**  The store downloads to `<user>/../markets`, while the
settings page lists the packages beside the executable (`Shipped`), a directory
nothing writes to, although the text at `input_schema.rs:191` sends the user to the
store.  `do_uninstall` looks for a registry that nothing writes, so no file is ever
removed.  A failed download leaves a directory, which counts as downloaded after the
next load; this is why `PageMatchesDisk` excepts `taint`.

**Left out**: progress and its messages, the expiry of messages, what no button
reaches (`delete_market_package`, `save_schema_config`, the plugin entry of the store),
the forms that edit single YAML fields, and a reader that finds the list truncated by a
writer that has not written yet (`PluginTasks` has this for the registry).

## 7. Installer

**State.**  The disk (`sysDll`, `dir`, `data`, the Run value), the registration (`clsid`
names one of two DLLs or none, `tip`, `profile`, `cats`, `layout`), the applications
(`held`, the DLL each has loaded, and `used`), the `server` with what it has still to
register (`boot`), and `job`, the command under way with its place in its list.

**Actions.**  `Program` gives each command of `main.rs` as the list of its steps, and each
step is an action, so servers and applications move in between.  A step may fail for
want of rights (`admin`), because a DLL is loaded (`InUse`), or on its own: a copy after
the old DLL is gone, a registration before or after the path is entered, an
unregistration of a DLL that cannot be loaded.  Commands in `Strict` end there, the
others go on, as their `?` or `let _` say.  `DoUnregister` may leave either key and
report success, since nobody looks at the results of its deletions.  `Stop` asks the
server to end and does not wait; `ServerExit` is when it does.  `ServerStart` to
`ServerUp` are `ensure_registered`, which every start of a server runs.  `Load`, `CreateInstance`,
`CanUnloadNow`, `AppExit` are the DLL's entry points as an application calls them; the
instance count is never lowered for a text service, so a DLL used once stays.
`RemoveDir` is the `rmdir` that `-full-uninstall` schedules for later.

| run | instance | shows |
|---|---|---|
| `installer` | every command, 1 application, 4 commands and server starts | `TypeOK`, `RegisteredDllExists`, `CleanUninstall` |

Four runs are an installation, a server, a failed attempt and an uninstallation.  One
application is enough to hold a DLL; a second would hold the same or the other.  Runs
are bounded, so behaviours end and deadlock is not checked; 2.63 million states.  The four
mishaps in `dangling` are a copy that failed after the removal, a removal by itself, a
registration that an unregistration has left (`"kept"`), and a directory removed with
the DLL a server had registered in it.  The program reports the first, was asked for the
second, and may pass over the other two in silence; `CleanUninstall` excepts `"kept"`
only.

**As the code has it.**  The verification of `-full-uninstall` looks at `HKLM\CLSID`, not
the `Software\Classes\CLSID` that was registered, and its "All components removed
successfully" (`main.rs:611`) says nothing of the latter; the layout is never removed,
since the string built for it has a pair of braces too many.

## 8. ServerProcess

**State.**  Each process: `at` (its main thread's place in `main`, `run_server` and the
message loop), `ipc` (its IPC thread), its engine's `ascii` option, the static
`TRAY_IS_ASCII`, the `icon`, its visibility, the `posts` to its window.  Shared: who has
the `pipe`, the user's files and the dictionaries, the market's `store`, `files` and
`reg`.  `job` is the one request that holds the engine's mutex.

**Actions.**  `Launch`, `Check`, `Poll`, `Recheck` are the start that finds a server,
asks it to end and waits half a second for it; `EnsureUserConfig` to `NewTrayIcon` the
rest of the start; `LeaveLoop`, `Exit` and `Kill` the end, at any step, with what was
being written left as it is (`CutOff`).  Tray clicks and requests take the mutex or do
nothing.  `ReloadConfig`, `SelectSchema` and `ProcessKeyEvent` are requests in the course
of which the engine changes its mode by itself (`Quietly`).
`DownloadSchema`, `OpenArchive`, `CopyFile`, `LoadEntry`, `RemoveFile` and
`SaveRegistry` are the market's operations, file by file, each of which may fail;
`SaveRegistry` has a truncated file between its two steps.

| run | instance | shows |
|---|---|---|
| `server_process` | 2 processes, 2 packages, 2 files, 4 operations, kills | `TypeOK`, `RunningServes`, `DataWhole`, `TrayShowsMode`, `MarketConsistent` |

Two processes are a server and the one that replaces it, or two that race.  Two packages
with two files let them share a file and let a new version drop one.  Four operations
are, say, two starts, an installation and a kill.  1.84 million states; operations
are bounded, hence no deadlock check.

**As the code has it.**  Two starts that both find no server end with one that has the
pipe and one that is deaf: with an engine and an icon, and nobody who can tell it to
quit (`raced`).  A `ShutdownServer` answered busy counts as sent; the new process then
gives up after its last look.  A first copy cut off is never completed (`cut`).
`ReloadConfig` makes a new session in Chinese mode, `SelectSchema` resets the mode for a
schema that says so, as the shipped ones do, and a Caps Lock key may switch it; none of
the three tells the tray, and a tray made after a change of mode starts with the wrong
icon (`missed`, until the mode is next toggled).  A file that two packages share,
or a new version drops, or a truncated registry, part the registry from the files
(`mess`).  `fetch_index` holds the engine's mutex for up to three time limits.  The
menu entries that only start other programs, the choice of the icon's picture by
theme, and an incomplete installation are left out.

## 9. SyncServer

**State.**  `up`; the profile that is `current` and the events `sent` in this life of the
process; each connection's phase (`conn`), place in the broadcast (`cursor`), what its
client was told last (`shown`) and the attachment it declared (`pending`); the puts
under way (`writer`), the temporary file they share and the attachments (`file`).
`untold` and `suspect` are history variables.

**Actions.**  `Connect` sends `auth.ok`, `Subscribe` comes after it; `Changed`, `WsGet`,
`WsSet`, `FileSet`, `Binary` are the messages; `FinishWrite` and `Rename` are
`LocalStorage::put`; `Lagged`, `Leave` and `PutFileFails` end a connection and
`ServerDies` all of them.  An upload is one step, `HttpPut` or `HttpPutDropped`:
`ClipboardService` has its steps.  Names are file names of one stem, because the
temporary file is named after the stem and the process; two handles on it follow it
through a rename.

| run | instance | shows |
|---|---|---|
| `sync_server` | 2 connections, 2 profiles, 2 names, channel of 1, 2 events told | `TypeOK`, `WsConverges`, `FileWhole` |

Two connections share a temporary file and follow one another's changes; with a channel
of one, the second event makes a slow connection lag.  1.97 million states; deadlock is
checked.

**As the code has it.**  A repeated upload that was dropped half-way is taken as unchanged,
so its event is never sent (`untold`).  Two puts of one stem at once may mix or lose
their contents (`suspect`).  The idle timer starts anew at every turn of the loop,
broadcasts included.  `file.get`, `auth` and `ping` change no state.  The settings
application's own control of this server is behind a feature (`clipboard-page`) that is
off, and is not modelled.

## 10. Proofs

`tlapm` checks every obligation from the modules' text.  Nothing is assumed but
the named assumptions on constants, each of which TLC evaluates in a run.

* `ImeSession_proofs`.  `TypeOK` is inductive as it stands (`TypeCorrect`), for any
  sets of clients, letters and events.  The others use it:
  - `SurfaceInv` is `NoHiddenComposition` and `WindowExplained` together; a crash
    clears what both read, a switch clears the input in the step that sets the
    flag, and a key refreshes the window whether or not Rime accepted it.
  - `LockInv` says who has the mutex: the one thread whose request is being served, in a
    running server and over a live pipe; a crash breaks all pipes and lets the mutex go
    in one step.  The invariants of the letters and of `composing` use it.
  - `ComposingInv` says for the last writer that what it believes is true
    (`Belief`: the response it has not read yet, or its own flag when there is
    none, tells the truth about the engine's input; a rejected key that changed the input
    makes nobody the last writer), that only a service with a
    live pipe is the last writer, and that a broken answer comes from a broken
    pipe.  Without the responses on their way the return of one would not
    preserve `ComposingExplained`.
  - `LetterApart` says where a letter may be, whatever happens: nowhere before it is
    typed, then in the engine's input or with the clients, and with a client in one of
    four places (the key in its hand, a response, an edit session that waits, the
    document).  What makes it inductive is what a request says of its letter
    (`InCall`: it is the client's own and not yet written, and not in the input once
    the pipe is broken), and that a letter in hand behind an intact pipe is nowhere
    else, which is why the server may take it.  Two clients have a letter only after a
    server died between handing it to one and answering the other
    (`BreakApart`); one of them is then the one it was typed into.  This gives
    `CommitOncePerApplication` and `CommitSharedAtHome`, with no hypothesis.
  - `LetterInv` adds that no pipe is broken and each letter in one place of all.  It has
    the hypothesis `"crash" \notin Events`, which the run of its properties has
    too, and gives `CommitAtMostOnceAlways`.  Each step is a step of one client that
    types a letter, moves it or takes it away (`MoveApart`, `MoveKeeps`,
    `ShrinkKeeps`), and forward in the letter's life (`Forward`), so that a status
    computed from the places follows along the arrows of `LetterLifecycle`
    (`LifecycleImplemented`, the refinement).
* `ClipboardFeed_proofs`.  `FeedInv` is the type invariant of service and feed
  and `RoomInv`: the buffer is at most `BufferCap` long, a replaying client is
  among its readers (so nobody appends to it), it has looked at no more entries
  than there are, and its channel holds no more events than it has looked at.  With
  `RoomAssumption` (`BufferCap <= OutCap`, 128 and 128 in two files of the code that
  do not mention each other) this gives `ReplayNeverWaits`.
  - `LockedInv` follows the upload that holds the cache's write lock (`WriterInv`: no
    other is between the lock and its end).  `StoredInv` says at which of its steps
    store, cache and last event are in step, and excuses lives in which a request was
    dropped between them; `OrderInv` that a number it has drawn is above all recorded
    events until it is recorded, and above all sent ones until it is sent.  This
    gives `ServiceConsistent` and `EventsInOrder`.
  - `StreamInv` relates a stream to the service: its channel is sorted and above what
    the client has received, `maxSent` is the highest number queued, and for a live
    stream everything still to come from the broadcast is at or above `maxSent`.  The
    last holds because an upload records and sends under one lock: at most one event
    is in the replay and still to be broadcast.  This gives `NoHoleWhileLive` and,
    step by step, the action property `NeverBackwards`.
* `PluginTasks_proofs`.  `DownloadIsAlive` is inductive with the types.
  `RegistryMatchesDisk` speaks of plugins nobody works on; `DiskInv` says what holds
  meanwhile.  `Sound(p)` is that every copy of p's record which is or will be in
  the registry agrees with its directory: the file, unless it is half-written,
  and what threads working on other plugins have read and will write back.
  `AloneInv`: threads that share a plugin or rewrite the registry together are not
  "alone", and their plugins are excused.  `StageInv`: how far a thread that is
  alone has come, from `Sound` before its first write over "directory done, record
  not yet" to `Sound` at its report.  `RestInv`: plugins without a thread and
  without excuse are sound.  The steps are grouped by what they disturb
  (`QuietStep`, `DirectoryStep`, `ReadingStep`, `TruncatingStep`, `WritingStep`,
  `SpoilingStep`, `LossyStep`, `ReportingStep`, `StartingStep`, `ReopeningStep`), one
  lemma each.  `ShownInv`, for `PageMatchesRegistry`, says of a plugin without excuse
  that the page shows its record, or that a thread is still to write the record or
  report it, or that the result is in the slot (`PageOK`); that a switch leaves the
  record it reports (`SwitchOK`); and that only one thread at a time rewrites the file
  (`FileOK`), the last unless the page may have missed a change (`missed`).

* `SchemaStore_proofs`.  `LoadInv` adds to `LoadingHasRequest` and `IndexIsFresh` that,
  until a request meets an earlier one, all requests and answers about belong to the
  newest (`NewestOnly`).  `TaskInv` says that threads not yet started have done
  nothing, so that a new one takes nobody's place.  A step of a thread either reports
  or goes on its way (`OnItsWay`): it stays alive, and who writes the list goes on to
  deploy it.  `DeployInv` adds to `DeployedIsCurrent`, for a behaviour without `doubt`, that
  at most one deployment is building (`OneBuilds`) and that it has read the list as it is,
  unless whoever wrote it since is still to deploy it (`BuildsCurrent`).  It and
  `MarkInv` follow from that, with one lemma for those who begin, one for the threads
  and one step per action of the page.  `CleanInv`, for
  `PageMatchesDisk`, says of an item that met no accident that at most one thread works
  on it (`Alone`); that the result of that thread, once it is there to report, is what
  the directory holds (`Result`); and that, while no thread is in the middle of it,
  the directory is there in full or not at all, as the page will show once it has
  taken the result in the slot (`Settled`, `Expected`).  `TypeInv` adds to `TypeOK` what
  each place of the program may assume of the ids it is handed: what is loaded, deleted
  or installed is an item of the page's kind, what is installed a schema, a deployment
  is about nothing (`Fits`), and a result that is there is about an item; the page
  would take `None` for a downloaded schema without it.  That the list a selection
  starts from has an end rests on `FiniteAssumption`: the site offers finitely many
  schemas.  What `ids.retain` leaves is stated as the increasing enumeration of the
  places kept (`Retained`) and not with `SelectSeq`, of which the prover knows nothing,
  not even that its result is a sequence.
* `Installer_proofs`.  `TypeInv` adds to `TypeOK` that a command is within its list.
  `CleanInv` tells for an uninstallation that met no failure and no server what its
  steps so far have achieved (`Past(k)`): after the second the profile is gone, after
  the third the registration (`Unregistered`: or what is left of it is marked `"kept"`),
  after the fourth the DLL.  `ExistsInv` has a part for each of the two DLLs and the
  order an uninstallation keeps (`UnregisteredFirst`): when the DLL is about to go, the
  key no longer names it, or an unregistration that failed is on record.
* `SyncServer_proofs`.  `ConvergeInv` adds to `WsConverges` that the last event is the
  current profile unless that is untold (`LastIsCurrent`), and that a client is told
  nothing before it subscribes (`ToldLive`): an event is sent in the step that changes
  the profile, a snapshot is the profile itself.  `FileInv` adds to `FileWhole` what
  holds while puts are under way: a put that met no other is the only one, and the
  temporary file is its own, whole once it is done (`Alone`); a name into whose file
  another put may still be writing is suspect (`Suspected`).

* `ServerProcess_proofs`.  `TypeInv` adds to `TypeOK` which job is where.  `RaceInv`: two
  processes that are both past the look for a running server have missed each other
  (`raced`), and a serving one has the pipe unless it is one of those; this is
  `RunningServes`.  `DataInv`: a half-written copy belongs to whoever is copying, and
  who is past a copy has made or found all of it, unless one was cut off; this is
  `DataWhole`.  `TrayInv`: the last message in the queue about the icon, or the icon
  when there is none, says the mode (`WillShow`), and the same for its being visible;
  a change the engine makes by itself is excused from then on (`QuietKeeps`);
  before there is a window nothing is posted that is not about the end; a toggle that
  has changed the engine and not yet posted is excused (`Toggling`).  `MarketInv`
  compares the schema files with the registry that is about to be written (`Goal`),
  for the files no running job works on and none left in a mess.
* `CandidateWindow_proofs`.  `TypeInv` adds to `TypeOK` that handlers are sequences of
  known operations with their arguments.  `NoLockCycleWithoutOverlay` has two
  hypotheses, no root overlay and no change of the DPI, because with them the property
  is false: `show_root` takes the overlay's mutex inside the view's and
  `repaint_current` the model's (run `win_root`).  Without them the overlay's and
  the view's mutex are leaves (`LeafInv`): after one was taken at most one operation
  comes before it is dropped, and that one takes nothing, so its holder waits
  for nobody; a cycle needs two mutexes with waiting holders, and one is left.
  - `ShownInv`, for `LastCommandShown` (no hypotheses: overlays, DPI changes and
    repaints included), follows what a command asks for through three places one behind
    the other: what the IPC thread has still to post, the queue, the rest of the UI
    thread's handler.  `Settles` says of a variable that it has the value it should
    have, or that what sets it right is in one of the places and nothing that sets it
    wrong is behind it (`First`, `LastOf`, `Avoids`); one lemma for each kind of step
    shows that it stays so.  `VisInv` is this for the window's visibility, `RootInv`
    for the overlay.  `LayoutInv` has a phase for each place the last list can be in;
    in the third (`LayoutOK`) the handler reads the model only after it has set it,
    the overlay only after it has cloned it anew, the metrics only after it has
    measured again, so each is either right or still to come.  `PartsInv` says which
    operations only one of the threads does.  What is in which handler (`ListCommand`,
    `HandlersDo`, `UpdateHandler`) is read off the scripts with lemmas about
    concatenation.

Only model-checked:

* everything under fairness (`CallsReturn`, `CommandsFinish`, `RequestsFinish`): the
  prover does not do liveness.

## 11. Findings

Two runs expect a violation; each quotes the document or comment that says otherwise
(`PROJECT.json`, "findings"): a composition follows the focus after a busy FocusOut
(`ime_stay_home`); two threads deadlock around the overlay (`win_root`).

Further places where the code and a text part, which the modules follow the code in:

* The tray's click changes the engine's option and the icon, not the flag the key gate
  reads (`winxime-server/src/main.rs:274`; `PROGRESS.md:22-23` has the icon show the
  mode and the click switch it).
* The comment at `history.rs:81-82` takes the row with the largest number for the
  newest; numbers start again with the process while the table survives, so after a
  restart rows are replaced and the newest may be trimmed.
* An event between a stream's replay and its subscription is lost, against the
  comment at `handlers/sse.rs:19-20`.
* `-full-uninstall` reports success after looking at another key than the one that is
  registered (`winxime-tsf-register/src/main.rs:611`).
* `xime-sync-server/src/config.rs:76` puts the environment above every file; it is added
  before the files, and later sources win (lines 80-94).
* `text_input_processor.rs:1071-1072` says that a degraded service still asks the server
  in `OnKeyDown` and so takes over again; TSF calls `OnKeyDown` for keys that
  `OnTestKeyDown` claimed, and a degraded service claims none.

* A key that Rime rejects after committing the input loses its commit: the server takes the
  commit from the engine (`ipc_server.rs:372`) and answers `success: false`, and
  `text_input_processor.rs:993-1012` looks at nothing else then.  No text of the
  repository speaks of it.

## 12. Not modelled

* Vendored or foreign code: the C++ engine and its bindings (`librime`,
  `librime-sys2`).  What a key does in the engine is the external `RimeKey`
  and `RimeReject`, what a deployment writes `DeployWrites`.
* `xime-plugin`'s runtime and `xime-ipc`: nothing in the repository runs or implements
  them yet.
* `xime-sync-domain` and the configuration, authentication and TLS of the
  synchronisation server: types and pure functions of their input.
* WebDAV storage: single requests to a server that is not in the repository.
* `winxime-ipc`'s framing, time limit and handshake: a call is sent, answered or
  broken as a whole.
* Drawing, measuring, dictionaries' contents, texts, the forms of the settings
  application that rewrite one YAML field at a time, measurement programs.

The rest of what a component lacks is its note in `PROJECT.json`.

## 13. Plan

1. `PipeProtocol`: framing and time limit, under `ImeSession`'s abstraction of a call as
   its specification.
2. Pure functions against definitions: placing of the window, validation of profiles,
   merging of configuration.
3. The text services' own bookkeeping of the tray (`tray_visible`) under
   `ServerProcess`.
