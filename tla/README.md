# smabar, specified

smabar is a desktop bar whose tiles are drawn by plugins.  The core
(`src/crates/smabar-core`) runs each plugin as a child process, speaks JSON-RPC
with it over its standard streams, keeps it in step with the config and the
files on disk, installs plugins and themes from a store, samples the system for
them and gives agents tools to build them.  The app (`src/crates/smabar`) puts a
web shell, windows and three desktops (Linux, Windows, macOS) around it.

These modules specify the parts where order, failure, concurrency and limits
decide whether the program is right.  Paths that begin with `plugins/`, `store/`,
`config/`, `themes/`, `providers/`, `shortcuts/`, `fonts/` or `mcp/` are under
`src/crates/smabar-core/src`; those that begin with `surfaces/`, `commands/` or
`platform/{linux,windows,macos}` are under `src/crates/smabar/src`.

1. [Inventory](#1-inventory)
2. [Modules](#2-modules)
3. [Runs](#3-runs)
4. [Fairness and time](#4-fairness-and-time)
5. [Proofs](#5-proofs)
6. [Disagreements between code and documentation](#6-disagreements)
7. [Behaviour worth knowing](#7-behaviour-worth-knowing)
8. [Not modelled](#8-not-modelled)
9. [What could come next](#9-what-could-come-next)

---

## 1. Inventory

```
        edits            catalog, archives, fonts         uv
          |                      |                        |
 +--------v-------+   +----------v---------+   +----------v---------+
 | ConfigWatcher  +<--+ store: fetch,      |   | RuntimeProvisioner |
 | themes, pins   |   | install, catalog   |   +----------^---------+
 +---+--------+---+   +----------+---------+              | await_runtime
     |        | broadcast        |               +--------+---------+
     |   +----v------------------v----------+    | lifecycle task   |
     |   | PluginSupervisor                 +--->|  (one per plugin)|
     |   +----+-----------------------------+    +--------+---------+
     |        | commands, stop_handle                     | run_once
     |        +-------------------------->----------------+
     |                                           +--------v---------+
     |   events, cache, status <-----------------+ serving loop,    |<-- provider hub,
     |        |                                  | writer, readers  |    media, audio
     |        |                                  +--------+---------+
     |        |                                           | pipes
     v        v                                  +--------v---------+
 +---+--------+------------------------------+   | plugin process,  |
 | app: delivery, desktop loop, surfaces     |   | its group        |
 |   bar, overlay, notifications, settings   |   +------------------+
 +---+------------------------+--------------+
     | emits, pulls           | strips, frames, styles, hooks
 +---v------------+    +------v-----------------------+
 | web shell      |    | X11, Wayland, Win32, AppKit  |
 +----------------+    +------------------------------+
```

The core is tokio tasks on a multi-threaded runtime and worker threads (media,
audio, playback, the macOS strip, the Windows hook).  They meet over locks held
across awaits (`lifecycle_barrier`, one mutex per plugin, `install_lock`, the
receipts lock, `THEME_WRITE_LOCK`), short locks around maps and the config,
bounded channels (config broadcast 16, plugin commands 64, lines 64, playback
requests), the main thread of the window system, and the disk.

| component | state | operations | hard behaviour | right when |
|---|---|---|---|---|
| Plugin supervisor `plugins/{supervisor,lifecycle_guard,activation,watcher,remove,replace}.rs` | handles, filed plugins, mutexes, barrier | boot scan, reloads, reconcile, restart, remove, replace, shutdown | six paths replace one process, each waits in the middle | what runs is what config and disk ask for; nothing is left after shutdown |
| Lifecycle task `plugins/{runner,backoff}.rs` | settings of the run, failures, commands | prepare, initialize, serve, back off, stop | commands reach every phase, settings change meanwhile | a serving plugin knows the latest settings; callers are told the truth |
| Processes `plugins/{process,python}.rs` | child, its group, its pid | prepare, launch, ask, kill | a run is cut short anywhere; pids are given anew | nothing outlives its run |
| Transport `plugins/{rpc,runner,commands,host}.rs` | pending map, channels, pipes | request, notify, serve, ping, end | the loop that drains also waits; timers race answers | each answer finds its waiter, nobody waits for ever |
| Runtime provisioner `plugins/provision.rs` | status, attempt, lock | ensure, install, wait, retry | callers queue; attempts are aborted, readers live on | one attempt serves all; every waiter is served |
| Store transaction `store/{install,install/rollback,local,journal,receipts}.rs` | folders, backups, staging, receipts, journal | install, import, roll back, remove, recover, sweep | a crash or an error between any two changes | installs are atomic as far as recovery can tell |
| Store fetch `store/{archive,treeoid,install,local}.rs`, `store_http.rs` | `.part` file, staging, hash | download, extract, prove | redirects, limits, entries in any order | the proof is one of the folder |
| Store catalog `store/{refresh,catalog,mod}.rs` | catalog files, block list, switches | refresh, reconcile | installs and the user change receipts meanwhile | a blocked version is off |
| Store view and themes `store/{view,compat,themes,receipts}.rs` | none of its own | page, guard, theme install | two codes judge the same facts | what is offered is accepted |
| Events, status, delivery `plugins/{events,status,await_status}.rs`, `plugin_delivery.rs`, `commands/plugin_events.rs` | cache, broadcast, markers, pages | render, subscribe, resync, pull | lag, reloads, answers that overtake emits | every render reaches the bar |
| Agents' tools `mcp/{plugin_tools,plugin_reload,lifecycle_tools}.rs`, `plugins/logfile.rs` | log, waiting calls | write, reload, read the log | the reload may be over before the wait | no outcome is missed |
| Config and themes `config/*.rs`, `themes/**`, `commands/{config,themes}.rs` | config, hash of the last write, theme files, what the page shows | update, reload, save, import, export, delete | two writers, echoes, failing writes | no edit is lost; a shared theme looks the same |
| Fonts `fonts.rs`, `fonts/*.rs` | files, manifest | ensure a family | crashes and new releases between files | fonts handed out are whole |
| Seeding `plugins/seed.rs` | what was written last, data | decide, copy, sweep | starts, updates, edits, crashes in a row | the user's word stands |
| Provider hub `providers/*.rs` | subscriptions, samplers, cache | subscribe, stop, sample | the last subscriber leaves while a sampler ticks | a sampler runs exactly while somebody listens |
| Media `platform/media/*.rs` (core) | sessions, manager, ids | list, act | players come and go between two calls | an action finds its player |
| Audio `platform/audio*.rs` (core), `platform/audio.rs` (app) | snapshot; playbacks, device | read, set; play, control, sweep | the server changes while it is read; a file is decoded while its session ends | the snapshot catches up; each playback ends once |
| Shortcuts `shortcuts/*.rs`, `icons.rs` | pins, icons, page | pin, reorder, download | downloads and answers overlap | the page shows the pins |
| Overlay `surfaces/{overlay,menu,tooltip,focus,lifecycle,presentation}.rs` | lifecycle record, window | open, measure, reveal, conceal | commands overlap at every await | nothing stale is revealed |
| Popups `desktop.rs`, `surfaces/notifications.rs` | records, owners, page, window | show, dismiss, sweep, report | replacements, stops and reports race | each end is told, once |
| Bar `surfaces/{bar,monitor}.rs`, `commands/bar_geometry.rs`, `platform/surfaces.rs` | edge, monitor, reservation, frames | relocate, report, reserve, retract | reservations after an await, monitors that go | the bar holds its place, the strip is the bar's |
| Desktops `platform/{linux,windows,macos}/**` | strips, margins, hooks, frames of others | reserve, release, hit test | Explorer, compositor and Accessibility act on their own | the strip is the one that is wanted; other windows come back |
| Settings window, pictures `surfaces/settings.rs`, `capture.rs` | window, page, requests | open, close, capture | time-outs, late answers | the page is staged for the picture that is taken |
| Application `main.rs`, `tray.rs`, `platform/autostart.rs`, `commands/{update,legal}.rs` | autostart entry, marker, updater | start, toggle, update, quit | the user changes the entry behind the app | starts respect the user |

`PROJECT.json` has the list with the sources of each part, what is left out of it, and
every hazard at its line.

---

## 2. Modules

Each module holds one component: its state, one action per segment of a handler
between two points where another thread can act, and its properties, each after a
comment that says what it is about.  The map in `PROJECT.json` names the lines of
every definition.  Steps are cut at awaits, at the release of a lock, between two
changes on disk and between a read and the use of what was read; what runs
between two of these is one step.

| module | models | unit |
|---|---|---|
| `PluginSupervisor` | every path that starts, stops, replaces or deletes a plugin | all plugins, one actor per task |
| `PluginLifecycle` | one lifecycle task and what reaches it | one plugin |
| `PluginProcess` | processes, groups and pids under a run | all runs |
| `RpcTransport` | the tasks, channels and pipes of one run | one process |
| `RuntimeProvisioner` | the install lock, the attempt, its readers and waiters | all plugins |
| `StoreInstall`, `PluginStore` | every change on disk of an install; what the store promises | all plugins |
| `StoreFetch` | from the download to the verified folder | one install |
| `StoreCatalog` | refresh and blocklist against installs and the user | one plugin of the catalog |
| `StoreShelf` | what is offered, what is accepted | one plugin, one theme |
| `BundledSeed` | bundled plugins over starts and updates of the app | all bundled plugins |
| `PluginEvents` | a render from the bus to the two pages | one plugin |
| `ReloadReport` | tools that wait for a reload, and the log | one plugin |
| `ConfigThemes`, `ThemeLook` | the settings file and theme files; what a theme looks like | the config |
| `FontCache` | fonts on disk | one family |
| `ProviderHub` | samplers and subscriptions | all |
| `MediaSessions`, `SystemAudio`, `AudioPlayback` | players; the output; sounds of plugins | all |
| `Shortcuts` | pins, icons and the page | all pins |
| `OverlaySurface` | flyout, menu and tooltip in their window | one window |
| `Notifications` | popups, their owners and their window | all |
| `BarSurface`, `SurfaceFrames` | the bar's life; where windows go, as numbers | one bar |
| `LayerShellBar`, `AppBar`, `ClickThrough`, `MacReservation` | the three desktops | one bar |
| `SettingsCapture` | the settings window and pictures | all requests |
| `AppShell` | start, autostart, update, exit | one app |
| `MCCore`, `MCDesk`, `MCDisk`, `MCSurfaces` | one run over several modules that share no state: a variable says which moves | bounds |
| `MCPluginEvents`, `MCPluginLifecycle`, `MCRpcTransport` | instances for TLC | bounds, symmetry |
| `Core_`, `Disk_`, `Desk_`, `Messages_`, `Surfaces_`, `PluginSupervisor_`, `StoreInstall_`, `RpcTransport_proofs` | theorems, grouped as the runs are | every value of the constants |

The composition is by interface.  `PluginSupervisor` sees a lifecycle task as a
handle that is live or ended and that a stop joins after a bounded time.
`PluginLifecycle` opens that handle and sees the connection as "a run may fail
wherever it waits"; `RpcTransport` opens the connection and shows that requests end in
bounded time; `PluginProcess` opens what "killed" means.  `StoreInstall` calls
the supervisor's `replace_dir` and `remove`, whose interleavings with other lifecycle
paths are in `PluginSupervisor` (operations `replace` and `remove`) and whose disk
steps are spelled out in `StoreInstall`; its step `stage` is all of `StoreFetch`.
`StoreCatalog` has an install as "guard, then finish", `StoreShelf` has the guard.
`ThemeLook` takes a theme operation as one step, which `ConfigThemes` cuts open.

### Plugins

**PluginSupervisor.**  An *actor* is the boot scan, the folder loop, the config loop or
a user request.  `pc[a]` is where it is, `job[a]` its transition: the operation, the
plugin whose lock it takes and the handle it took out of the map.

| code | model |
|---|---|
| `lifecycle_guard`: `barrier.read`, cancelled?, mutex, cancelled? | `Enter`, then `Locked` in the guard of each `...Begin`, or `Refused` |
| body up to the first await | `RestartBegin`, `DeactivateBegin`, `ActivateBegin`, `ReloadRunning`, `ReloadIdle`, `RemoveBegin`, `ReplaceBegin` |
| `stop_handle(..).await` | state `stop`, left by `StopDone` |
| the rest | `UnloadEnd`, `DeactivateEnd`, `RemoveOk/RemoveFail`, `SwapOk/SwapFail` |
| `start_plugin`: manifest and entry checks, `activation::gate`, spawn and insert | `StartRejected`, `Gate`, `Insert` |
| `config_change_loop`, `reconcile` | `CfgRecv`, `CfgDrain`, `CfgResync`, `CfgDeactivate`, `CfgActivate`, `CfgApplied` |
| `dir_change_loop` | `DirTake`, `DirNext` |
| `shutdown_all` | `Cancel`, `Drain` (barrier.write), `StopDrained`, `ShutdownDone` |

`gate` and the insertion are two steps because the config is written under another
lock.  A broadcast is a queue of snapshots with an overrun flag.  A folder is what loading
can tell apart: present or not, manifest absent, broken or valid, entry file there or
not.  A handle that is overwritten in the map is counted in `orphans`: its task ends by
itself because its command channel closed, and nobody waits for it.

**PluginLifecycle.**  `phase` is prepare, init, serve, stopping, backoff or ended; `cmds` is
the command channel.  What a phase does with a command is one action per group of arms of
its `select!` (`TakeDown` while there is no process, `TakeAction`, `TakeSettings`,
`TakeShutdown` while serving).  `view` is what the process was told last.  Whether a run
lasted long enough to reset the failure count is a free choice for runs that reached
`serve`.

**PluginProcess.**  `procs` is what the system runs under each pid; `runs` is what each task
is at and the pid it holds.  `Prepared`, `SpawnNext` walk through the two uv steps and the
launch; `Cancelled`, `ServeEnds`, `Terminate`, `KillGroup`, `TimeOver` and `RunEnds` are the ways
out, `drop` included.  `Forks` and `Exits` are the system's.  `HasGroups` is FALSE on a
platform whose `Command` has no process groups.  Abstracted: processes that leave their group, the app's own
death; a killed process dies at once and orphans are reaped at once.

**RpcTransport.**

```
callers, serve --> out --> (writer) --> stdin --> plugin
serve <-- incoming <-- (readers) <-- stdout, stderr <-- plugin
```

Requests are named by their sender (`init`, `ping`, `stop`, one per caller); `ask[r]` is what
the sender knows, `pending` the map.  `serve` is where `run_once` and `serve` are: in
`select!`, or inside an arm waiting for room (`notify`, `reply`), for an answer (`init`,
`ping`, `stop`), for another service (`host`), for the exit (`grace`), or in the epilogue
(`reap`, `drain`, `flush`, `over`).  A line that a task holds while it waits for
room counts as one more line of the pipe it came from.  The plugin is a good peer that
answers what it reads; `Threaded` says whether it reads while it is blocked writing,
`MayHang` and `MayDie` what else it may do.  An answer longer than `MAX_LINE_BYTES` is no answer:
the reader discards it and hands on a note (`TooLong`), which takes its place among the unsolicited
lines.  With `Patient` timers expire only when nothing
else can move, so that a timeout shows a wait the core itself caused rather than a slow
scheduler; without it they may expire at any moment.  `Runnable` spells out when something can
move; that it is `ENABLED Prompt` is `ClockWaitsForAll`.

**RuntimeProvisioner.**  A caller is a plugin's task or the retry button.  `Begin`, `Load`,
`Share`, `UvMissing`, `StartUv`, `Collect`, `Timeout`, `Finish` are the segments of `ensure` and
`install`; `ReadLine` and `ReadStaleLine` are the tasks that read uv's output, of this attempt
and of interrupted ones; `HearReady`, `RetryDelayOver` the waits of `await_runtime`; `Stop`, `ObeyStop`,
`GraceOver`, `Abort` the stop of a plugin in the middle.  `attempts` only matters as "has it grown since c read it", which is `moved[c]`.

**PluginEvents.**  `Publish` changes cache and channel under one lock.  The channel keeps the
last `Cap` events; `unread` counts what each reader has not had.  `Track` is the status tracker;
`StartWatch`, `Settle`, `SettleWithFallback` a caller waiting for a reload; `ShellStep` the task
that forwards to the windows, with its lag, resync and the markers of `PluginDelivery`;
`BarStep` and `OverlayStep` the pages with their pulls, whose answers may overtake
emits.  The readers do not write what another reads, so `scene` chooses the one that is
followed.

**ReloadReport.**  A tool (`WriteFile`, `PluginReload`, `RestartPlugin`) asks for the events from
a point on, changes the folder, and waits (`Ask`, `Settle`, `SettleTimesOut`,
`AwaitFirstRenders`); `ReadLog` counts the warnings of this start.  `HandleChange` is the folder
watcher, later.  `AppendPluginLog`, `Rotate`, `CreateLog`, `WriteLog` are the three writers of the
log, of which the plugin's own keeps its file open over a rotation.  `WarnOnce` is
`PluginDiagnostics`: of the input it ignored the core tells each thing once per plugin, as long as smabar
runs, and at most `MaxDiagnostics` of them.  A report looks at the newest `ReadLimit` entries.

### What is installed

**StoreInstall.**  `dir`, `backup`, `staged`, `failed`, `receipts`, `journal` and `data` are the
disk; a folder is the version it holds and whether it was edited since.  The install task
goes through `stage`, `journal`, `lock`, `clear`, `out`, `in` or `fresh`, `load`, `save`,
`commit` and `settle`; a rollback goes the same way with `undo`; the removal task is beside
it.  Each step happens or fails (`MaxFaults`); a crash ends all tasks and keeps the
disk; the next start is `Replay`, `ReplayReceipts`, `ReplayClear` and `Sweep`, each of which
can be interrupted again.  Whether a new version starts (`settle`) is a free choice.

**PluginStore** has only `code` and `receipt` per plugin and three atomic steps.  The
refinement mapping is *what recovery would make of the disk now* (`AfterRecovery`): the
abstract install happens at the rename that puts the new folder in place, the abstract undo
at the reverse rename, and every other step, a crash included, is invisible.

**StoreFetch.**  `AskHost`, `Answer`, `Chunk`, `BreaksOff`, `StreamEnds`, `RenamePart` are the
download with its redirects and its limit; `OpenZip` and `LocalLayout` the two ways to find the
folder in an archive; `TakeEntry` one entry with every check in the code's order, `Prove` the
comparison with the listed hash.  An archive is a sequence of entries: the
listed tree in every order, other contents, modes and names, a link, a file where a
folder is, case twins, a size that lies, `..`, a second root, and each limit passed by
one.  A tree id stands for its set of files; a size is one unit per entry.

**StoreCatalog.**  A refresh takes its turn (`refresh_lock`), asks for the catalog and the
signature in two requests, writes cache files one by one, adopts, reads receipts, switches
plugins off and saves receipts.  The server publishes, or serves an older catalog, between any two;
the user toggles; an install runs its guard.  `Reboot` is a crash and a start.

**StoreShelf.**  Two codes judge the same facts: `Look` is `view.rs`, what the page shows and
offers; `InstallPlugin`, `InstallTheme`, `ImportZip` are the guards of `install.rs`, `themes.rs`
and `local.rs`.  Every install starts with the `Refresh` it needs (or ends there, `Unreachable`,
`Refuse`) and ends in what was written: a write of settings or receipts may fail, the file of a
theme comes before its receipt.  A folder on the disk is what was installed, edited or
not, or a link.  Their interleaving is StoreInstall's and StoreCatalog's, so each operation is one step.

**BundledSeed.**  `Examine` is `decide` for one plugin; `RemoveOld`, `OldRemoved`, `CopyNew`, `NewCopied`,
`CopyFails` the copy; `WriteState` comes after all plugins; `SweepData` follows.  `word` is what the user
did last.  Users edit only while nothing is being seeded.

### Settings, looks, sources

**ConfigThemes.**  `write` is a change that holds the config lock and is being written
(`CommitUpdate`, `FailUpdate`); `Edit`, `Settle`, `Reload` the user's edit, the debounce and the
reload with the hash of the last own write; `chain` and `loop` the broadcast and the loop that
paints the page; `CommandSteps` the commands of page, tools and store with the steps they
take; `Crash`, `Restart`.  Theme files change under `THEME_WRITE_LOCK`, one step each.

**ThemeLook.**  What a page paints is computed from the bundled theme, the drop-in, the
overrides and the settings, token by token of a small set, as `themes/` and the page do.
`Activate`, `SaveLook`, `Export`, `Import`, `HandEdit`, `DeleteTheme` on several installations of two
versions of smabar.

**FontCache.**  `EnsureAt` decides on the manifest and files, `Stylesheet`, `WriteFile`,
`WriteManifest` install under `INSTALL_LOCK`; releases, deletions, damage and crashes are free.

**ProviderHub.**  `Receive`, `Register`, `Replay`, `Recv` are a subscription's steps,
`PluginStops` its end; a sampler task is `Tick`, `CheckSample`, `PutInCache`, `Send`, `SampleFails`,
`SeesStop`.

**MediaSessions.**  A call connects, lists, reads player by player and acts; a wait for a
player takes no time or all of `METHOD_TIMEOUT` (`Expire`), and time passes in no other way.  On Windows
the calls are served in turn with a back-off (`BackoffOver`), on Linux each on its own.

**SystemAudio.**  The worker reads the default's name and then that output
(`ReadName`, `ReadOutput`), so that a switch in between shows; `dirty` is set when something
happens, taken before a sample; `Target`, `SetOutput` serve a command whose caller may have
given up.

**AudioPlayback.**  `Take`, `Control`, `Decode`, `Start` serve a request, `TakeMark` and `Sweep` look
after the tracks.  `counts` is what a plugin was told.  Checking and playing is one step.

**Shortcuts.**  `PinShortcut`, `Unpin`, `UpdateConfig` change pins under the config's lock;
`LoopTells` notifies and starts a download (`NoIcon`, `Truncate`, `Fill`, `Rename`,
`EmitIcons`); the page asks when notified (`Hear`, `GetShortcuts`, `Deliver`) and writes the whole
list back (`Reorder`); a write that is refused (`Rejected`) shows the list of before the drag again,
and `dock.rolledBack` remembers when that took back more than the drag.

### Windows

**OverlaySurface.**  A command is a record in `ops` whose step says what it does next:
`Pin`, `Stage`, `Deliver`, `Measure`, `TakeToken`, `Clear`, `Place`, `Show`, `Emit`.  The lifecycle
record is changed only under its lock; `paint` is the token that a reveal compares.  The
native window is asked for one thing at a time and in order; a reveal (`Finish`) waits for a paint for
as long as that takes.

**Notifications.**  One task of the host accepts, dismisses and sweeps; the page pulls
(`Fetch`, `Answer`, `Compare`, `ApplySnapshot`), measures, reports ends and closes its window.
`popupLog` counts how often a plugin was told.

**BarSurface.**  A relocation hides the bar and records what it waits for
(`PrepareEdge`, `PrepareMonitor`, `TellLayout`); the report that fits places it (`PlaceBar`,
`Claim`, `ShowBar`).  The page asks to hide or to be shown (`Hold`), in the order it notices
(`asked`), and `Reveal` serves the oldest request; `Glide` is the animation, `SettleReservation` the
reservation that waited for the reports to settle.  `blind` remembers that a relocation placed the
bar by a behavior it read before it slept, `overruled` that the failure of an older placement set the
relocation back over a newer one.

**SurfaceFrames** has the arithmetic: which frame the bar, a flyout, a tooltip, a menu or the
popups get for every arrangement of monitors of the bounds, and which strip X11 is told to
keep.  Popups keep the gap at the bar's edge and the inset at the other (`apart`).

**LayerShellBar.**  Every call becomes a task of GTK's main thread (`RunTask`); placing sets
margins to zero, moving sets one, reserving adds to what is there.  **AppBar.**  Every call of
Explorer is a record in `call`; messages come back before it returns; Explorer may refuse it,
end, start again or rescale the screen; the bar's window is pushed, put back and destroyed, with or without a
`Shutdown` before.  **ClickThrough.**  The hook's thread, the
window's thread and the watchdog with its polls, over a pointer that moves; the hook may
be denied, stick or be lost within a callback, reading the pointer and writing the style may fail.
**MacReservation.**  A worker's passes over windows of apps that are busy or late, the
frames it changed and from what.

**SettingsCapture.**  Two workers and the main thread over `settings_group`; one capture at a time
through `Wake`, `Emit`, `Reply`, `TakePicture`, `ReleasePage`, with the page's own stage.

**AppShell.**  `Initialize` registers smabar once; page, tray and timer read and change the entry
through `TakeLock`, `Apply`, `Confirm`, `Report`; `ways` are the three ways out of the process.

---

## 3. Runs

`tlc -config <run>.cfg <module>` repeats one.  Bounds are in the `.cfg` and in the MC module, where the
budgets are sets of records: each record says how often which event may
happen in one behaviour, so that interesting mixtures are explored without their
product.

| run | module | properties | distinct states |
|---|---|---|---|
| `sup_switch` | `PluginSupervisor`: 1 plugin, 1 request, 2 config writes, 1 disk edit, folder watch | `ConvergesWhenSettled`, `ShutdownLeavesNothing`, `OnlyActivationOverwrites` | 600 934 |
| `sup_fair` | the same without disk edits, fair | `ShutdownEnds`, `DeactivationTakesEffect` | 48 050 |
| `life_settings` | `MCPluginLifecycle`: 2 actions, 3 settings changes, 3 failures | `PluginSeesLatest`, `AnswersAreHonest` | 331 906 |
| `rpc_quiet` | `MCRpcTransport`: unsolicited lines fit the channel, patient timers, the plugin may hang or die | `AnswersArrive` | 677 674 |
| `rpc_fair` | one caller, one unsolicited line; hang, death and time-outs at any moment; fair | `PendingMatchesWaiters`, `CallsReturn` | 376 708 |
| `prov_fair` | `RuntimeProvisioner`: 1 plugin, the retry button, 2 stops, 1 change of the host; fair | `OneAttemptServesAll`, `EveryPluginIsServed` | 192 747 |
| `events_ui` | `MCPluginEvents`: bus, tracker, reload, bar and flyout; fair | `StreamMeetsCache`, `BarCatchesUp` | 235 428 |
| `disk` | `MCDisk`: install, fetch, seeding, fonts, looks, processes | `ImplementsPluginStore`, `ProofIsOfTheDisk`, `UsersWordStands`, `HandedFontsAreWhole`, `SharedLooksTheSame`, `NothingOutlivesTheRun` | 511 196 |
| `core` | `MCCore`: config and themes, pins, hub, catalog, media, output, playback | `ConfigCatchesUp`, `PageShowsPins`, `SamplersMatchSubscribers`, `BlockedIsOff`, `ActionsFindTheirPlayer`, `SnapshotCatchesUp`, `EveryPlaybackEndsOnce` | 1 885 951 |
| `surfaces` | `MCSurfaces`: overlay, popups, bar, frames | `RevealIsFresh`, `EndsAreTold`, `BarHoldsItsPlace`, `WindowsFit`, `StripIsTheBars` | 2 133 635 |
| `desk` | `MCDesk`: three desktops, store page, reloads, settings window, application | `StripIsWanted`, `LossIsNoticed`, `WindowsComeBack`, `EverythingSitsRight`, `OfferedIsAccepted`, `NoOutcomeMissed`, `StageSurvivesPicture`, `StartsRespectTheUser` | 1 820 731 |
| `store_receipt` (violation) | `StoreInstall`: 2 plugins, no crash, no fault, removals overlap installs | `ReceiptsMatchFolders` | to the counterexample |

### What each shows

* **`sup_switch`.**  Switches, folder edits, a restart, a removal or a replacement, the boot scan and a
  shutdown in every order on one plugin: once everything has settled, what runs is what
  config and disk ask for, unless the config loop's receiver was overrun; a shutdown leaves
  nothing; only a re-activation can start over a live instance.
* **`sup_fair`.**  No deadlock of barrier, locks and stops; a plugin that stays switched off stops.
* **`life_settings`.**  The re-push after `initialize` and the pushes dropped while there is no
  process fit together; an acknowledged action was handed over, a refused one was not.
* **`rpc_quiet`.**  While a plugin writes less than the channel holds, no answer that was
  written times out.
* **`rpc_fair`.**  Every caller gets an outcome whatever the core waits for, and the pending map has no
  entry nobody waits for.
* **`prov_fair`.**  Who queued behind an attempt shares it; under fair timers each plugin gets
  to its process once the runtime can be had, through stops, aborts and retries.
* **`events_ui`.**  A render is never in neither the snapshot nor the stream; the bar's page ends up
  with what the plugin rendered last, through lag, batches and a reload of the page.
* **`disk`.**  An install is atomic through crashes and errors, crashes of recovery included.  What was
  proved of an archive is true of the folder.  A bundled plugin the user edited or removed stays so.
  A font handed out is whole.  A shared theme looks the same to whoever imports it.  Nothing that a run
  started outlives it.
* **`core`.**  No edit of the settings is lost, the page shows the pins, a sampler runs exactly while somebody
  listens, a blocked version is off, an action reaches a player of its session's application, the
  snapshot of the output catches up, each playback is told to start and to end once.
* **`surfaces`.**  A window shows nothing that was superseded before it became opaque; the end of
  each popup is told once; the bar reserves and retracts what it should; every window
  lies on its monitor; the strip is the bar's.
* **`desk`.**  The strip each desktop keeps free is the one asked for; a lost hook is replaced;
  windows come back to their user's frames; what is offered is accepted; a wait hears the reload it
  caused; a picture is taken of the staged page; a start does not overrule the user.
* **`store_receipt`.**  A removal writes back receipts it read before another plugin was installed.

### Why these bounds

One plugin and one request suffice for mutual exclusion of lifecycle paths because four
actors (boot scan, two loops, request) compete for the same lock.  Two config writes let a
switch be undone while the first is applied; capacities of 1 to 3 stand for 16 and 64, the
smallest at which full, empty and in between differ.  Three failures show a reset between
two.  Two crashes let recovery itself crash; two installs make a backup that is older than
the transaction.  Two versions of a catalog let one overtake the other, two sessions let
a playback meet the end of another, two monitors have every way to lie beside one
another, two workers race for the settings window.  A budget names the mixtures that meet at one
hazard (a crash with an update, a switch of the output with a command), and each property
is violated by a mutant of the code under the same bounds (`PROJECT.json`, `mutants`); the passing runs
together take every action and every disjunct of the next-state relations.  Safety for any
number of plugins, requests, capacities, pids and sessions is proved where section 5 says so.

The modules of `MCCore`, `MCDesk`, `MCDisk` and `MCSurfaces` share no state, so exploring one at a
time loses no interleaving that could matter.

**Deadlock.**  Every run says `CHECK_DEADLOCK FALSE`: the bounded edits run out, and a
finished run, a stopped plugin or a program that has shut down has nothing left to do.  That
no one waits on another for ever is stated as liveness instead, or as an
invariant over the states in which nothing is left to do (`ConvergesWhenSettled`, `PageShowsPins`,
`SnapshotCatchesUp`, `StripIsWanted`).

### More to check by hand

The modules state more than the runs list.  These hold under the bounds of the run named;
put the name into its `INVARIANTS` or `PROPERTIES` line.

| run | part | hold |
|---|---|---|
| `sup_switch` | | `TypeOK` |
| `life_settings` | | `TypeOK`, `CrashLoopEnds` (PROPERTY) |
| `rpc_quiet` | | `TypeOK`, `ClockWaitsForAll`, `OutputReachesLog` (PROPERTY) |
| `rpc_fair` | | `TypeOK`, `ClockWaitsForAll`, `ExitIsNoticed`, `StopEnds` (PROPERTY) |
| `prov_fair` | | `TypeOK`, `ReadyIsInstalled`, `StopIsObeyed` (PROPERTY) |
| `events_ui` | | `StatusIsFiled`, `FlyoutIsCurrent` |
| `disk` | `install` | `NothingIsLost`, `RecoveryIsPossible`, `ReceiptsMatchFolders` |
| `core` | all | `CoreTypeOK` |
| `core` | `themes` | `DiskIsComplete`, `PageCatchesUp`, `DeletionSparesOthers` (PROPERTY) |
| `core` | `catalog` | `FreshIsServed` |
| `core` | `media` | `StaleManagerIsReplaced` |
| `surfaces` | `overlay` | `QuietMeansShown`, `PageHasFlyout`, `SparesNewClick` (PROPERTY) |
| `surfaces` | `popups` | `PageShowsRecords` |
| `desk` | all | `DeskTypeOK` |
| `desk` | `reload` | `CleanMeansClean` |
| `desk` | `shell` | `ControlsAgree`, `NobodyLeftBehind` |
| `desk` | `mac` | `NothingStaysCovered` |
| `desk` | `settings` | `OpenIsAwake`, `NothingStaysStaged` |
| `desk` | `clicks`, `ClickBudgets <- Faultless` | `ClickThroughNeedsHook` |

These instances take other constants than the runs:

| question | module | constants | result |
|---|---|---|---|
| two plugins share the barrier and the config snapshot | `PluginSupervisor` | 2 plugins, 1 config write, no folder watch | the safety properties of `sup_switch` hold, 678 670 states |
| removals overlap installs of another plugin, with a crash and a fault | `StoreInstall` | 2 plugins, `Overlap`, 1 crash, 1 fault | `NothingIsLost` holds, 2 315 890 states |

---

## 4. Fairness and time

| assumption | where | why the code justifies it |
|---|---|---|
| weak fairness of every task's next step, of timers, of the writer and readers | all fair specifications | tokio polls every runnable task; each `timeout` has a deadline |
| strong fairness of a supervisor transition (`Transition(a)`) | `PluginSupervisor` | it waits for a mutex and a read lock; tokio's are first come, first served |
| strong fairness of `TakeIncoming` (and of `Tick` in `PingSpec`) | `RpcTransport` | `select!` polls its arms in random order; an arm that is ready again and again is taken |
| a living plugin that does not hang reads and answers | `RpcTransport` | only then is a promise of the core about answers meaningful; `MayHang`, `MayDie` lift it |
| another service answers the serving loop (`HostAnswers`) | `RpcTransport` | a desktop request gives up after 8 s (`plugins/host.rs:68`); the audio sampler (`plugins/handlers.rs:211`) is assumed to answer |
| uv ends, timers of `await_runtime` expire | `RuntimeProvisioner` | `INSTALL_TIMEOUT` bounds it |
| the forwarding task and the bar's page take their steps | `PluginEvents` | a task and an event loop that nothing blocks |

Nothing is assumed of users, editors, the network, of plugins being started or stopped (their
number is bounded by `MaxStops`: with infinitely many stops, each aborting the install
in flight, no install would ever finish), or of a serving plugin failing.  A reader task needs
no more than weak fairness: what a dead plugin left in its pipes is finite.

**Time.**  A timer is the possibility of its expiry.  Where durations decide, they are counted
instead: `MediaSessions` counts what is left of a method's time, `ClickThrough` the polls since an
attempt, `ReloadReport` entries of the log.  What the models assume of order in time:

* what runs between two awaits is one step, and so is a tick of the animation;
* reports that sleep equally long keep their order, measures of a page arrive in order;
* popups are not enabled again before the next sweep, 100 ms later;
* a destroyed window's commands are through; a native call of the settings window takes effect when
  it is made; `bar_reply` resolves at once;
* native calls of the overlay fail at conceal and show only;
* the mouse hook is answered before the pointer moves (the system waits for it);
* setting a frame and reading it back is one step on macOS, and no user moves a window exactly onto
  the frame that was set;
* checking an audio file and playing it is one step; audio events mark the snapshot as dirty when
  they happen;
* font files are damaged only between installs, bundled plugins edited only while nothing is
  being seeded;
* theme files change in one step under `THEME_WRITE_LOCK`; `write_atomically` and `rename` are
  atomic, a crash falls between two changes on disk;
* in `SurfaceFrames` one window beside the bar is looked at at a time, and the reveal after a change of
  behavior is part of `TurnReserve`.

---

## 5. Proofs

`tlapm <Module>.tla` checks a proof module from nothing.  What is proved holds for every value
of the constants that the `ASSUME`s of the modules allow: disjoint names for actors and
requests, positive capacities, natural bounds, finitely many callers of the provisioner.  Budgets are
constants too, so no theorem depends on how often something happens.  Where a theorem assumes more, the
last column says what, and section 6 has the behaviour that the assumption keeps out.

| theorem | property | run | inductive invariant | assumes |
|---|---|---|---|---|
| `TypeCorrect`, `ProtocolCorrect` | types and protocol of the supervisor | | `IInv` | |
| `ShutdownLeavesNothingCorrect` | `ShutdownLeavesNothing` | `sup_switch` | `IInv` | |
| `OnlyActivationOverwritesCorrect` | `OnlyActivationOverwrites` | `sup_switch` | `IInv` | |
| `ConvergenceCorrect` | `ConvergesWhenSettled` | `sup_switch` | `IInv`, `LoopInv`, `OwedInv` | |
| `PendingCorrect` | `PendingMatchesWaiters` | `rpc_fair` | `PInv` of the transport | |
| `AnswersArriveCorrect` | `AnswersArrive` | `rpc_quiet` | `BaseInv`, `TravelInv` | `Patient`, `Quiet <= InCap` |
| `OutputLogged` | `OutputReachesLog` | | `BaseInv`, `FlushInv` | `Patient`, `Quiet < InCap` |
| `TransportTypeCorrect` | types of the transport | | `TInv` | |
| `OneAttemptCorrect`, `ReadyCorrect` | `OneAttemptServesAll`, `ReadyIsInstalled` | `prov_fair` | `PInv` of the provisioner | |
| `AnswersCorrect` | `AnswersAreHonest` | `life_settings` | `AnswersInv` | |
| `SeesLatestCorrect` | `PluginSeesLatest` | `life_settings` | `LatestInv` | |
| `StreamsMeetTheCache` | `StreamMeetsCache` | `events_ui` | `StreamInv` | |
| `NothingOutlivesCorrect` | `NothingOutlivesTheRun` | `disk` | `ProcInv` | `HasGroups` |
| `StoreIsAtomic` | `ImplementsPluginStore` | `disk` | `StoreInv` | `~Overlap`, `~EditsInside` |
| `RecoveryCorrect` | `RecoveryIsPossible` | | `StoreInv` | the same |
| `NothingLost` | `NothingIsLost` | | `StoreInv`, `KeptInv` | the same |
| `ReceiptsCorrect` | `ReceiptsMatchFolders` | | `StoreInv` | the same |
| `HandedFontsStayWhole` | `HandedFontsAreWhole` | `disk` | `FontInv` | |
| `UsersWordAlwaysStands` | `UsersWordStands` | `disk` | `SeedInv` | |
| `ProofsAreOfTheDisk` | `ProofIsOfTheDisk` | `disk` | `FetchInv` | `FoldersTell` |
| `LooksTravel` | `SharedLooksTheSame` | `disk` | `LookInv` | `TextIsDerived` |
| `PinsAreShown` | `PageShowsPins` | `core` | `PinInv` | |
| `PlaybackCorrect` | `EveryPlaybackEndsOnce` | `core` | `PlaybackInv` | |
| `SnapshotsCatchUp` | `SnapshotCatchesUp` | `core` | `AudioInv` | |
| `ActionsReachTheirPlayer` | `ActionsFindTheirPlayer` | `core` | `MediaInv` | |
| `SamplersCorrect` | `SamplersMatchSubscribers` | `core` | `HubInv` | |
| `BlockedVersionsAreOff` | `BlockedIsOff` | `core` | `CatalogInv` | |
| `EditsAreSeen`, `DiskStaysComplete` | `ConfigCatchesUp`, `DiskIsComplete` | `core` | `ConfigInv` | |
| `LossesAreNoticed` | `LossIsNoticed` | `desk` | `ClickInv` | |
| `StripsAreWanted` | `StripIsWanted` | `desk` | `AppBarInv` | |
| `EverythingComesToSit` | `EverythingSitsRight` | `desk` | `LayerInv` | `NoneIsLate` |
| `EdgesAreGivenBack` | `WindowsComeBack` | `desk` | `MacInv` | |
| `UsersChoiceStands` | `StartsRespectTheUser` | `desk` | `ShellInv` | |
| `StagesSurvive` | `StageSurvivesPicture` | `desk` | `CaptureInv` | |
| `OffersAreAccepted` | `OfferedIsAccepted` | `desk` | `ThemeIsFile` | |
| `OutcomesAreHeard` | `NoOutcomeMissed` | `desk` | `ReloadInv` | |
| `RevealsAreFresh` | `RevealIsFresh` | `surfaces` | `OverlayInv` | |
| `EndsAreToldOnce` | `EndsAreTold` | `surfaces` | `PopupInv` | |
| `WindowsAlwaysFit` | `WindowsFit` | `surfaces` | `FrameInv` | |
| `StripsAreTheBars` | `StripIsTheBars` | `surfaces` | `StripInv` | `FromTheCorner`, `OutAndAlone` |
| `BarKeepsItsPlace` | `BarHoldsItsPlace` | `surfaces` | `BarInv` | |

*`HasGroups`*: the platform has process groups.  *`~Overlap`*: a removal and an install exclude each
other, which the code does not ensure; *`~EditsInside`*: nobody writes into a folder while its
transaction is open, which a plugin can.  *`NoneIsLate`*: no deferred reservation comes for an edge the
bar has left (`LateEdge`).  *`FromTheCorner`*: the desktop begins at its upper left corner, as X11 has
it; *`OutAndAlone`*: the bar is out when it is told to keep windows out, and no monitor comes or goes around
such a bar (`BlindReserve`, `Replugs`).  *`TextIsDerived`*: users override other tokens than the
text's color, from which a page derives the text that no document says.  *`FoldersTell`*: where the disk ignores
case, no two folder names of an archive differ in case alone (`CaseServed`).  Each of them holds in the
instance and the budgets of the run that checks the property.

### The inductive invariants

**Supervisor.**  `TypeCorrect` needs `JobInv` (an actor has a transition exactly while it is under
way, and holds a removed handle only past the lock); without it a step that reads its
transition's plugin could not be typed.  The inductive invariant is

    IInv == TypeInv /\ LockInv /\ BootInv /\ EmptyInv /\ ShutdownInv

*LockInv*: two actors in a critical section have different plugins.  *BootInv*: until the
boot scan is over it is alone and starts a folder once.  *EmptyInv*: an actor past the
lock and its first step sees no entry of its plugin in the map, unless it is a
re-activation, the one operation that does not look.  *ShutdownInv*: after the drain
nobody holds the barrier and the map stays empty.  `ShutdownLeavesNothing` is not inductive,
since it says nothing of an actor about to insert.  `TransitionEffect` states once what any of
the nineteen steps of a transition may do, so that invariance reasons about one shape of
step.

`ConvergenceCorrect` needs to know of every state what it needs only of the settled ones: whatever
a plugin is out of step with, somebody is about to see to it (`OwedInv`).  *OffIsStopped*: a plugin that is
switched off and runs, or is about to be inserted, is still owed a stop (`OwesStop`) by the config loop: in
its list of ids, as its job up to the lock, or by a snapshot in the channel that differs from the one before.
*OnIsUnfiled* is its mirror (`OwesStart`).  *GoodIsKept*: a folder that can start is filed, runs, or a
scan, the folder loop or a transition has yet to come to it.  *GoneIsStopped*: an instance without a
manifest is owed a look.  For this the chain of snapshots must not break (`LoopInv`): the last one sent
is the config there is, and the loop moves from one to the next.  An overrun of the channel
breaks the chain, which is why the property excludes it (`everLagged`); a disk edit that nobody watches
breaks *GoodIsKept*.  The proof looks at a step from two sides: `FarStep`, any plugin but the one of
the transition, and `NearStep`, the plugin of the transition, of which the lock (`LockInv`) says that no other
actor can be in the middle of something with it (`OwedAlone`).

**Transport.**  `PendingMatchesWaiters` needs `LoopInv`: the serving loop issues its ping and
its shutdown only when the last one is over; otherwise a refused request would leave an entry
in the map with nobody waiting.

`AnswersArrive` speaks of a time-out that happened and of an answer that is still to be read, so its proof
has to exclude the answer before, at and after the time-out.  *TravelInv* follows a request on
its way: in `out`, in `stdin`, owed by the plugin, answered in `stdout`, once and in one of these
places only (`SentOnce`), and nothing of it is under way before it is sent or once it was answered
(`Way`).  *At* the time-out the clock was patient, so the reader could not move.  Then either there is nothing
to read, or what is first in `stdout` has no room in the incoming channel; but the channel is full only of the
plugin's own lines, of which there are at most `Quiet` (*BoundInv*, which counts the lines in the
pipe, in stderr and in the channel together), one of them the one without room: so
`Quiet > InCap`.  *After* the time-out no answer may be written any more, so a request times out
only if nothing of it is under way or nothing will ever move it, the plugin being dead or hung: a request in `out`
or `stdin`, or owed, is something that can move, unless the pipe behind it is full, which
leads to the same first line without room.  *EndInv* covers the end of the run, when stdout is read to its end
and the map was cleared.  `OutputReachesLog` needs one place more, for the end of stdout itself is reported
through the channel: then the readers are through when the drain gives up (*FlushInv*).  Both bounds are
tight: with `InCap = Quiet` TLC has a run that leaves a line behind, with `InCap < Quiet`
one in which an answer is not read (section 6).

**Provisioner.**

    PInv == Shape /\ OneHolder /\ HasOutcome /\ OneAttemptServesAll
            /\ SuccessIsInstalled /\ ReadyIsInstalled

*OneHolder* (one caller has the install lock) makes `moved` of the others the only thing an
ending attempt changes; *SuccessIsInstalled* and *HasOutcome* tie what a holder will publish to the
disk.

**Lifecycle.**  `AnswersInv` says of each action where it is: not sent, in the channel once, or
told.  Every step changes the channel in one of four ways (`Kept`, `Lost`, `Taken`,
`Put`), about which `QuietKeeps` and `ChannelKeeps` reason.  `LatestInv` is a chain from the
config to the process, each link of which may be in flight:

* *ChainInv*: the snapshots not yet received end in the current settings, and no two neighbours are equal;
* *PushedInv*: what the channel holds last is what was applied last;
* *ToldInv*: a serving process with nothing in its channel was told what was applied last.

It holds only while the config loop was never overrun, as the property says.

**Processes.**  `ProcInv == ProcTypes /\ RestHoldsNothing /\ NothingOutlivesTheRun`: a task at rest holds no
pid; with it each way out of a run shows that what it leaves behind is dead.

**Playback.**  `PlaybackInv == Shape /\ OneTrackPerKey /\ Balanced /\ OnAir`: each key has at most one
track, it was told to start exactly once more than to end while one is sounding, and what
sounds has the output that is open.

**Store.**  `StoreInv` says for each place of the install task what is on the disk: whose folder is in
place, what the backup holds, whether the journal is written, which receipts were read
(`Installing`); the same for a removal (`Removing`) and for the recovery (`Recovering`); outside
a transaction each folder has the receipt of its version (`HonestReceipts`); and a journal that
recovery would undo has what it takes (`HonestJournal`).  There is one lemma per
action (`...Keeps`) and one that tells what the action shows through the refinement mapping; `StepImplements`
puts them together: a step is the abstract install, the undo, the removal, or does not show.
`KeptInv` adds the history: for each plugin in `wanted`, recovery finds a folder and the data is
there, and what is about to be deleted is not in `wanted`.  A step that does not show keeps it as it is
(`UnseenKeeps`); the swap keeps it since the open transaction keeps the folder or its backup
(`OpenIsKept`), the sweep of data since it spares what has a folder.
`~Overlap` says that a removal and an install exclude each other, which the code does not ensure
(section 6, `RecoveryIsPossible`); `~EditsInside` that nobody writes into a folder while its transaction is open, which a
plugin can (section 6, `ReceiptsMatchFolders`).

**Events.**  *KeptForShell*: the channel holds what the shell has not received, unless it lags behind a full one.
With it every step extends, shifts or empties the events under way, and the property, a fold over
them, follows from lemmas on what `Recorded` does to a sequence: that it ends in the last render of each
slot (`RecordedEnds`), and that the batch the shell keeps is worth the events it has taken
(`HandledAll`).

**Output.**  *LookedAt*: while connected and not marked, what the worker has found so far is the
output as it is.  The mark is cleared before the worker looks, so a change in between marks again.

**Media.**  *StandsFor*: an id belongs to one application's player on Windows and is the player's own on
Linux.  *MediaCallFits* carries the id that was asked for through the steps of a call.

**Hub.**  *HubCounts*: the number at a configuration counts the live subscriptions to it;
*HasSampler*: exactly one task that was not told to stop samples it while that number is not zero.

**Catalog.**  *DecidesByWhatIs*: the receipt a refresh holds while it switches is the one on record; this
needs that refreshes take turns (`OneRefreshes`) and that an install waits for its own
(`InstallWaits`).  *DecidedIsOff* is the property with the moment of the decision excepted.

**Settings.**  *NothingUnseen*: a file that is not what smabar works with has an event or a debounce
waiting; *OwnWordStands*: what nobody touched is what smabar wrote last; *HashIsOfConfig* ties the hash
that suppresses the echo to the settings.

**Pins.**  *PageOwed*: a change in the channel, a notice, an icon fetched and not told, or a request under way
whose answer will be shown.  `PinInv` says that what the page shows is what is set or it is owed something:
the answer it waits for is right or news come after it (*AnswersFit*); a list on its way to the settings may be what the
page shows (*ListFits*), and as long as nothing was shown since, taking it back leads to a list of which the same
holds (*ReordersFit*).  *FillsFit*: a download that fills a temporary file which another one has renamed fills an
icon that is already there, so no icon comes without a notice.

**Fonts.**  *OnlyFetched*: while files are written the folder holds nothing but this install's;
*ManifestIsComplete*: a manifest names every face, of one release.

**Seeding.**  *WordStands* is the property for each plugin; *SeedsOthers* says that the plugin being
seeded is not one the user has changed, nor one they removed that the seed state still knows.

**Looks.**  *StandsFor*: a document that passes the strict reading says every token and every setting, with its
fonts canonical, and so nothing is left to what the installation ships; what was saved or exported is such
a document, and stays one as a file (*FilesStand*) and as the drop-in it becomes (*DropinStands*).  *FreshFits*: after an
activation nothing is laid over it.

**Downloads.**  *BeginsEmpty*: until an archive is opened the folder is empty, whatever an earlier attempt or a
crash left.  *Extracting*: from then on what was seen, hashed, counted and written are the entries so far: a file
lands where its entry says, since no earlier one has its name, folded, and folders are spelt one way.  *Streams*: if
nothing failed, what is opened is the whole archive.  A refusal then names an entry or a limit by which the archive
is not `Sound` (the running total is the partial sum, since each entry adds its size).

**Mouse hook.**  *AttemptsEnd*: the watchdog waits exactly while the hook's thread attempts;
*MissesAreCounted*: what was missed is bounded by the polls that were counted.

**Windows strip.**  *GrantedCallsFit*: as long as Explorer granted every call, the call under way is about
the strip that is wanted and the registration there is; *WindowComesBack*: a window off its place has a
message or a call that puts it back.

**Linux bar.**  Tasks wait for GTK's main thread, so no state of the screen need be right.  `LayerInv` says
that the tasks that wait lead from the screen there is to one that fits (`Leads`), by as much as the
report under way has asked for already (`Fits`).

**macOS strip.**  *HeldFor*: what a window under correction would be given back is its user's frame, or
it has been given another since; *LeftAlone*: a window that is not held has it.

**First start.**  *DecidedAfterMarker*: the marker is on disk before anyone's choice is applied.
*StartsAlone*: workers run only after the tray is set up.

**Pictures.**  Ids are given out in order and events arrive in order: while the core waits, the request
under way is the last event there is (*LastOfAll*), and so nothing is staged after it.

**Store page.**  The two codes are compared case by case; the one fact about the past they need
is that a theme is a file and no link (*ThemeIsFile*).

**Reloads.**  *CallHears*: a call listens since before it changed anything, so an outcome is among the
events from then on, or the status it falls back to is older than its change (*FallsShort*).

**Overlay.**  *TokensAreHonest*: a token that is still current was taken after the last stage, so the state
read after it knows that content.

**Popups.**  *IdsAreOwn*: an id is one record's or was announced; *LogFits* bounds ids by what may still be
shown.  `EndsAreTold` counts, and is inductive with them.

**Frames.**  Each operator has a lemma that says what it returns for any rectangles (`Clamp`, `Union`,
`AnchoredFrame` ...); `FrameInv` adds to the property only that the bar lies in its monitor's area
(*Docked*).  `StripInv` says that the strip is `StrutFor` of the bar as it is.

**Bar.**  The config loop, the page and the commands that sleep run beside each other, so nothing need be right
before they rest; `BarInv` says of each value what is still to come for it.

* *Chain*, *IsTold*: the changes follow one another, the loop has one in hand at most, and what the page was told
  last is what the loop has handled.  If nothing the page will hear differs from what it shows, it is at
  the config (`Agreement`), and no change of an edge is left to prepare.
* *Reports*: what the page sent last is what it measures, unless a new context makes it measure again; what it asked
  last is what it wants.
* *Generations*: of the reports that wait to place the bar each has its own number, a claim is older than every
  placement, and a relocation stays while one waits; so the newest is placed last.  *Relocates*: a
  relocation is to the config's edge, unless a change is left to prepare or a failure overruled it.
* *SpaceOwed*, *FrameOwed*, *RevealOwed*, *OffsetOwed*: the space, the frame and the offset are right, or the newest
  placement, deferred reservation, question or animation will set them, or news are to come.

Two things were found to be false on the way, and are in section 6: an older placement that fails to
show overrules a newer relocation (`SpaceIsAsReported`), and a placement goes by the behavior it read before it
slept (`BarIsAsAsked`).  The theorem names both.

### Only model-checked

* Liveness (`ShutdownEnds`, `DeactivationTakesEffect`, `CallsReturn`, `EveryPluginIsServed`,
  `BarCatchesUp`) is out of the prover's reach.
* That the patient clock of `RpcTransport` waits for everything that can move: `ClockWaitsForAll` compares
  `Runnable`, which the theorems use, with `ENABLED`, which the prover does not know.
* What section 3 lists to check by hand, except `ReadyIsInstalled`, `DiskIsComplete`, `OutputReachesLog`,
  `RecoveryIsPossible`, `NothingIsLost`, `ReceiptsMatchFolders`.

---

## 6. Disagreements

What the code does and what a comment, a doc or a test says of it differ in the places
below.  `store_receipt` is a run and a finding.  For the others, name the property in the `.cfg`
given (as an INVARIANT if nothing else is said), set `Movers`, `DeskMovers`, `DiskMovers` or `Parts` to the
part given, change the constants given, and TLC ends with the behaviour.  The passing runs state the
neighbouring properties with the case excluded and named, in the property or in the instance
(`everLagged`, `Quiet`, `Overlap`, `EditsInside`, the budgets), so that what does hold is checked.

### Plugins

| property | instance | code | against |
|---|---|---|---|
| `DeactivatedLeavesNoTiles` | `sup_switch` without disk edits | `plugins/activation.rs:162`: switched off while a restart has it between stop and start, the gate files it and no Removed follows | `activation.rs:173`, `src/shell/src/ipc/bridge.ts:241` |
| `ConvergesAfterLag` | `sup_switch`, `QueueCap = 1`, 3 config edits | `plugins/watcher.rs:191`: a plugin filed while it was off stays filed: the snapshot that switched it off is lost and the current config equals the one applied last | `watcher.rs:173-175`, "converge once on ConfigWatcher's authoritative current value" |
| `ShutdownWaitsForAll` | `sup_switch`, 1 config edit | `plugins/supervisor.rs:416`: a re-activation inserts over a live handle, whose task nobody joins | `supervisor.rs:281-282`, "waits until they are gone" |
| `GoneFoldersAreForgotten` | `sup_switch` | `plugins/watcher.rs:269`: a folder that goes while its plugin is both filed and registered takes the first branch | `watcher.rs:273-274`, "it has to stop being listed as installed" |
| `PluginSeesLatestAfterLag` | `life_settings`, no action, `QueueCap = 1`, 5 edits | `plugins/runner.rs:370`: an overrun hides a change from the difference the loop pushes | `runner.rs:357-360`, "never keeps serving a stale state" |
| `BusyMeansNotAccepted` | `life_settings`, 1 action, 2 failures, 1 edit | `plugins/supervisor.rs:271`: the caller times out, the command is still in the channel | `plugins/mod.rs:129`, "did not accept the action" |
| `AnswersArrive` | `rpc_quiet`, no caller, `InCap = 2`, `Quiet = 4`, `Threaded` | `plugins/runner.rs:344`, `rpc.rs:226`: the loop waits for an answer without draining the channel; the reader waits for room with the answer behind it | `commands.rs:1-2`, "The reader stays free while a caller waits" |
| `OutputReachesLog` | `rpc_quiet`, no caller, `InCap = 2`, `Quiet = 4`, as PROPERTY | `plugins/runner.rs:274`: more lines than the channel holds are not drained while the readers are awaited | `runner.rs:272-273`, "must reach the plugin log" |
| `ClosedIsReported` | `rpc_quiet`, no caller, `InCap = 2`, as PROPERTY | `plugins/rpc.rs:101`: a request inserted after `fail_all` waits for its time-out | `rpc.rs:68-69`, "the waiters see Closed" |
| `CallsDontBlockPing` | `rpc_quiet`, 2 callers, `MaxPending = 2`, neither hang nor death | `plugins/runner.rs:421`: 32 commands in flight make the ping Busy, which ends the run | `src/sdk/python/tests/test_commands.py:1`, "without blocking nested host replies or ping" |
| `HangIsNoticed` | `PingSpec`, no caller, `InCap = 1`, `Quiet = 1`, `Threaded`, `MayHang`, impatient, as PROPERTY | `plugins/rpc.rs:128`: a notification waits for room without a time-out, so the ping never comes | `plugins/mod.rs:7-8`, "periodic ping" |
| `InstallingMeansRunning` | `prov_fair`, `Spec`, 2 plugins, no retry, no flips | `plugins/provision.rs:207`: an aborted caller takes its install with it, the status stays Installing | `provision.rs:65`, `:68` |
| `OutcomeIsShared` | the same | `plugins/provision.rs:267`: a stale reader overwrites Failed with Installing before the waiter reads it | `provision.rs:8-9`, "its outcome, Ready or Failed, is shared" |
| `OnlyOwnAreStruck` | `disk`, `procs` | a child is reaped, its pid given anew, and `drop` sends killpg to it | `platform/mod.rs:180-181` (core), "a stale pgid returns ESRCH instead of touching an unrelated group" |
| `NothingOutlivesTheRun` | `disk`, `procs`, `HasGroups = FALSE` | without groups only the process itself is killed | `plugins/process.rs:35`, "uv build subprocesses must not outlive the plugin" |
| `SubscribersAreCurrent` | `core`, `hub`, `HubBudgets <- Resubscribes` | `providers/hub.rs:94`: a sampler past its check publishes after its successor | the cache is "the last event" of its configuration |
| `StartupLosesNothing` | `events_ui`, as PROPERTY | the answer to a pull, computed before an emit, arrives after it and overwrites it | `src/shell/src/ipc/bridge.ts:137`, "startup cannot lose or overwrite a newer event" |
| `OutcomeIsOfThisWrite` | `desk`, `reload`, `ReloadBudgets <- TwoWrites` | a start that is still under way ends first and is taken for the answer | `mcp/plugin_tools.rs:94`, "the reply waits for the outcome" |
| `IgnoredInputIsReported` | `desk`, `reload`, as PROPERTY | `plugins/logfile.rs:85`: what the core ignored and has told of once it does not tell again after a restart, so the next start, no better, is reported as clean | `mcp/plugin_tools.rs:98`, "count 0 is a clean start" |
| `CleanMeansClean` | `desk`, `reload`, `ReadLimit = 1`, `ReloadBudgets <- ManyLines` | `mcp/plugin_reload.rs:130`: a report looks at the newest 400 entries, the plugin's own among them, and misses a warning before these | `mcp/plugin_reload.rs:222`, "an agent must not miss" |
| `TwoFilesBoundTheDisk` | `desk`, `reload`, `ReloadBudgets <- LongLog` | the task keeps a file that another writer moved aside | `plugins/logfile.rs:229`, "Two files bound the disk" |

### Store, seeding, settings, looks

| property | instance | code | against |
|---|---|---|---|
| `ReceiptsMatchFolders` | `store_receipt` | `store/receipts.rs:146`: `forget_plugin` does not take the receipts lock | `store/mod.rs:132`, "Read-modify-write cycles of `installed.json`." |
| `RecoveryIsPossible` | `disk`, `install`, 2 plugins, `Overlap`, 1 crash | `plugins/remove.rs:130`: the check for an open transaction comes before the deletion, with no lock in between | `store/mod.rs:130`, "One install, update or removal at a time." |
| `ReceiptsMatchFolders` | `disk`, `install`, `EditsInside`, no fault, 1 crash, 1 edit | `store/journal.rs:127`: a new version that wrote into its folder before the crash is taken for the old one | `journal.rs:6-7`, "either the new version (its digest matches the new receipt), the old one, or missing" |
| `ProofIsOfTheDisk` | `disk`, `fetch`, `Archives <- CaseServed`, `Listed <- CaseTree`, `MaxFiles 3`, `MaxDirectories 2`, `MaxTotalBytes 5` | folders whose names differ in case are one folder on a disk that ignores case | `store/archive.rs:122`, "returns the proof of what was written" |
| `UserChoiceStands` | `core`, `catalog`, `CatalogBudgets <- UserChooses` | the blocklist marks a plugin the user switched off meanwhile, and lifts it later | `store/receipts.rs:70`, "A user's own deactivation is never undone" |
| `StoreLetsGo` | `desk`, `shelf`, `ShelfBudgets <- UpdatesBlocked` | an update to a version that is not blocked drops the mark of the block and not the deactivation | `store/receipts.rs:70` |
| `OffIsExplained` | `desk`, `shelf`, `ShelfBudgets <- ImportsBlocked` | a ZIP imported over a version the store switched off drops the receipt that would undo it | `plugins/remove.rs:220`, `store/receipts.rs:70` |
| `ShownIsInstalled` | `desk`, `shelf`, `ShelfBudgets <- CommitMoves` | only the version is compared; another commit of the same version is installed unseen | `store/mod.rs:240`, "a listing that moved since is refused" |
| `PageKnowsLinks` | `desk`, `shelf`, `ShelfBudgets <- LinksFolder` | a folder that is a link is missed by the page and found by the guard | `store/view.rs:263` against `install.rs:241` |
| `StoreSparesLocalThemes` | `core`, `themes`, `ThemeBudgets <- SaveInstalled`, as PROPERTY | a theme saved while the store's file is fetched is overwritten | `store/error.rs:107` |
| `NothingReturns` | `disk`, `seed` | the state is written after all plugins: a start that ends before forgets what it installed, and a plugin the user then removes comes back | `plugins/seed.rs:361`, "Losing the baseline only costs a confirmation later" |
| `GoneMeansRemoved` | `disk`, `seed` | an update that failed between removal and copy is taken for a removal | `plugins/seed.rs:56` |
| `DataOutlivesUpdates` | `disk`, `seed` | the same, after which the sweep takes the data | `main.rs:295` |
| `ActiveThemeExists` | `core`, `themes`, `ThemeBudgets <- TwoDeletions` | a deletion that finds its file already deleted by another restores the theme as the active one | `commands/themes.rs:229-235` |
| `PaintedIsCurrent` | `core`, `themes`, `ThemeBudgets <- ImportPainted` | the loop reads the theme before it emits; an import in between is painted over | `commands/themes.rs:279-280` |
| `SharedLooksTheSame` | `disk`, `look`, `Overrides <- TextChoices` | a saved look loses what the page derives from an override | `commands/themes.rs:183`, "the bar keeps looking identical" |
| `ShownCanBeExported` | `disk`, `look` | what is activated is parsed tolerantly, what is exported strictly | `themes/mod.rs:210` |
| `CachedCanBeHad` | `disk`, `fonts` | the list looks at the manifest and not at the files: a damaged file is found out only when the family is asked for | `fonts/mod.rs:241-249` |
| `IconsAreWhole` | `core`, `pins` | two downloads of one site share the temporary file | `src/crates/smabar/src/icons.rs:225` |
| `ReorderKeepsPins` | `core`, `pins`, as PROPERTY | the page writes the list it knew back | `config/watcher.rs:213-216` |
| `RejectionRestores` | `core`, `pins` | a rejected reorder shows the list of before the drag again, over an answer that came during the write | `ShortcutZone.tsx:33-34`, "restored when the write is rejected" |

### Media and sound

| property | instance | code | against |
|---|---|---|---|
| `NextRequestIsFresh` | `core`, `media` | a manager that goes stale may fail two requests | `platform/media/winrt.rs:65` against `:91-92` |
| `InTimeUnlessWedged`, `TimedOutIsOver` | `core`, `media`, `MediaBudgets <- SlowPlayers` | several slow players within their bounds add up; the action is done after its caller was told it timed out | `platform/media/windows.rs:20-22`, "This only ever fires for a wedged thread" |
| `TheVeryPlayer` | `core`, `media` | two players of one application swap ids | `platform/media/gsmtc.rs:80` names it |
| `TimedOutChangedNothing` | `core`, `audio` | a command whose caller gave up is still carried out | `platform/audio/linux.rs:300-306` |
| `ErrorsAreTheirOwn` | `core`, `playback`, `PlaybackBudgets <- FailsLate` | the output fails while the worker closes it; the sweep of the next output takes the mark | `src/crates/smabar/src/platform/audio.rs:296`, `:326` |

### Windows

| property | instance | code | against |
|---|---|---|---|
| `PageHasActive` | `surfaces`, `overlay` | messages of menu and tooltip carry no generation; a late one replaces the newer | `surfaces/menu.rs:64-67`, `:142-146` |
| `GraceIsHonoured` | `surfaces`, `overlay`, `Budgets <- FocusTwice`, as PROPERTY | two losses find the same focus generation: the grace of the first closes although focus came back in between | `surfaces/lifecycle.rs:44-47` |
| `AcceptedHasWindow` | `surfaces`, `popups` | a popup of the older protocol leaves the page empty, which closes its window before it pulled the accepted one | `desktop.rs:171`, "Build the native surface before accepting" |
| `NothingHeldBack` | `surfaces`, `popups` | a popup of the older protocol is held after the flag was read and before it is set | `surfaces/notifications.rs:24-43` |
| `MonitorIsConnected` | `surfaces`, `bar` | the monitor is unplugged between decision and use | `surfaces/monitor.rs:1` |
| `BarComesBack` | `surfaces`, `bar`, `BarBudgets <- EdgesFail` | an older placement that fails to show sets the relocation back to its own edge, over a newer relocation | `surfaces/bar.rs:265` |
| `SpaceIsAsReported` | `surfaces`, `bar`, `BarBudgets <- EdgesFail` | after the same failure a newer report places the bar at once, while an older one for the newer relocation still sleeps, places it later and reserves its own size | `surfaces/bar.rs:265` |
| `BarIsAsAsked` | `surfaces`, `bar`, `BarBudgets <- BehaviorAsItMoves` | a relocation places the bar with the behavior it read before it slept; the later report has the same frame and moves nothing, so a bar that should hide stays out until the pointer comes | `surfaces/bar.rs:57-70`, `commands/bar_geometry.rs:41-66` |
| `StripIsTheBars` | `surfaces`, `frames`, `FrameBudgets <- BlindReserve` | from auto-hide to reserve while retracted, the strip is computed from the retracted position | `surfaces/bar.rs` (`placed_frame`), `commands/config.rs:413` |
| `StripIsTheBars` | `surfaces`, `frames`, `FrameBudgets <- Replugs` | a replug that moves no bar does not set the strip anew | `platform/linux/strut.rs`, "refuse instead of wrecking the neighbour monitor's layout" |
| `PopupsSpareNotice` | `surfaces`, `frames` | popups at the top and a notice get the same place | `surfaces/notifications.rs` |
| `RestartRestores` | `desk`, `appbar`, `AppBarBudgets <- ExplorerRestarts` | the strip is only asked for when it differs from before the restart | `platform/windows/native/taskbar.rs:98-101` |
| `DeadHookIsInteractive` | `desk`, `clicks`, `ClickBudgets <- LostAgain` | a hook installed again counts as available before it has reported anything | `platform/windows/hit_test/hook.rs:372` |
| `RoutingIsCurrent` | `desk`, `clicks` | a new shape that overlaps a move is applied to the place before it | `platform/windows/hit_test.rs` |
| `EverythingSitsRight` | `desk`, `layer`, `LayerBudgets <- LateEdge` | a deferred reservation comes after the bar left the edge | `surfaces/bar.rs` (`defer_bar_reservation`) |
| `LateComesBack` | `desk`, `mac` | a window whose app finishes its resize late is given up when the edge is released | `platform/macos/reservation.rs` |
| `ShownMeansOpen`, `OpenIsShown`, `BarKnowsSettings` | `desk`, `settings`, `SettingsBudgets <- Racing` | `settings_group` is set under a lock that is not held while the window is shown or hidden | `surfaces/settings.rs` |
| `VisibleIsAwake` | the same | the restore after a picture puts a window to sleep that was raised meanwhile | `surfaces/settings.rs` |
| `ToggleDoesAsShown` | `desk`, `shell`, as PROPERTY | the tray reads the entry and turns it, whatever the mark said when it was clicked | `tray.rs` |
| `FailedUpdateKeepsPlugins` | `desk`, `shell` | the plugins are stopped before the update is started | `commands/update.rs` |

---

## 7. Behaviour worth knowing

No comment promises otherwise, so these are no disagreements; the modules have them as behaviours, or
they were met while reading.

**Settings and themes**

* A theme the store blocks is replaced by `default` in two steps (`store/refresh.rs:302-337`): a theme the
  user activates between the comparison and the change is replaced as well.
* `delete_theme_file` switches away, deletes and switches away again.  If the theme was activated in between
  and the second switch fails to save, or the app ends before it, the config names a file that is gone.
* An external edit within the debounce is overwritten by the next `update()`.
* `reconcile_blocklist` saves the receipts it read and so brings back that of a theme deleted in between.
* An import over the active theme repaints its tokens and does not apply its settings.
* `icon_uri` of the shortcuts may put a picture back into the cache after a refresh cleared it.

**Store and seeding**

* An install writes a receipt made from the one it read at its guard: a `reconcile_blocklist` in between
  loses its marks.  The next refresh sets the block again, not `deactivated_by_store`.
* A crash between the config write and the save of the receipts loses `deactivated_by_store`: the plugin
  stays off after its block is lifted.  So does a local ZIP over a plugin the store switched off.
* `detail()` reads the two catalog listings one after the other and may mix two refreshes (`store/refresh.rs:374-430`);
  a 304 confirms whatever catalog is cached.
* A folder that is removed by hand leaves its deactivation in the config.
* A theme update overwrites the user's edits of the file.
* A refresh inside an install does not sweep receipts of plugins whose folder is gone.

**Plugins and logs**

* A broadcast that lags is logged as a warning and resynchronised only by listeners that do so themselves.
* Two writers that rotate a log at once lose one generation.
* Audio events are sent by separate tasks and may reach the plugin out of order; the history of finished
  playbacks ends at 64.

**Windows**

* A reservation released while Explorer is down comes back with Explorer; one made while it is down is
  lost.  A first registration that Explorer's end cuts leaves `registered` set (`AppBar`).
* If the marker of the first start cannot be saved, a later start enables autostart over what the
  user chose since (`AppShell`).

---

## 8. Not modelled

A component is called `partly` in `PROJECT.json` when an operation of it, or a part of its state, is
left out; only the provisioner is complete.

| left out | why |
|---|---|
| contents: messages, manifests, fields of the config, texts of the store, bytes of ZIP, gzip, SHA-1, signatures, pictures | no property here tells them apart; the models keep the verdict (broken or valid, same or other) |
| a manifest whose id differs from the name of its folder (`plugins/supervisor.rs:198`) | it doubles every map of the supervisor; the sources reject it at install and leave it to hand-made folders |
| rounding of scale factors | `SurfaceFrames` counts in whole logical units; the code rounds in the toolkit's types |
| compositor, X server, Win32, AppKit, Accessibility, uv, network, browser engine | external: each is what the code relies on and no more |
| translations, legal texts, embedding, opening of links, logging | lookup and I/O |
| X11 calls, macOS audio, decoding of sounds, reading of samples | calls with one result |
| launching programs, file dialogs, discovery of programs | I/O without state of its own |
| bundled plugins, the UI kit, the plugin guide, CI, release scripts | content and tooling |
| processes that leave their group; the death of the app with its plugins alive | the system's business; `PluginProcess` is about one life of the app |
| durations, except where section 4 names them | timers are nondeterministic |
| torn writes | `write_atomically` renames |

Abstractions inside the modules, each of which a reader should hold against the code:

* `StoreFetch` counts one unit of size per entry of an archive; a tree id stands for the set of files it
  proves.
* `StoreShelf` takes each operation as one step; their interleavings are in `StoreInstall`,
  `StoreCatalog` and `ConfigThemes`.
* `OverlaySurface` lets a page report a measure only in the state `Running`, since the page that
  reports it is the one the record is about.
* The settings page's listener of the autostart entry is there from the moment the page opens.
* `MacReservation` has one window per application.
* `ReloadReport` writes the warnings of one writer at a time, and leaves out the refusals of a manifest by
  `plugin_write_file`.
* `BundledSeed`, `StoreInstall` and `PluginSupervisor` each see the same folder, at three grains; no
  run composes them.

---

## 9. What could come next

* If `forget_plugin` takes the receipts lock and removals take `install_lock`, `StoreIsAtomic` without
  `~Overlap`.
* The manifest id that differs from its folder, as a constant map from folders to ids.
* Two plugins in `PluginEvents`, for the order of their batches.
