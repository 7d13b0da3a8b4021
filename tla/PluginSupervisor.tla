--------------------------- MODULE PluginSupervisor ---------------------------
(***************************************************************************)
(* The plugin supervisor of smabar-core: every path that starts, stops,    *)
(* replaces or deletes a plugin's lifecycle task.  Source:                 *)
(* plugins/{supervisor,lifecycle_guard,activation,watcher,remove,replace}.rs*)
(* under src/crates/smabar-core/src.                                       *)
(*                                                                         *)
(* The actors are the boot scan, the folder watcher (dir_change_loop), the *)
(* config subscriber (config_change_loop) and user requests (restart,      *)
(* remove, replace_dir, arriving on other threads).  A transition is cut   *)
(* where another thread can get in: waiting for the barrier, for the lock, *)
(* for the old process, and between the activation gate and the insertion  *)
(* into the plugins map.  A plugin's folder bears the plugin's id, as the  *)
(* plugin guide demands.                                                   *)
(***************************************************************************)
EXTENDS Naturals, Sequences

CONSTANTS Plugin,          \* plugin ids, which are also folder names
          Request,         \* user requests; each runs one operation
          Boot, Dir, Cfg,  \* the boot scan and the two background loops
          NoPlugin,
          HotReload,       \* whether the OS folder watch could be created
          QueueCap,        \* capacity of the config broadcast channel (16)
          MaxConfigEdits,  \* bound: changes of the config from outside
          MaxDiskEdits     \* bound: edits of plugin folders from outside

Actor == Request \cup {Boot, Dir, Cfg}

ASSUME ActorAssumption ==
    /\ NoPlugin \notin Plugin
    /\ Boot # Dir /\ Dir # Cfg /\ Cfg # Boot
    /\ Request \cap {Boot, Dir, Cfg} = {}

ASSUME BoundAssumption ==
    /\ HotReload \in BOOLEAN
    /\ QueueCap \in Nat \ {0}
    /\ MaxConfigEdits \in Nat
    /\ MaxDiskEdits \in Nat

VARIABLES
    off,       \* pluginsDeactivated in the current config
    queue,     \* config snapshots the config loop has not received
    lagged,    \* the config loop's receiver has been overrun
    everLagged,\* history: it has been overrun at least once
    applied,   \* the config the loop last applied
    next,      \* the config it is applying
    toOff,     \* reconcile: ids still to deactivate
    toOn,      \* reconcile: ids still to activate
    mode,      \* the config loop: waiting, re-reading the config, applying
    disk,      \* each plugin folder, as manifest loading sees it
    dirty,     \* folder events the watcher loop has not picked up
    batch,     \* folders of the debounced burst still to apply
    unscanned, \* folders the boot scan has not reached
    handles,   \* the plugins map: no entry, or its task running or ended
    orphans,   \* running tasks whose handle was overwritten, per plugin
    drained,   \* handles shutdown_all took out of the map
    filed,     \* ids in the deactivated map
    tiles,     \* ids with renders in the UI cache
    pc, job,   \* where each actor is, and in which transition
    stage,     \* shutdown_all
    edits      \* bound counters

configVars == <<off, queue, lagged, everLagged>>
loopVars   == <<applied, next, toOff, toOn, mode>>
diskVars   == <<disk, dirty>>
scanVars   == <<batch, unscanned>>
taskVars   == <<handles, orphans, drained>>
viewVars   == <<filed, tiles>>
actorVars  == <<pc, job>>
vars == <<configVars, loopVars, diskVars, scanVars, taskVars, viewVars,
          actorVars, stage, edits>>

--------------------------------------------------------------------------------
\* What a folder can look like to PluginManifest::load, manifest_start_error
\* and is_dir: no folder, or a folder with or without a manifest that parses
\* and with or without the entry file.

Folder == { d \in [present  : BOOLEAN,
                   manifest : {"none", "broken", "valid"},
                   entry    : BOOLEAN] :
              ~d.present => d.manifest = "none" /\ ~d.entry }
Gone == [present |-> FALSE, manifest |-> "none", entry |-> FALSE]
Good == [present |-> TRUE, manifest |-> "valid", entry |-> TRUE]

Handle == {"none", "live", "ended"}

Ops == {"boot", "restart", "reload", "unload", "deactivate", "activate",
        "remove", "replace"}
PCs == {"idle", "barrier", "lock", "stop", "resume", "start", "insert", "done"}

\* A transition: its operation, the plugin whose lock it takes and the handle
\* it removed from the map ("live" until stop_handle has joined the task).
Job   == [op : Ops, id : Plugin, victim : Handle]
NoJob == [op |-> "none", id |-> NoPlugin, victim |-> "none"]

TypeOK ==
    /\ off \in SUBSET Plugin
    /\ queue \in Seq(SUBSET Plugin)
    /\ lagged \in BOOLEAN
    /\ everLagged \in BOOLEAN
    /\ applied \in SUBSET Plugin
    /\ next \in SUBSET Plugin
    /\ toOff \in SUBSET Plugin
    /\ toOn \in SUBSET Plugin
    /\ mode \in {"recv", "resync", "apply"}
    /\ disk \in [Plugin -> Folder]
    /\ dirty \in SUBSET Plugin
    /\ batch \in SUBSET Plugin
    /\ unscanned \in SUBSET Plugin
    /\ handles \in [Plugin -> Handle]
    /\ orphans \in [Plugin -> Nat]
    /\ drained \in [Plugin -> Handle]
    /\ filed \in SUBSET Plugin
    /\ tiles \in SUBSET Plugin
    /\ pc \in [Actor -> PCs]
    /\ job \in [Actor -> Job \cup {NoJob}]
    /\ stage \in {"up", "cancelled", "draining", "gone"}
    /\ edits \in [{"config", "disk"} -> Nat]

Init ==
    /\ off \in SUBSET Plugin
    /\ queue = <<>>
    /\ lagged = FALSE
    /\ everLagged = FALSE
    /\ applied = off
    /\ next = off
    /\ toOff = {}
    /\ toOn = {}
    /\ mode = "recv"
    /\ disk \in [Plugin -> Folder]
    /\ dirty = {}
    /\ batch = {}
    /\ unscanned = {p \in Plugin : disk[p].manifest # "none"}
    /\ handles = [p \in Plugin |-> "none"]
    /\ orphans = [p \in Plugin |-> 0]
    /\ drained = [p \in Plugin |-> "none"]
    /\ filed = {}
    /\ tiles = {}
    /\ pc = [a \in Actor |-> "idle"]
    /\ job = [a \in Actor |-> NoJob]
    /\ stage = "up"
    /\ edits = [k \in {"config", "disk"} |-> 0]

--------------------------------------------------------------------------------
\* Helpers shared by the transitions.

\* The boot scan is synchronous in start(); nothing else runs before it is over.
Booted == unscanned = {} /\ pc[Boot] = "idle"

InCritical(a) == pc[a] \in {"stop", "resume", "start", "insert"}

\* Mutant: the read half is given up before the start.
HoldsBarrier_UntilStart(a) == a # Boot /\ pc[a] \in {"lock", "stop", "resume"}

\* An actor past barrier.read() holds the read half until it is finished.
HoldsBarrier(a) == a # Boot /\ (pc[a] = "lock" \/ InCritical(a))

\* Mutant: there is no lock.
LockFree_None(p) == p \in Plugin

LockFree(p) == \A b \in Actor : ~(InCritical(b) /\ job[b].id = p)

Finish(a) ==
    /\ pc'  = [pc EXCEPT ![a] = IF a \in Request THEN "done" ELSE "idle"]
    /\ job' = [job EXCEPT ![a] = NoJob]

Goto(a, label) == pc' = [pc EXCEPT ![a] = label] /\ UNCHANGED job

Begin(a, op, p) ==
    /\ pc'  = [pc EXCEPT ![a] = "barrier"]
    /\ job' = [job EXCEPT ![a] = [op |-> op, id |-> p, victim |-> "none"]]

\* Takes p's handle out of the map and waits in stop_handle.
RemoveAndStop(a, op) ==
    LET p == job[a].id IN
    /\ handles' = [handles EXCEPT ![p] = "none"]
    /\ job' = [job EXCEPT ![a] = [op |-> op, id |-> p, victim |-> handles[p]]]
    /\ pc'  = [pc EXCEPT ![a] = "stop"]
    /\ UNCHANGED <<orphans, drained>>

\* A config write: the snapshot is stored and sent under one lock.  A full
\* broadcast channel drops its oldest entry and marks the receiver as lagged.
Publish(new) ==
    /\ off' = new
    /\ queue' = IF Len(queue) < QueueCap THEN Append(queue, new)
                                         ELSE Append(Tail(queue), new)
    /\ lagged' = (lagged \/ Len(queue) = QueueCap)
    /\ everLagged' = (everLagged \/ Len(queue) = QueueCap)

\* The folder watch reports a changed folder while it exists.
Touch(p) == dirty' = IF HotReload /\ stage = "up" THEN dirty \cup {p} ELSE dirty

--------------------------------------------------------------------------------
\* The environment: config writes, edits of plugin folders, plugins at work.

\* Any change of the config is sent; new = off is a change of another key.
EditConfig ==
    /\ edits["config"] < MaxConfigEdits
    /\ \E new \in SUBSET Plugin : Publish(new)
    /\ edits' = [edits EXCEPT !["config"] = @ + 1]
    /\ UNCHANGED <<loopVars, diskVars, scanVars, taskVars, viewVars, actorVars,
                   stage>>

EditDisk(p) ==
    /\ edits["disk"] < MaxDiskEdits
    /\ \E d \in Folder \ {disk[p]} : disk' = [disk EXCEPT ![p] = d]
    /\ Touch(p)
    /\ edits' = [edits EXCEPT !["disk"] = @ + 1]
    /\ UNCHANGED <<configVars, loopVars, scanVars, taskVars, viewVars, actorVars,
                   stage>>

\* Some lifecycle task of p is running: the registered one, one being stopped,
\* or one whose handle was overwritten.
TaskRunning(p) ==
    \/ handles[p] = "live"
    \/ drained[p] = "live"
    \/ orphans[p] > 0
    \/ \E a \in Actor : job[a].id = p /\ job[a].victim = "live"

\* A running plugin publishes a render, which the UI cache keeps.
Render(p) ==
    /\ TaskRunning(p)
    /\ tiles' = tiles \cup {p}
    /\ UNCHANGED <<configVars, loopVars, diskVars, scanVars, taskVars, filed,
                   actorVars, stage, edits>>

\* The lifecycle task gives up after too many failures; its handle stays.
GiveUp(p) ==
    /\ handles[p] = "live"
    /\ handles' = [handles EXCEPT ![p] = "ended"]
    /\ UNCHANGED <<configVars, loopVars, diskVars, scanVars, orphans, drained,
                   viewVars, actorVars, stage, edits>>

\* Dropping a handle closes its command channel, which the task takes for a
\* shutdown; nobody joins it.
OrphanEnds(p) ==
    /\ orphans[p] > 0
    /\ orphans' = [orphans EXCEPT ![p] = @ - 1]
    /\ UNCHANGED <<configVars, loopVars, diskVars, scanVars, handles, drained,
                   viewVars, actorVars, stage, edits>>

--------------------------------------------------------------------------------
\* lifecycle_guard: barrier.read, cancelled?, the plugin's lock, cancelled?

Enter(a) ==
    /\ pc[a] = "barrier"
    /\ IF stage = "up" THEN Goto(a, "lock") ELSE Finish(a)
    /\ UNCHANGED <<configVars, loopVars, diskVars, scanVars, taskVars, viewVars,
                   stage, edits>>

Locked(a, op) == pc[a] = "lock" /\ job[a].op = op /\ LockFree(job[a].id)

Refused(a) ==
    /\ pc[a] = "lock" /\ LockFree(job[a].id) /\ stage # "up"
    /\ Finish(a)
    /\ UNCHANGED <<configVars, loopVars, diskVars, scanVars, taskVars, viewVars,
                   stage, edits>>

--------------------------------------------------------------------------------
\* What each transition does once it owns the lock, up to its first await.

RestartBegin(a) ==
    LET p == job[a].id IN
    /\ Locked(a, "restart") /\ stage = "up"
    /\ \/ /\ p \notin off /\ handles[p] # "none"
          /\ RemoveAndStop(a, "restart")
       \/ /\ p \notin off /\ handles[p] = "none" /\ disk[p].manifest # "none"
          /\ Goto(a, "start")
          /\ UNCHANGED taskVars
       \/ /\ p \in off \/ (handles[p] = "none" /\ disk[p].manifest = "none")
          /\ Finish(a)
          /\ UNCHANGED taskVars
    /\ UNCHANGED <<configVars, loopVars, diskVars, scanVars, viewVars, stage,
                   edits>>

DeactivateBegin(a) ==
    LET p == job[a].id IN
    /\ Locked(a, "deactivate") /\ stage = "up"
    /\ IF handles[p] # "none" THEN RemoveAndStop(a, "deactivate")
                              ELSE Finish(a) /\ UNCHANGED taskVars
    /\ UNCHANGED <<configVars, loopVars, diskVars, scanVars, viewVars, stage,
                   edits>>

ActivateBegin(a) ==
    LET p == job[a].id IN
    /\ Locked(a, "activate") /\ stage = "up"
    /\ filed' = filed \ {p}
    /\ IF p \in filed THEN Goto(a, "start") ELSE Finish(a)
    /\ UNCHANGED <<configVars, loopVars, diskVars, scanVars, taskVars, tiles,
                   stage, edits>>

\* apply_folder_change with an instance from this folder in the map.
ReloadRunning(a) ==
    LET p == job[a].id
        d == disk[p]
    IN
    /\ Locked(a, "reload") /\ stage = "up" /\ handles[p] # "none"
    /\ \/ /\ d.manifest = "valid" /\ d.entry
          /\ RemoveAndStop(a, "reload")
       \/ /\ d.manifest = "none"
          /\ RemoveAndStop(a, "unload")
       \/ /\ d.manifest = "broken" \/ (d.manifest = "valid" /\ ~d.entry)
          /\ Finish(a)            \* warn_bad_reload: the instance is kept
          /\ UNCHANGED taskVars
    /\ UNCHANGED <<configVars, loopVars, diskVars, scanVars, viewVars, stage,
                   edits>>

\* apply_folder_change with nothing running from this folder.
ReloadIdle(a) ==
    LET p == job[a].id IN
    /\ Locked(a, "reload") /\ stage = "up" /\ handles[p] = "none"
    /\ \/ /\ disk[p].manifest # "none"
          /\ Goto(a, "start")
          /\ UNCHANGED viewVars
       \/ /\ disk[p].manifest = "none" /\ p \in filed
          /\ filed' = filed \ {p}
          /\ tiles' = tiles \ {p}     \* Removed
          /\ Finish(a)
       \/ /\ disk[p].manifest = "none" /\ p \notin filed
          /\ Finish(a)
          /\ UNCHANGED viewVars
    /\ UNCHANGED <<configVars, loopVars, diskVars, scanVars, taskVars, stage,
                   edits>>

RemoveBegin(a) ==
    LET p == job[a].id IN
    /\ Locked(a, "remove") /\ stage = "up"
    /\ \/ /\ handles[p] # "none"
          /\ RemoveAndStop(a, "remove")
       \/ /\ handles[p] = "none" /\ (p \in filed \/ disk[p].present)
          /\ Goto(a, "resume")
          /\ UNCHANGED taskVars
       \/ /\ handles[p] = "none" /\ p \notin filed /\ ~disk[p].present
          /\ Finish(a)                \* NotInstalled
          /\ UNCHANGED taskVars
    /\ UNCHANGED <<configVars, loopVars, diskVars, scanVars, viewVars, stage,
                   edits>>

ReplaceBegin(a) ==
    LET p == job[a].id IN
    /\ Locked(a, "replace") /\ stage = "up"
    /\ IF handles[p] # "none" THEN RemoveAndStop(a, "replace")
                              ELSE Goto(a, "resume") /\ UNCHANGED taskVars
    /\ UNCHANGED <<configVars, loopVars, diskVars, scanVars, viewVars, stage,
                   edits>>

\* Mutant: no STOP_TIMEOUT; a task that does not end by itself is awaited forever.
StopDone_NoTimeout(a) ==
    /\ pc[a] = "stop" /\ job[a].victim = "ended"
    /\ Goto(a, IF job[a].op \in {"restart", "reload"} THEN "start" ELSE "resume")
    /\ UNCHANGED <<configVars, loopVars, diskVars, scanVars, taskVars, viewVars,
                   stage, edits>>

\* stop_handle returns: the task is joined, after at most STOP_TIMEOUT by abort.
StopDone(a) ==
    /\ pc[a] = "stop"
    /\ job' = [job EXCEPT ![a] = [op |-> job[a].op, id |-> job[a].id,
                                  victim |-> "ended"]]
    /\ pc'  = [pc EXCEPT ![a] = IF job[a].op \in {"restart", "reload"}
                                THEN "start" ELSE "resume"]
    /\ UNCHANGED <<configVars, loopVars, diskVars, scanVars, taskVars, viewVars,
                   stage, edits>>

--------------------------------------------------------------------------------
\* The rest of a transition, after the old instance is gone.

Resumed(a, op) == pc[a] = "resume" /\ job[a].op = op

\* The folder disappeared: Removed.
UnloadEnd(a) ==
    /\ Resumed(a, "unload")
    /\ tiles' = tiles \ {job[a].id}
    /\ Finish(a)
    /\ UNCHANGED <<configVars, loopVars, diskVars, scanVars, taskVars, filed,
                   stage, edits>>

\* Removed, then record.
DeactivateEnd(a) ==
    /\ Resumed(a, "deactivate")
    /\ tiles' = tiles \ {job[a].id}
    /\ filed' = filed \cup {job[a].id}
    /\ Finish(a)
    /\ UNCHANGED <<configVars, loopVars, diskVars, scanVars, taskVars, stage,
                   edits>>

\* The folder is deleted, the id leaves pluginsDeactivated (unless the config
\* cannot be written) and Removed is sent.  Dropping the tile ids from other
\* config lists is one of the changes EditConfig makes.
RemoveOk(a) ==
    LET p == job[a].id IN
    /\ Resumed(a, "remove") /\ disk[p].present
    /\ disk' = [disk EXCEPT ![p] = Gone]
    /\ Touch(p)
    /\ filed' = filed \ {p}
    /\ tiles' = tiles \ {p}
    /\ \/ p \in off /\ Publish(off \ {p})
       \/ UNCHANGED configVars
    /\ Finish(a)
    /\ UNCHANGED <<loopVars, scanVars, taskVars, stage, edits>>

\* The store journal is pending, the folder is gone already, or only a part of
\* it could be deleted: whatever remains is started again.
RemoveFail(a) ==
    LET p == job[a].id IN
    /\ Resumed(a, "remove")
    /\ filed' = filed \ {p}
    /\ \E d \in Folder :
          /\ d.present = disk[p].present
          /\ d.manifest \in {disk[p].manifest, "none"}
          /\ d.entry => disk[p].entry
          /\ disk' = [disk EXCEPT ![p] = d]
          /\ IF d = disk[p] THEN UNCHANGED dirty ELSE Touch(p)
    /\ IF disk[p].present THEN Goto(a, "start") ELSE Finish(a)
    /\ UNCHANGED <<configVars, loopVars, scanVars, taskVars, tiles, stage, edits>>

\* The staged folder is in place; the folder watch starts it, if there is one.
SwapOk(a) ==
    LET p == job[a].id IN
    /\ Resumed(a, "replace")
    /\ disk' = [disk EXCEPT ![p] = Good]
    /\ Touch(p)
    /\ IF HotReload /\ stage = "up" THEN Finish(a) ELSE Goto(a, "start")
    /\ UNCHANGED <<configVars, loopVars, scanVars, taskVars, viewVars, stage,
                   edits>>

\* A rename failed: the folder was not moved, was moved back, or is lost to the
\* backup; restore_supervision starts what is there if it was running before.
SwapFail(a) ==
    LET p == job[a].id IN
    /\ Resumed(a, "replace")
    /\ \E d \in {disk[p], Gone} :
          /\ disk' = [disk EXCEPT ![p] = d]
          /\ Touch(p) \/ (d = disk[p] /\ UNCHANGED dirty)
          /\ IF job[a].victim # "none" /\ d.present THEN Goto(a, "start")
                                                    ELSE Finish(a)
    /\ UNCHANGED <<configVars, loopVars, scanVars, taskVars, viewVars, stage,
                   edits>>

--------------------------------------------------------------------------------
\* start_plugin and start_loaded_plugin.

\* A hot reload starts the manifest it parsed while the old instance was alive.
Startable(a) ==
    LET d == disk[job[a].id] IN
    /\ stage = "up"
    /\ d.entry
    /\ d.manifest = "valid" \/ (job[a].op = "reload" /\ job[a].victim # "none")

StartRejected(a) ==
    /\ pc[a] = "start" /\ ~Startable(a)
    /\ Finish(a)
    /\ UNCHANGED <<configVars, loopVars, diskVars, scanVars, taskVars, viewVars,
                   stage, edits>>

\* Mutant: starts do not ask whether the plugin is switched off.
Gate_Open(a) ==
    /\ pc[a] = "start" /\ Startable(a)
    /\ Goto(a, "insert")
    /\ UNCHANGED <<configVars, loopVars, diskVars, scanVars, taskVars, viewVars,
                   stage, edits>>

\* activation::gate: a switched-off plugin is filed instead of started.
Gate(a) ==
    /\ pc[a] = "start" /\ Startable(a)
    /\ IF job[a].id \in off
       THEN filed' = filed \cup {job[a].id} /\ Finish(a)
       ELSE Goto(a, "insert") /\ UNCHANGED filed
    /\ UNCHANGED <<configVars, loopVars, diskVars, scanVars, taskVars, tiles,
                   stage, edits>>

\* The task is spawned and inserted; an entry of the same folder is overwritten.
Insert(a) ==
    LET p == job[a].id IN
    /\ pc[a] = "insert"
    /\ handles' = [handles EXCEPT ![p] = "live"]
    /\ orphans' = IF handles[p] = "live" THEN [orphans EXCEPT ![p] = @ + 1]
                                         ELSE orphans
    /\ Finish(a)
    /\ UNCHANGED <<configVars, loopVars, diskVars, scanVars, drained, viewVars,
                   stage, edits>>

--------------------------------------------------------------------------------
\* The boot scan, the background loops and the user's requests.

BootScan(p) ==
    /\ pc[Boot] = "idle" /\ p \in unscanned
    /\ unscanned' = unscanned \ {p}
    /\ pc'  = [pc EXCEPT ![Boot] = "start"]
    /\ job' = [job EXCEPT ![Boot] = [op |-> "boot", id |-> p, victim |-> "none"]]
    /\ UNCHANGED <<configVars, loopVars, diskVars, batch, taskVars, viewVars,
                   stage, edits>>

\* dir_change_loop: a burst is over.
DirTake ==
    /\ Booted /\ stage = "up" /\ pc[Dir] = "idle" /\ batch = {} /\ dirty # {}
    /\ batch' = dirty
    /\ dirty' = {}
    /\ UNCHANGED <<configVars, loopVars, disk, unscanned, taskVars, viewVars,
                   actorVars, stage, edits>>

DirNext(p) ==
    /\ pc[Dir] = "idle" /\ p \in batch
    /\ batch' = batch \ {p}
    /\ Begin(Dir, "reload", p)
    /\ UNCHANGED <<configVars, loopVars, diskVars, unscanned, taskVars, viewVars,
                   stage, edits>>

Apply(new) ==
    /\ next' = new
    /\ toOff' = new \ applied
    /\ toOn' = applied \ new
    /\ mode' = "apply"
    /\ UNCHANGED applied

CfgRecv ==
    /\ Booted /\ stage = "up" /\ mode = "recv" /\ ~lagged /\ queue # <<>>
    /\ Apply(Head(queue))
    /\ queue' = Tail(queue)
    /\ UNCHANGED <<off, lagged, everLagged, diskVars, scanVars, taskVars,
                   viewVars, actorVars, stage, edits>>

\* RecvError::Lagged: the retained snapshots are stale and drained ...
CfgDrain ==
    /\ Booted /\ stage = "up" /\ mode = "recv" /\ lagged
    /\ queue' = <<>>
    /\ lagged' = FALSE
    /\ mode' = "resync"
    /\ UNCHANGED <<off, everLagged, applied, next, toOff, toOn, diskVars,
                   scanVars, taskVars, viewVars, actorVars, stage, edits>>

\* ... and the config is read from the watcher instead.
CfgResync ==
    /\ stage = "up" /\ mode = "resync"
    /\ Apply(off)
    /\ UNCHANGED <<configVars, diskVars, scanVars, taskVars, viewVars, actorVars,
                   stage, edits>>

CfgDeactivate(p) ==
    /\ mode = "apply" /\ pc[Cfg] = "idle" /\ p \in toOff
    /\ toOff' = toOff \ {p}
    /\ Begin(Cfg, "deactivate", p)
    /\ UNCHANGED <<configVars, applied, next, toOn, mode, diskVars, scanVars,
                   taskVars, viewVars, stage, edits>>

CfgActivate(p) ==
    /\ mode = "apply" /\ pc[Cfg] = "idle" /\ toOff = {} /\ p \in toOn
    /\ toOn' = toOn \ {p}
    /\ Begin(Cfg, "activate", p)
    /\ UNCHANGED <<configVars, applied, next, toOff, mode, diskVars, scanVars,
                   taskVars, viewVars, stage, edits>>

\* Mutant: the base of the next diff is not moved on.
CfgApplied_KeepBase ==
    /\ mode = "apply" /\ pc[Cfg] = "idle" /\ toOff = {} /\ toOn = {}
    /\ mode' = "recv"
    /\ UNCHANGED <<configVars, applied, next, toOff, toOn, diskVars, scanVars,
                   taskVars, viewVars, actorVars, stage, edits>>

CfgApplied ==
    /\ mode = "apply" /\ pc[Cfg] = "idle" /\ toOff = {} /\ toOn = {}
    /\ applied' = next
    /\ mode' = "recv"
    /\ UNCHANGED <<configVars, next, toOff, toOn, diskVars, scanVars, taskVars,
                   viewVars, actorVars, stage, edits>>

Ask(r) ==
    /\ Booted /\ pc[r] = "idle"
    /\ \E op \in {"restart", "remove", "replace"}, p \in Plugin : Begin(r, op, p)
    /\ UNCHANGED <<configVars, loopVars, diskVars, scanVars, taskVars, viewVars,
                   stage, edits>>

--------------------------------------------------------------------------------
\* shutdown_all.

Cancel ==
    /\ Booted /\ stage = "up"
    /\ stage' = "cancelled"
    /\ UNCHANGED <<configVars, loopVars, diskVars, scanVars, taskVars, viewVars,
                   actorVars, edits>>

\* barrier.write, then the map is drained.
Drain ==
    /\ stage = "cancelled"
    /\ \A a \in Actor : ~HoldsBarrier(a)
    /\ stage' = "draining"
    /\ drained' = handles
    /\ handles' = [p \in Plugin |-> "none"]
    /\ UNCHANGED <<configVars, loopVars, diskVars, scanVars, orphans, viewVars,
                   actorVars, edits>>

StopDrained(p) ==
    /\ stage = "draining" /\ drained[p] # "none"
    /\ drained' = [drained EXCEPT ![p] = "none"]
    /\ UNCHANGED <<configVars, loopVars, diskVars, scanVars, handles, orphans,
                   viewVars, actorVars, stage, edits>>

ShutdownDone ==
    /\ stage = "draining" /\ \A p \in Plugin : drained[p] = "none"
    /\ stage' = "gone"
    /\ UNCHANGED <<configVars, loopVars, diskVars, scanVars, taskVars, viewVars,
                   actorVars, edits>>

--------------------------------------------------------------------------------
Transition(a) ==
    \/ Enter(a) \/ Refused(a)
    \/ RestartBegin(a) \/ DeactivateBegin(a) \/ ActivateBegin(a)
    \/ ReloadRunning(a) \/ ReloadIdle(a) \/ RemoveBegin(a) \/ ReplaceBegin(a)
    \/ StopDone(a)
    \/ UnloadEnd(a) \/ DeactivateEnd(a) \/ RemoveOk(a) \/ RemoveFail(a)
    \/ SwapOk(a) \/ SwapFail(a)
    \/ StartRejected(a) \/ Gate(a) \/ Insert(a)

Loops ==
    \/ \E p \in Plugin : BootScan(p) \/ DirNext(p) \/ CfgDeactivate(p)
                         \/ CfgActivate(p)
    \/ DirTake \/ CfgRecv \/ CfgDrain \/ CfgResync \/ CfgApplied

Shutdown == Drain \/ ShutdownDone \/ \E p \in Plugin : StopDrained(p)

Environment ==
    \/ EditConfig \/ Cancel
    \/ \E p \in Plugin : EditDisk(p) \/ Render(p) \/ GiveUp(p)
    \/ \E r \in Request : Ask(r)

Next ==
    \/ \E a \in Actor : Transition(a)
    \/ Loops \/ Shutdown \/ Environment
    \/ \E p \in Plugin : OrphanEnds(p)

Spec == Init /\ [][Next]_vars

\* Every await in a transition ends: a stop after STOP_TIMEOUT, locks and the
\* barrier by their queues, the loops by the runtime.  Users, editors and
\* plugins owe nothing.
Fairness ==
    /\ \A a \in Actor : SF_vars(Transition(a))
    /\ WF_vars(Loops)
    /\ WF_vars(Shutdown)
    /\ \A p \in Plugin : WF_vars(OrphanEnds(p))

FairSpec == Spec /\ Fairness

--------------------------------------------------------------------------------
\* Properties.

\* Nothing is in flight: no queued or lost change, no transition, no dying task.
Settled ==
    /\ Booted /\ stage = "up"
    /\ queue = <<>> /\ ~lagged /\ mode = "recv"
    /\ dirty = {} /\ batch = {}
    /\ \A a \in Actor : pc[a] \in {"idle", "done"}
    /\ \A p \in Plugin : orphans[p] = 0

\* What the config and the folder of p ask for is what the supervisor does.
InStep(p) ==
    /\ p \in off => handles[p] = "none"
    /\ p \notin off => p \notin filed
    /\ disk[p] = Good => (p \in off <=> p \in filed)
                         /\ (p \notin off <=> handles[p] # "none")
    /\ disk[p].manifest = "none" => handles[p] = "none"

\* Once everything has settled, every plugin is in step, whatever sequence of
\* switches, folder edits, restarts, removals and replacements led there, as
\* long as the config loop's receiver was never overrun (watcher.rs,
\* activation.rs: "this module only REACTS to that list").  Without a folder
\* watch it is promised only while nobody edits the folders from outside.
ConvergesWhenSettled ==
    /\ Settled /\ ~everLagged
    /\ HotReload \/ edits["disk"] = 0
    => \A p \in Plugin : InStep(p)

\* The comment in apply_folder_change (watcher.rs:273-274): a deactivated plugin
\* whose folder goes away stops being listed as installed.
GoneFoldersAreForgotten ==
    HotReload /\ Settled /\ ~everLagged =>
        \A p \in filed : disk[p].manifest # "none"

\* The comment at the Lagged arm of config_change_loop (watcher.rs:173-176):
\* the loop converges on the authoritative current value even after an overrun.
ConvergesAfterLag == HotReload /\ Settled => \A p \in Plugin : InStep(p)

\* The lifecycle locks keep every transition but one from starting a second
\* instance beside a live one: only a re-activation can overwrite a live handle
\* (supervisor.rs:55, start_loaded_plugin).
OnlyActivationOverwrites ==
    [][\A p \in Plugin : orphans'[p] > orphans[p] =>
          /\ pc[Cfg] = "insert"
          /\ job[Cfg].op = "activate" /\ job[Cfg].id = p]_vars

\* shutdown_all returns only when no registered task and no task under a
\* transition is left, and nothing is registered afterwards: the barrier makes
\* it wait for transitions that were past the cancellation checks.
ShutdownLeavesNothing ==
    stage = "gone" => \A p \in Plugin :
        /\ handles[p] = "none"
        /\ drained[p] = "none"
        /\ \A a \in Actor : job[a].id = p => job[a].victim = "none"

\* The doc of shutdown_all (supervisor.rs:281-282): it waits until all plugins
\* are gone.
ShutdownWaitsForAll == stage = "gone" => \A p \in Plugin : ~TaskRunning(p)

\* The comments of deactivate (activation.rs:173-175) and of the shell
\* (shell/src/ipc/bridge.ts:241): a deactivated plugin's renders are cleared.
DeactivatedLeavesNoTiles == Settled /\ ~everLagged => filed \cap tiles = {}

\* A shutdown ends, also when it races transitions that are stopping processes
\* under the lifecycle locks (shutdown_all, lifecycle_guard).
ShutdownEnds == (stage = "cancelled") ~> (stage = "gone")

\* A plugin that stays switched off ends up without an instance, unless the
\* supervisor is shut down or its config receiver was overrun (reconcile).
DeactivationTakesEffect ==
    \A p \in Plugin :
        <>[](p \in off) => <>(everLagged \/ stage # "up" \/ [](handles[p] = "none"))

================================================================================
