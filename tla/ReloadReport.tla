------------------------------ MODULE ReloadReport ------------------------------
(***************************************************************************)
(* What the MCP tools plugin_write_file, plugin_reload and plugin_logs     *)
(* report of a plugin's start (smabar-core/src/mcp: plugin_tools.rs,       *)
(* plugin_reload.rs; plugins: logfile.rs, await_status.rs).                *)
(*                                                                         *)
(* A tool subscribes to the status events, changes the folder, and waits   *)
(* for a status; then it reads the plugin's log for the warnings of this   *)
(* start.  The reload itself is the folder watcher's, some time later.     *)
(* The log is written by the plugin's task, through a file it keeps open,  *)
(* and by the core and the shell, which open it for each entry; whoever    *)
(* opens it moves it aside when it has grown too large.                    *)
(***************************************************************************)
EXTENDS Naturals, Sequences, Functions, FiniteSets

CONSTANTS Call,           \* tool calls
          Cap,            \* MAX_LOG_BYTES, in entries
          ReadLimit,      \* entries a report looks at (400)
          Malformed,      \* what the core tells of input of the plugin it ignored
          MaxDiagnostics, \* how many of these it tells (128)
          ReloadBudgets   \* bounds: what may happen, per kind of event

Writer == {"task", "core", "shell"}
ReloadEvents == {"write", "reload", "entry", "ignore", "render", "crash", "toggle", "timeout"}
ASSUME ReloadAssumption ==
    /\ {Cap, MaxDiagnostics} \subseteq Nat /\ ReadLimit \in Nat \ {0}
    /\ ReloadBudgets \subseteq [ReloadEvents -> Nat]

VARIABLES
    watched,     \* hot_reload_enabled
    code,        \* version of the folder
    change,      \* the folder watcher has a change to handle
    process,     \* the plugin: version it runs, status
    events,      \* the status events the task sent
    calls,       \* the tools: step, the events from which on they listen, since_ms, outcome
    now,         \* now_ms, counted in log entries and renders
    rendered,    \* when the tile was rendered last
    logs,        \* per file ever created, its entries
    names,       \* plugin-<id>.log and .log.1: the file each names, 0 if none
    writers,     \* who has the log open, and how far it is
    diagnosed,   \* what the core has told of ignored input; last: when it last ignored some
    reloadLeft   \* bounds: the events that may still happen

reloadVars == <<watched, code, change, process, calls, now, rendered, logs, names, writers, diagnosed, events,
                reloadLeft>>

--------------------------------------------------------------------------------
NoCallYet == [step |-> "idle"]
Closed    == [step |-> "closed"]
SpendReload(event) == reloadLeft[event] > 0 /\ reloadLeft' = [reloadLeft EXCEPT ![event] = @ - 1]
Running   == <<process, events>>

ReloadInit ==
    /\ watched \in BOOLEAN /\ code = 0 /\ change = FALSE
    /\ process = [runs |-> 0, status |-> "running"]
    /\ calls = [c \in Call |-> NoCallYet]
    /\ now = 1 /\ rendered = 0
    /\ logs = <<<<>>>> /\ names = [log |-> 1, previous |-> 0]
    /\ writers = [w \in Writer |-> IF w = "task" THEN [step |-> "open", file |-> 1] ELSE Closed]
    /\ diagnosed = [seen |-> {}, limited |-> FALSE, last |-> 0]
    /\ events = <<>> /\ reloadLeft \in ReloadBudgets

--------------------------------------------------------------------------------
(* The log: PluginLog::open, write, rotate_if_oversized, append_plugin_log. *)

Oversized == names.log # 0 /\ Len(logs[names.log]) > Cap
Opening(w) == [writers EXCEPT ![w] = [step |-> IF Oversized THEN "rotate" ELSE "create"]]
Entry(warns) == [ts |-> now, warns |-> warns]
WriteTo(file, warns) == logs' = [logs EXCEPT ![file] = Append(@, Entry(warns))] /\ now' = now + 1

TaskLogs == writers["task"].step = "open"

\* The shell warns of markup it removed.
AppendPluginLog(w) ==
    /\ w = "shell" /\ writers[w] = Closed /\ SpendReload("entry")
    /\ writers' = Opening(w)
    /\ UNCHANGED <<watched, code, change, calls, now, rendered, logs, names, diagnosed>>
    /\ UNCHANGED Running

\* The core warns of input it ignored: each thing once, and once that it will tell no more.
\* What it has told is forgotten when the plugin is removed, not when it starts again.
Unseen(items) == items \ diagnosed.seen
Room          == MaxDiagnostics - Cardinality(diagnosed.seen)
WarnOnce(items) ==
    LET over == Cardinality(Unseen(items)) > Room
    IN  /\ process.status # "off" /\ writers["core"] = Closed /\ SpendReload("ignore")
        /\ \E new \in SUBSET Unseen(items) :
              /\ Cardinality(new) = (IF over THEN Room ELSE Cardinality(Unseen(items)))
              /\ diagnosed' = [seen |-> diagnosed.seen \cup new, last |-> now,
                               limited |-> diagnosed.limited \/ over]
              /\ writers' = IF new # {} \/ diagnosed'.limited # diagnosed.limited
                            THEN Opening("core") ELSE writers
        /\ now' = now + 1
        /\ UNCHANGED <<watched, code, change, calls, rendered, logs, names>> /\ UNCHANGED Running

\* One generation is kept: what was moved aside before is gone.
Rotate(w) ==
    /\ writers[w].step = "rotate"
    /\ names' = IF names.log # 0 THEN [log |-> 0, previous |-> names.log] ELSE names
    /\ writers' = [writers EXCEPT ![w] = [step |-> "create"]]
    /\ UNCHANGED <<watched, code, change, calls, now, rendered, logs, diagnosed, reloadLeft>> /\ UNCHANGED Running

CreateLog(w) ==
    /\ writers[w].step = "create"
    /\ logs' = IF names.log = 0 THEN Append(logs, <<>>) ELSE logs
    /\ names' = [names EXCEPT !.log = IF @ = 0 THEN Len(logs) + 1 ELSE @]
    /\ writers' = [writers EXCEPT ![w] = [step |-> "open", file |-> names'.log]]
    /\ UNCHANGED <<watched, code, change, calls, now, rendered, diagnosed, reloadLeft>> /\ UNCHANGED Running

\* The task writes what the process logs and prints, and keeps the file; the others close it.
WriteLog(w) ==
    /\ writers[w].step = "open" /\ (w = "task" => process.status = "running" /\ SpendReload("entry"))
    /\ w # "task" => UNCHANGED reloadLeft
    /\ \E warns \in IF w = "task" THEN BOOLEAN ELSE {TRUE} : WriteTo(writers[w].file, warns)
    /\ writers' = [writers EXCEPT ![w] = IF w = "task" THEN @ ELSE Closed]
    /\ UNCHANGED <<watched, code, change, calls, rendered, names, diagnosed>> /\ UNCHANGED Running

--------------------------------------------------------------------------------
(* The plugin's process, and what its task sends. *)

Status(version, status) == [runs |-> version, status |-> status]
Final == {"running", "failed", "off"}
Tell(statuses) == events' = events \o statuses

\* start, stop and restart: the old task ends, a new one opens the log and starts the folder.
StartProcess(before) ==
    /\ process' = Status(code, "starting") /\ writers' = Opening("task")
    /\ Tell(Append(before, process'))
Restart ==
    IF process.status = "off" THEN UNCHANGED <<process, writers, events>>
    ELSE StartProcess(<<Status(process.runs, "stopped")>>)

HandleChange ==
    /\ change /\ change' = FALSE /\ Restart
    /\ UNCHANGED <<watched, code, calls, now, rendered, logs, names, diagnosed, reloadLeft>>

Becomes(status) ==
    /\ process' = Status(process.runs, status) /\ Tell(<<process'>>)
    /\ UNCHANGED <<watched, code, change, calls, now, rendered, logs, names, writers, diagnosed>>

Initialized == process.status = "starting" /\ TaskLogs /\ Becomes("running") /\ UNCHANGED reloadLeft
StartFails  == process.status = "starting" /\ TaskLogs /\ SpendReload("crash") /\ Becomes("failed")
Crash       == process.status = "running" /\ SpendReload("crash") /\ Becomes("failed")

\* The backoff is over: the same task runs the folder again.
RunAgain ==
    /\ process.status = "failed" /\ TaskLogs
    /\ process' = Status(code, "starting") /\ Tell(<<process'>>)
    /\ UNCHANGED <<watched, code, change, calls, now, rendered, logs, names, writers, diagnosed,
                   reloadLeft>>

Render ==
    /\ process.status = "running" /\ SpendReload("render")
    /\ rendered' = now /\ now' = now + 1
    /\ UNCHANGED <<watched, code, change, calls, logs, names, writers, diagnosed>> /\ UNCHANGED Running

SetActive ==
    /\ SpendReload("toggle")
    /\ IF process.status = "off" THEN StartProcess(<<>>)
       ELSE /\ process' = Status(process.runs, "off") /\ Tell(<<process'>>)
            /\ writers' = [writers EXCEPT !["task"] = Closed]
    /\ UNCHANGED <<watched, code, change, calls, now, rendered, logs, names, diagnosed>>

--------------------------------------------------------------------------------
(* The tools. *)

At(c, step) == calls[c].step = step
Step(c, step) == calls' = [calls EXCEPT ![c].step = step]
Untouched == <<watched, now, rendered, logs, names, diagnosed>>

\* watch_status and since_ms come first; there is nothing to report yet.
Called(c, step) ==
    calls' = [calls EXCEPT ![c] =
        [step |-> step, from |-> Len(events), since |-> now, wrote |-> code,
         status |-> Status(0, "stopped"), settled |-> FALSE, warnings |-> {}, until |-> 0]]

WriteFile(c) ==
    /\ At(c, "idle") /\ SpendReload("write") /\ Called(c, "write")
    /\ UNCHANGED <<code, change, writers>> /\ UNCHANGED Untouched /\ UNCHANGED Running

\* A file beside the old one takes its name: the folder is the old or the new version.
AtomicWrite == code' = code + 1 /\ change' = (change \/ watched)
Store(c) ==
    /\ At(c, "write") /\ AtomicWrite
    /\ calls' = [calls EXCEPT ![c].step = IF watched THEN "ask" ELSE "restart", ![c].wrote = code + 1]
    /\ UNCHANGED <<writers, reloadLeft>> /\ UNCHANGED Untouched /\ UNCHANGED Running

\* A deactivated plugin is refused.
PluginReload(c) ==
    /\ At(c, "idle") /\ SpendReload("reload") /\ process.status # "off"
    /\ Called(c, "restart")
    /\ UNCHANGED <<code, change, writers>> /\ UNCHANGED Untouched /\ UNCHANGED Running

\* restart_if_not_watched, or the restart of plugin_reload.
RestartPlugin(c) ==
    /\ At(c, "restart") /\ Restart /\ Step(c, "ask")
    /\ UNCHANGED <<code, change, reloadLeft>> /\ UNCHANGED Untouched

\* MUTANT: the events are subscribed to when the wait begins.
Heard_Late(c) == Len(events)
Heard(c) == calls[c].from

\* settle_reload: the status of now is what to fall back to; off is the answer itself.
Ask(c) ==
    /\ At(c, "ask")
    /\ calls' = [calls EXCEPT ![c] =
         IF process.status = "off" THEN [@ EXCEPT !.step = "read", !.status = process, !.settled = TRUE]
         ELSE [@ EXCEPT !.step = "settle", !.status = process, !.from = Heard(c)]]
    /\ UNCHANGED <<code, change, writers, reloadLeft>> /\ UNCHANGED Untouched /\ UNCHANGED Running

\* The first status that is no step on the way.
Settle(c) ==
    LET later == {i \in calls[c].from + 1 .. Len(events) : events[i].status \in Final}
        first == events[CHOOSE i \in later : \A j \in later : i <= j]
    IN /\ At(c, "settle") /\ later # {}
       /\ calls' = [calls EXCEPT ![c].status = first, ![c].settled = TRUE,
                                 ![c].step = IF first.status = "running" THEN "renders" ELSE "read"]
       /\ UNCHANGED <<code, change, writers, reloadLeft>> /\ UNCHANGED Untouched /\ UNCHANGED Running

\* RELOAD_TIMEOUT
SettleTimesOut(c) ==
    /\ At(c, "settle") /\ SpendReload("timeout")
    /\ \A i \in calls[c].from + 1 .. Len(events) : events[i].status \notin Final
    /\ Step(c, "read")
    /\ UNCHANGED <<code, change, writers>> /\ UNCHANGED Untouched /\ UNCHANGED Running

\* await_first_renders: until the tile is rendered, or for two seconds.
AwaitFirstRenders(c) ==
    /\ At(c, "renders") /\ (rendered >= calls[c].since \/ reloadLeft["timeout"] > 0)
    /\ Step(c, "read")
    /\ UNCHANGED <<code, change, writers, reloadLeft>> /\ UNCHANGED Untouched /\ UNCHANGED Running

\* The newest entries of the log, and of these the warnings since the call began.
ReadPluginLog(file) ==
    IF file = 0 THEN {}
    ELSE LET entries == logs[file]
         IN  {entries[i] : i \in {j \in DOMAIN entries : Len(entries) - j < ReadLimit}}
Warnings(file, since) == {e \in ReadPluginLog(file) : e.warns /\ e.ts >= since}
ReadLog(c) ==
    /\ At(c, "read")
    /\ calls' = [calls EXCEPT ![c].step = "done", ![c].until = now,
                              ![c].warnings = Warnings(names.log, calls[c].since)]
    /\ UNCHANGED <<code, change, writers, reloadLeft>> /\ UNCHANGED Untouched /\ UNCHANGED Running

--------------------------------------------------------------------------------
ReloadNext ==
    \/ \E w \in Writer : AppendPluginLog(w) \/ Rotate(w) \/ CreateLog(w) \/ WriteLog(w)
    \/ \E items \in SUBSET Malformed : items # {} /\ WarnOnce(items)
    \/ HandleChange \/ Initialized \/ StartFails \/ Crash \/ RunAgain \/ Render \/ SetActive
    \/ \E c \in Call : \/ WriteFile(c) \/ Store(c) \/ PluginReload(c) \/ RestartPlugin(c) \/ Ask(c)
                       \/ Settle(c) \/ SettleTimesOut(c) \/ AwaitFirstRenders(c) \/ ReadLog(c)

ReloadSpec == ReloadInit /\ [][ReloadNext]_reloadVars

--------------------------------------------------------------------------------
ReloadTypeOK ==
    /\ code \in Nat /\ now \in Nat /\ rendered \in 0 .. now
    /\ process.status \in Final \cup {"starting", "stopped"} /\ process.runs \in 0 .. code
    /\ diagnosed.seen \subseteq Malformed /\ Cardinality(diagnosed.seen) <= MaxDiagnostics
    /\ names.log \in 0 .. Len(logs) /\ names.previous \in 0 .. Len(logs)

Reported(c) == At(c, "done")

\* A report that the plugin is still starting is not given when its start was over before the
\* wait began: what the write or the restart sets off is heard, however soon it ends
\* (plugin_tools.rs:134).
NoOutcomeMissed ==
    \A c \in Call : (Reported(c) /\ ~calls[c].settled) =>
        calls[c].status.runs < calls[c].wrote \/ calls[c].status.status = "starting"

\* A start reported as clean was clean: no warning was written between the call and the report
\* (plugin_tools.rs:98: "count 0 is a clean start").
CleanMeansClean ==
    \A c \in Call : Reported(c) =>
        \A file \in DOMAIN logs :
            {e \in Range(logs[file]) : e.warns /\ e.ts \in calls[c].since .. calls[c].until - 1}
                \subseteq calls[c].warnings

\* A start during which the core ignored input is not reported as clean, once it has said so
\* (plugin_tools.rs:98: "count 0 is a clean start"; plugin_reload.rs: summarise_warnings).  It
\* says so once, and a start after that which is no better has nothing in the log.
IgnoredInputIsReported ==
    [][\A c \in Call : (At(c, "read") /\ ~At(c, "read")' /\ writers["core"] = Closed
                        /\ diagnosed.last >= calls[c].since)
            => calls'[c].warnings # {}]_reloadVars

\* The outcome a write reports is one of what it wrote (plugin_tools.rs:94: "the reply waits
\* for the outcome").  A start of the folder before that is still under way when the call
\* begins ends first, and its status is taken for the answer.
OutcomeIsOfThisWrite ==
    \A c \in Call : (Reported(c) /\ calls[c].settled /\ calls[c].status.status # "off")
                        => calls[c].status.runs >= calls[c].wrote

\* Two files bound the disk (logfile.rs:229): the file the task writes to is one of them.  The
\* task keeps its file when another writer moves that aside, and after a second time nobody
\* can read what it writes.
TwoFilesBoundTheDisk ==
    writers["task"].step = "open" => writers["task"].file \in {names.log, names.previous}
================================================================================
