------------------------------ MODULE PluginProcess ------------------------------
(***************************************************************************)
(* The processes that the runs of plugins start (smabar-core/src/plugins/  *)
(* process.rs, python.rs, the ends of a run in runner.rs, and the process  *)
(* groups of smabar-core/src/platform/mod.rs).                             *)
(*                                                                         *)
(* A run prepares the environment with uv, twice, and then starts the      *)
(* plugin; each of these leads a group of its own that its children join.  *)
(* Processes exit, ignore signals and leave children behind; a run is      *)
(* asked to stop, is cut short while it prepares, or its task is aborted   *)
(* wherever it waits; and the system gives a pid that is free to the next  *)
(* process, of ours or of somebody else's.                                 *)
(***************************************************************************)
EXTENDS Naturals

CONSTANTS Keeper,        \* lifecycle tasks, one for each plugin
          Pid,           \* pids that the system gives
          HasGroups,     \* the platform has process groups
          ProcBudgets    \* bounds: how often what may happen

ProcEvents == {"start", "fork", "stranger", "cancel", "wait"}
ASSUME ProcAssumption ==
    /\ Pid \subseteq Nat \ {0} /\ "other" \notin Keeper
    /\ HasGroups \in BOOLEAN /\ ProcBudgets \subseteq [ProcEvents -> Nat]

VARIABLES
    procs,      \* what the system runs under each pid: whose, in which group, alive or not
    runs,       \* what each task is at, and the PluginProcess it holds: its pid
    struck,     \* history: a signal reached somebody else's process
    procLeft    \* bounds: the events that may still happen

procVars == <<procs, runs, struck, procLeft>>

--------------------------------------------------------------------------------
SpendProc(event) == procLeft[event] > 0 /\ procLeft' = [procLeft EXCEPT ![event] = @ - 1]

NoProc == [of |-> "none", group |-> 0, life |-> "none"]
NoRun  == [step |-> "idle", pid |-> 0]
Held(k) == runs[k].pid

ProcInit ==
    /\ procs = [p \in Pid |-> NoProc] /\ runs = [k \in Keeper |-> NoRun]
    /\ struck = FALSE /\ procLeft \in ProcBudgets

RunAt(k, step) == runs[k].step = step
\* The process that the task holds, until it was waited for.
Leader(k) == {p \in Pid : p = Held(k) /\ procs[p].of = k}

--------------------------------------------------------------------------------
(* The system's processes. *)

\* A pid is free when nothing runs under it and no group is named by it.
FreePid(p) == procs[p] = NoProc /\ \A q \in Pid : procs[q].group # p
Proc(owner, group) == [of |-> owner, group |-> group, life |-> "alive"]
Forks(p) ==
    /\ SpendProc("fork") /\ procs[p].life = "alive"
    /\ \E q \in Pid : FreePid(q) /\ procs' = [procs EXCEPT ![q] = Proc(procs[p].of, procs[p].group)]
    /\ UNCHANGED <<runs, struck>>
StrangerStarts ==
    /\ SpendProc("stranger")
    /\ \E p \in Pid : FreePid(p) /\ procs' = [procs EXCEPT ![p] = Proc("other", p)]
    /\ UNCHANGED <<runs, struck>>
\* What exits stays a zombie until it is waited for; the system waits for orphans.
HeldBySomeone(p) == \E k \in Keeper : Held(k) = p
Dead(p) == IF HeldBySomeone(p) THEN [procs[p] EXCEPT !.life = "zombie"] ELSE NoProc
Exits(p) ==
    /\ procs[p].life = "alive" /\ procs[p].of # "other"
    /\ procs' = [procs EXCEPT ![p] = Dead(p)] /\ UNCHANGED <<runs, struck, procLeft>>
\* signal_process_group: what is killed dies; what is asked to exit may.
Reached(group) == {p \in Pid : HasGroups /\ procs[p].life = "alive" /\ procs[p].group = group}
Dying(dead, k) ==
    /\ procs' = [p \in Pid |-> IF p \in dead THEN Dead(p) ELSE procs[p]]
    /\ struck' = (struck \/ \E p \in Reached(Held(k)) : procs[p].of # k)

--------------------------------------------------------------------------------
(* One run: spawn_plugin, and what ends it. *)

\* spawn_command
SpawnCommand(k, step) ==
    \E p \in Pid : /\ FreePid(p) /\ procs' = [procs EXCEPT ![p] = Proc(k, p)]
                   /\ runs' = [runs EXCEPT ![k] = [step |-> step, pid |-> p]]
\* A script with metadata is synchronized first; any other program starts at once.
StartRun(k) ==
    /\ RunAt(k, "idle") /\ SpendProc("start") /\ UNCHANGED struck
    /\ \E step \in {"sync", "serve"} : SpawnCommand(k, step)
\* child.wait() returns and the pid is free again.
Waits(k) == runs[k].step \in {"sync", "find", "grace", "term", "reap"}
Reap(k) ==
    /\ Waits(k) /\ \E p \in Leader(k) : procs[p].life = "zombie"
    /\ procs' = [procs EXCEPT ![Held(k)] = NoProc]
    /\ runs' = [runs EXCEPT ![k].step = CASE @ = "sync" -> "synced" [] @ = "find" -> "found"
                                         [] @ = "grace" -> "asked" [] @ = "term" -> "kill"
                                         [] @ = "reap" -> "drain"]
    /\ UNCHANGED <<struck, procLeft>>

\* The process that a run holds is dropped: its group is killed, and itself if it was not
\* waited for.
\* MUTANT: what was waited for has nothing left to kill.
Drop_IfRunning(k, next) ==
    /\ runs' = [runs EXCEPT ![k] = [step |-> next, pid |-> 0]]
    /\ procs' = [p \in Pid |-> IF Leader(k) # {} /\ p \in Reached(Held(k)) \cup Leader(k)
                               THEN NoProc ELSE procs[p]]
    /\ UNCHANGED struck
DropProcess(k, next) ==
    LET group == Reached(Held(k))
        Gone(p) == IF \E j \in Keeper \ {k} : Held(j) = p THEN Dead(p) ELSE NoProc
    IN /\ runs' = [runs EXCEPT ![k] = [step |-> next, pid |-> 0]]
       /\ procs' = [p \in Pid |-> IF p \in group \cup Leader(k) THEN Gone(p) ELSE procs[p]]
       /\ struck' = (struck \/ \E p \in group : procs[p].of # k)

\* output: uv's pipes are read to their end, and what uv left is killed with it.
Prepared(k) ==
    /\ runs[k].step \in {"synced", "found"} /\ UNCHANGED procLeft
    /\ \/ DropProcess(k, IF RunAt(k, "synced") THEN "query" ELSE "launch")
       \/ DropProcess(k, "idle")
SpawnNext(k) ==
    /\ UNCHANGED <<struck, procLeft>>
    /\ \/ RunAt(k, "query") /\ SpawnCommand(k, "find")
       \/ RunAt(k, "launch") /\ SpawnCommand(k, "serve")
       \/ /\ runs[k].step \in {"query", "launch"} /\ runs' = [runs EXCEPT ![k] = NoRun]
          /\ UNCHANGED procs
\* A stop or the end of the 60 seconds while the run prepares; an abort wherever it waits.
Cancelled(k) ==
    /\ runs[k].step \notin {"idle", "query", "launch", "kill", "asked"} /\ SpendProc("cancel")
    /\ DropProcess(k, "idle")

\* The plugin closed its output, did not answer, or is to stop.
ServeEnds(k) ==
    /\ RunAt(k, "serve") /\ UNCHANGED <<procs, struck, procLeft>>
    /\ \E step \in {"grace", "kill"} : runs' = [runs EXCEPT ![k].step = step]
\* graceful_shutdown: its children are asked, too, and a wait may end without the exit.
Terminate(k) ==
    /\ \/ RunAt(k, "asked") /\ runs' = [runs EXCEPT ![k].step = "kill"] /\ UNCHANGED procLeft
       \/ RunAt(k, "grace") /\ SpendProc("wait") /\ runs' = [runs EXCEPT ![k].step = "term"]
    /\ \E dead \in SUBSET Reached(Held(k)) : Dying(dead, k)
\* kill_and_reap
KillGroup(k) ==
    /\ RunAt(k, "kill") /\ UNCHANGED procLeft
    /\ runs' = [runs EXCEPT ![k].step = IF Leader(k) = {} THEN "drain" ELSE "reap"]
    /\ Dying(Reached(Held(k)) \cup Leader(k), k)
TimeOver(k) ==
    /\ runs[k].step \in {"term", "reap"} /\ SpendProc("wait") /\ UNCHANGED <<procs, struck>>
    /\ runs' = [runs EXCEPT ![k].step = IF @ = "term" THEN "kill" ELSE "drain"]
\* The readers are drained while the process is still held.
RunEnds(k) == RunAt(k, "drain") /\ DropProcess(k, "idle") /\ UNCHANGED procLeft

--------------------------------------------------------------------------------
ProcNext ==
    \/ StrangerStarts
    \/ \E p \in Pid : Forks(p) \/ Exits(p)
    \/ \E k \in Keeper : \/ StartRun(k) \/ Reap(k) \/ Prepared(k) \/ SpawnNext(k) \/ Cancelled(k)
                         \/ ServeEnds(k) \/ Terminate(k) \/ KillGroup(k) \/ TimeOver(k) \/ RunEnds(k)

ProcSpec == ProcInit /\ [][ProcNext]_procVars

--------------------------------------------------------------------------------
ProcTypeOK ==
    /\ \A p \in Pid : procs[p] = NoProc \/ procs[p].group \in Pid
    /\ \A k \in Keeper : runs[k].pid \in Pid \cup {0}

\* Nothing that a run started outlives it, nor uv the step that needed it: whatever is alive
\* of a plugin is in the group of the process that its task holds.  "uv build subprocesses must
\* not outlive the plugin" (process.rs:35): they do on a platform without groups.
NothingOutlivesTheRun ==
    \A p \in Pid : \A k \in Keeper :
        (procs[p].of = k /\ procs[p].life = "alive") => (Held(k) # 0 /\ procs[p].group = Held(k))

\* "a stale pgid returns ESRCH instead of touching an unrelated group"
OnlyOwnAreStruck == ~struck
================================================================================
