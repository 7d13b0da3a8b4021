---------------------------- MODULE PluginLifecycle ----------------------------
(***************************************************************************)
(* The lifecycle task of one plugin, from its start to its end, with what  *)
(* reaches it through its command channel: settings pushed by the config   *)
(* loop, user actions and the request to stop.  Source: plugins/runner.rs, *)
(* backoff.rs, supervisor.rs (dispatch_action, stop_handle), watcher.rs    *)
(* (config_change_loop) under src/crates/smabar-core/src.                  *)
(*                                                                         *)
(* The connection to the process is abstract here (RpcTransport has it): a *)
(* run may fail wherever it waits, and what is sent to a running process   *)
(* is delivered in order.                                                  *)
(***************************************************************************)
EXTENDS Naturals, Sequences, FiniteSets

CONSTANTS Value,       \* settings the plugin may have
          Action,      \* user actions, each dispatched once
          NoValue,
          CmdCap,      \* capacity of the command channel (64)
          QueueCap,    \* capacity of the config broadcast channel (16)
          MaxFailures, \* consecutive failures before giving up (5)
          MaxEdits     \* bound: settings changes; TLC only

ASSUME LifecycleAssumption ==
    /\ NoValue \notin Value /\ Value # {}
    /\ {CmdCap, QueueCap, MaxFailures} \subseteq Nat \ {0}
    /\ MaxEdits \in Nat

VARIABLES
    settings,   \* the plugin's settings in the current config
    snaps,      \* config snapshots the config loop has not received
    lagged,     \* its receiver has been overrun
    everLagged, \* history: it has been overrun at least once
    mode,       \* the config loop: receiving, or about to read the config
    applied,    \* the settings in the config the loop applied last
    pushing,    \* settings it waits to put into the command channel
    cmds,       \* the command channel
    phase,      \* where the lifecycle task is
    snap,       \* the settings sent with initialize
    view,       \* the settings the running process was told last
    failures,   \* consecutive failures
    status,     \* the last status event
    outcome,    \* what the caller of each action was told
    delivered,  \* actions handed to the process
    stop,       \* stop_handle: not called, waiting for room, sent
    edits       \* bound counter

configVars == <<settings, snaps, lagged, everLagged>>
loopVars   == <<mode, applied, pushing>>
taskVars   == <<phase, snap, view, failures, status>>
vars == <<configVars, loopVars, cmds, taskVars, outcome, delivered, stop, edits>>

Phases   == {"prepare", "init", "serve", "stopping", "backoff", "ended"}
Statuses == {"starting", "running", "failed", "stopped"}
Outcome  == {"none", "queued", "ok", "busy", "notRunning"}
Command  == [kind : {"action"}, arg : Action] \cup [kind : {"settings"}, arg : Value]
              \cup [kind : {"shutdown"}, arg : {NoValue}]

TypeOK ==
    /\ settings \in Value
    /\ snaps \in Seq(Value) /\ Len(snaps) <= QueueCap
    /\ lagged \in BOOLEAN /\ everLagged \in BOOLEAN
    /\ mode \in {"recv", "resync"}
    /\ applied \in Value
    /\ pushing \in Value \cup {NoValue}
    /\ cmds \in Seq(Command) /\ Len(cmds) <= CmdCap
    /\ phase \in Phases
    /\ snap \in Value \cup {NoValue}
    /\ view \in Value \cup {NoValue}
    /\ failures \in 0..MaxFailures
    /\ status \in Statuses
    /\ outcome \in [Action -> Outcome]
    /\ delivered \in SUBSET Action
    /\ stop \in {"none", "sending", "sent"}
    /\ edits \in Nat

Init ==
    /\ settings \in Value
    /\ snaps = <<>> /\ lagged = FALSE /\ everLagged = FALSE
    /\ mode = "recv" /\ applied = settings /\ pushing = NoValue
    /\ cmds = <<>>
    /\ phase = "prepare" /\ snap = NoValue /\ view = NoValue
    /\ failures = 0 /\ status = "starting"
    /\ outcome = [a \in Action |-> "none"]
    /\ delivered = {}
    /\ stop = "none"
    /\ edits = 0

--------------------------------------------------------------------------------
\* The config and the loop that pushes its changes.

EditSettings ==
    /\ edits < MaxEdits
    /\ edits' = edits + 1
    /\ \E v \in Value \ {settings} :
          /\ settings' = v
          /\ snaps' = Append(IF Len(snaps) < QueueCap THEN snaps ELSE Tail(snaps), v)
    /\ lagged' = (lagged \/ Len(snaps) = QueueCap)
    /\ everLagged' = (everLagged \/ Len(snaps) = QueueCap)
    /\ UNCHANGED <<loopVars, cmds, taskVars, outcome, delivered, stop>>

\* Only settings that differ from the config applied last are pushed, to a
\* plugin whose handle is in the map.
Apply(new) ==
    /\ pushing' = IF new # applied /\ stop = "none" THEN new ELSE NoValue
    /\ applied' = new

LoopIdle == mode = "recv" /\ pushing = NoValue

LoopRecv ==
    /\ LoopIdle /\ ~lagged /\ snaps # <<>>
    /\ Apply(Head(snaps))
    /\ snaps' = Tail(snaps)
    /\ UNCHANGED <<settings, lagged, everLagged, mode, cmds, taskVars, outcome,
                   delivered, stop, edits>>

\* After an overrun the queue is emptied, then the current config is applied.
LoopDrain ==
    /\ LoopIdle /\ lagged
    /\ snaps' = <<>> /\ lagged' = FALSE
    /\ mode' = "resync"
    /\ UNCHANGED <<settings, everLagged, applied, pushing, cmds, taskVars, outcome,
                   delivered, stop, edits>>

LoopResync ==
    /\ mode = "resync"
    /\ Apply(settings)
    /\ mode' = "recv"
    /\ UNCHANGED <<configVars, cmds, taskVars, outcome, delivered, stop, edits>>

\* commands.send(SettingsChanged).await; it fails once the task has ended.
LoopPush ==
    /\ pushing # NoValue
    /\ IF phase = "ended"
       THEN UNCHANGED cmds
       ELSE /\ Len(cmds) < CmdCap
            /\ cmds' = Append(cmds, [kind |-> "settings", arg |-> pushing])
    /\ pushing' = NoValue
    /\ UNCHANGED <<configVars, mode, applied, taskVars, outcome, delivered, stop,
                   edits>>

--------------------------------------------------------------------------------
\* User actions: dispatch_action.

Dispatch(a) ==
    /\ outcome[a] = "none" /\ stop = "none"
    /\ IF phase # "ended" /\ Len(cmds) < CmdCap
       THEN /\ cmds' = Append(cmds, [kind |-> "action", arg |-> a])
            /\ outcome' = [outcome EXCEPT ![a] = "queued"]
       ELSE /\ outcome' = [outcome EXCEPT ![a] = IF phase = "ended" THEN "notRunning"
                                                                   ELSE "busy"]
            /\ UNCHANGED cmds
    /\ UNCHANGED <<configVars, loopVars, taskVars, delivered, stop, edits>>

\* ACTION_TIMEOUT: the caller leaves; the command stays in the channel.
ActionTimesOut(a) ==
    /\ outcome[a] = "queued"
    /\ outcome' = [outcome EXCEPT ![a] = "busy"]
    /\ UNCHANGED <<configVars, loopVars, cmds, taskVars, delivered, stop, edits>>

\* The acknowledgements of the actions in bs are dropped.
Dropped(bs) ==
    outcome' = [a \in Action |-> IF a \in bs /\ outcome[a] = "queued"
                                 THEN "notRunning" ELSE outcome[a]]

Queued == {cmds[i].arg : i \in {j \in DOMAIN cmds : cmds[j].kind = "action"}}

--------------------------------------------------------------------------------
\* The lifecycle task.

\* The task returns: its receiver goes away with everything in it.
End(how) ==
    /\ phase' = "ended" /\ view' = NoValue
    /\ status' = how
    /\ cmds' = <<>>
    /\ Dropped(Queued)

\* The process is up; initialize is sent with the settings read now.
Spawned ==
    /\ phase = "prepare"
    /\ phase' = "init"
    /\ snap' = settings /\ view' = settings
    /\ UNCHANGED <<configVars, loopVars, cmds, failures, status, outcome, delivered,
                   stop, edits>>

\* Mutant: settings that changed during initialize are not sent again and the
\* pushes of that time have been dropped.
Initialized_NoRepush ==
    /\ phase = "init"
    /\ phase' = "serve" /\ status' = "running"
    /\ cmds' = SelectSeq(cmds, LAMBDA c : c.kind # "settings")
    /\ UNCHANGED <<configVars, loopVars, snap, view, failures, outcome, delivered,
                   stop, edits>>

\* initialize is answered.  Settings that changed since are sent once more.
Initialized ==
    /\ phase = "init"
    /\ phase' = "serve" /\ status' = "running"
    /\ view' = IF settings # snap THEN settings ELSE view
    /\ UNCHANGED <<configVars, loopVars, cmds, snap, failures, outcome, delivered,
                   stop, edits>>

\* A run ends by itself, wherever it waits.  Only a run that got to serve can
\* have lasted the five minutes that make it a stable one.
RunFails ==
    /\ phase \in {"prepare", "init", "serve"}
    /\ \E stable \in {FALSE, phase = "serve"} :
          failures' = IF stable THEN 1 ELSE failures + 1
    /\ IF failures' >= MaxFailures
       THEN End("failed")
       ELSE /\ phase' = "backoff" /\ view' = NoValue
            /\ status' = "failed"
            /\ UNCHANGED <<cmds, outcome>>
    /\ UNCHANGED <<configVars, loopVars, snap, delivered, stop, edits>>

BackoffOver ==
    /\ phase = "backoff"
    /\ phase' = "prepare" /\ status' = "starting"
    /\ UNCHANGED <<configVars, loopVars, cmds, snap, view, failures, outcome,
                   delivered, stop, edits>>

Next1(kind) == cmds # <<>> /\ Head(cmds).kind = kind

\* Mutant: the backoff acknowledges actions.
TakeDown_Acks ==
    /\ phase \in {"prepare", "backoff"}
    /\ \/ /\ Next1("shutdown")
          /\ End("stopped")
       \/ /\ Next1("action")
          /\ cmds' = Tail(cmds)
          /\ outcome' = [outcome EXCEPT ![Head(cmds).arg] = "ok"]
          /\ UNCHANGED <<phase, view, status>>
       \/ /\ Next1("settings")
          /\ cmds' = Tail(cmds)
          /\ UNCHANGED <<phase, view, status, outcome>>
    /\ UNCHANGED <<configVars, loopVars, snap, failures, delivered, stop, edits>>

\* No process: while preparing and during the backoff commands are dropped.
TakeDown ==
    /\ phase \in {"prepare", "backoff"}
    /\ \/ /\ Next1("shutdown")
          /\ End("stopped")
       \/ /\ Next1("action")
          /\ cmds' = Tail(cmds) /\ Dropped({Head(cmds).arg})
          /\ UNCHANGED <<phase, view, status>>
       \/ /\ Next1("settings")
          /\ cmds' = Tail(cmds)
          /\ UNCHANGED <<phase, view, status, outcome>>
    /\ UNCHANGED <<configVars, loopVars, snap, failures, delivered, stop, edits>>

\* serve: an action is acknowledged when the connection took it.
TakeAction ==
    /\ phase = "serve" /\ Next1("action")
    /\ cmds' = Tail(cmds)
    /\ LET a == Head(cmds).arg IN
       \/ /\ delivered' = delivered \cup {a}
          /\ outcome' = [outcome EXCEPT ![a] = IF @ = "queued" THEN "ok" ELSE @]
       \/ Dropped({a}) /\ UNCHANGED delivered
    /\ UNCHANGED <<configVars, loopVars, taskVars, stop, edits>>

TakeSettings ==
    /\ phase = "serve" /\ Next1("settings")
    /\ cmds' = Tail(cmds)
    /\ view' = Head(cmds).arg
    /\ UNCHANGED <<configVars, loopVars, phase, snap, failures, status, outcome,
                   delivered, stop, edits>>

TakeShutdown ==
    /\ phase = "serve" /\ Next1("shutdown")
    /\ phase' = "stopping"
    /\ cmds' = Tail(cmds)
    /\ UNCHANGED <<configVars, loopVars, snap, view, failures, status, outcome,
                   delivered, stop, edits>>

\* graceful_shutdown has run; the process is gone.
Stopped ==
    /\ phase = "stopping"
    /\ End("stopped")
    /\ UNCHANGED <<configVars, loopVars, snap, failures, delivered, stop, edits>>

--------------------------------------------------------------------------------
\* stop_handle: the handle has left the plugins map, so no action follows.

AskStop ==
    /\ stop = "none"
    /\ stop' = "sending"
    /\ UNCHANGED <<configVars, loopVars, cmds, taskVars, outcome, delivered, edits>>

SendStop ==
    /\ stop = "sending"
    /\ IF phase = "ended"
       THEN UNCHANGED cmds
       ELSE /\ Len(cmds) < CmdCap
            /\ cmds' = Append(cmds, [kind |-> "shutdown", arg |-> NoValue])
    /\ stop' = "sent"
    /\ UNCHANGED <<configVars, loopVars, taskVars, outcome, delivered, edits>>

\* STOP_TIMEOUT: the task is aborted and sends no status any more.
Abort ==
    /\ stop # "none" /\ phase # "ended"
    /\ End(status)
    /\ UNCHANGED <<configVars, loopVars, snap, failures, delivered, stop, edits>>

--------------------------------------------------------------------------------
Loop == LoopRecv \/ LoopDrain \/ LoopResync \/ LoopPush
Run  == \/ Spawned \/ Initialized \/ RunFails \/ BackoffOver \/ TakeDown
        \/ TakeAction \/ TakeSettings \/ TakeShutdown \/ Stopped

Next ==
    \/ EditSettings \/ Loop \/ Run
    \/ \E a \in Action : Dispatch(a) \/ ActionTimesOut(a)
    \/ AskStop \/ SendStop \/ Abort

Spec == Init /\ [][Next]_vars

\* The tasks run on, initialize and preparation have timeouts, and so has a
\* stop.  A process in serve is under no obligation to fail.
Fairness ==
    /\ WF_vars(Loop) /\ WF_vars(Spawned \/ (phase = "prepare" /\ RunFails))
    /\ WF_vars(Initialized \/ (phase = "init" /\ RunFails))
    /\ WF_vars(BackoffOver) /\ WF_vars(Stopped) /\ WF_vars(TakeDown)
    /\ WF_vars(TakeAction \/ TakeSettings \/ TakeShutdown)
    /\ WF_vars(SendStop) /\ WF_vars(Abort)

FairSpec == Spec /\ Fairness

--------------------------------------------------------------------------------
\* Properties.

SettingsInFlight ==
    \/ snaps # <<>> \/ lagged \/ ~LoopIdle
    \/ \E i \in DOMAIN cmds : cmds[i].kind = "settings"

SeesLatest ==
    phase = "serve" /\ stop = "none" /\ ~SettingsInFlight => view = settings

\* A serving plugin that is not being stopped and for which nothing is in
\* flight was told the settings of the current config last, whatever was
\* changed, dropped and pushed again while it started (runner.rs: serve,
\* backoff_wait; watcher.rs).
PluginSeesLatest == ~everLagged => SeesLatest

\* The same when the config loop has lost snapshots.
PluginSeesLatestAfterLag == SeesLatest

\* What the caller of an action is told is true: an acknowledged action was
\* handed to the process, a refused one was not (runner.rs: Action).
AnswersAreHonest ==
    \A a \in Action :
        /\ outcome[a] = "ok" => a \in delivered
        /\ outcome[a] = "notRunning" => a \notin delivered

\* An action reported as not accepted never reaches the plugin (mod.rs: Busy).
BusyMeansNotAccepted ==
    \A a \in Action : outcome[a] = "busy" => a \notin delivered

\* A plugin that never again gets as far as serving is given up
\* (run_lifecycle; backoff.rs).
CrashLoopEnds == (<>[](phase # "serve")) => <>(phase = "ended")
================================================================================
