-------------------------- MODULE RuntimeProvisioner ---------------------------
(***************************************************************************)
(* The provisioning of the managed Python runtime and those who wait for   *)
(* it: the lifecycle tasks of the Python plugins and the shell's retry     *)
(* button.  Source: plugins/provision.rs; supervisor.rs (stop_handle) and  *)
(* commands/runtime.rs for the callers.                                    *)
(*                                                                         *)
(* `attempts` is a u64 that is only compared with an earlier reading of    *)
(* itself, so each caller has the result of that comparison instead:       *)
(* moved[c], whether it grew since c read it.                              *)
(***************************************************************************)
EXTENDS Naturals, Sequences, FiniteSets, SequencesExt

CONSTANTS Plugin,     \* Python plugins, each with a lifecycle task
          Retry,      \* tasks of the retry button
          MaxLines,   \* bound: lines uv writes in one install
          MaxStale,   \* bound: unread lines of interrupted installs
          MaxFlips,   \* bound: changes of the network and of uv's presence
          MaxStops    \* bound: plugins stopped

ASSUME ProvisionerAssumption ==
    /\ Plugin \cap Retry = {} /\ IsFiniteSet(Plugin \cup Retry)
    /\ {MaxLines, MaxStale, MaxFlips, MaxStops} \subseteq Nat

VARIABLES
    installed,  \* the interpreter is on disk
    network,    \* a download can succeed
    found,      \* the uv binary is there
    flips,      \* bound counter
    status,     \* RuntimeStatus
    pc,         \* where each caller is
    queue,      \* callers queued at the install lock, first come first served
    moved,      \* `attempts` grew since the caller read it
    heard,      \* the caller's receiver holds a Ready
    answer,     \* what the caller's last ensure returned
    uv,         \* the uv process of the running install
    wrote,      \* lines it wrote
    pipe,       \* of these, lines its reader task has not handled
    stale,      \* lines that readers of interrupted installs have not handled
    stop,       \* stop_handle on the plugin: not called, Shutdown sent, aborting
    stops       \* bound counter

stopVars == <<stop, stops>>
callVars == <<pc, queue, moved, heard, answer>>
uvVars   == <<uv, wrote, pipe, stale>>
envVars  == <<network, found, flips>>
vars == <<installed, envVars, status, callVars, uvVars, stopVars>>

Caller   == Plugin \cup Retry
Statuses == {"Absent", "Installing", "Ready", "Failed"}
Outcomes == {"Ready", "Failed"}

TypeOK ==
    /\ installed \in BOOLEAN /\ network \in BOOLEAN /\ found \in BOOLEAN
    /\ flips \in 0..MaxFlips
    /\ status \in Statuses
    /\ pc \in [Caller -> {"idle", "begin", "load", "queued", "installing",
                          "finishing", "wait", "run", "stopped"}]
    /\ queue \in Seq(Caller) /\ Len(queue) <= Cardinality(Caller)
    /\ moved \in [Caller -> BOOLEAN] /\ heard \in [Caller -> BOOLEAN]
    /\ answer \in [Caller -> Statuses]
    /\ uv \in {"none", "running"} \cup Outcomes
    /\ wrote \in 0..MaxLines /\ pipe \in 0..wrote
    /\ stale \in 0..MaxStale
    /\ stop \in [Caller -> {"no", "asked", "abort"}] /\ stops \in 0..MaxStops

\* The probe at start sets the first status.
Init ==
    /\ installed \in BOOLEAN /\ network \in BOOLEAN /\ found \in BOOLEAN
    /\ flips = 0
    /\ status = IF installed THEN "Ready" ELSE "Absent"
    /\ pc = [c \in Caller |-> IF c \in Plugin THEN "begin" ELSE "idle"]
    /\ queue = <<>>
    /\ moved = [c \in Caller |-> FALSE] /\ heard = [c \in Caller |-> FALSE]
    /\ answer = [c \in Caller |-> "Absent"]
    /\ uv = "none" /\ wrote = 0 /\ pipe = 0 /\ stale = 0
    /\ stop = [c \in Caller |-> "no"] /\ stops = 0

--------------------------------------------------------------------------------
\* Status and bus.

\* Sets the status and publishes it; only a Ready wakes a waiting plugin.  (A
\* receiver that lagged wakes too, which is a retry before its time.)
Transition(s) ==
    /\ status' = s
    /\ heard' = IF s = "Ready" THEN [c \in Caller |-> TRUE] ELSE heard

Locked == \E c \in Caller : pc[c] \in {"installing", "finishing"}

\* ensure returns s: a plugin goes on to its process or waits, the task of the
\* retry button ends.
Return(c, s) ==
    /\ answer' = [answer EXCEPT ![c] = s]
    /\ pc' = [pc EXCEPT ![c] = IF c \in Retry THEN "idle"
                               ELSE IF s = "Ready" THEN "run" ELSE "wait"]

--------------------------------------------------------------------------------
\* ensure

Click(c) ==
    /\ c \in Retry /\ pc[c] = "idle"
    /\ pc' = [pc EXCEPT ![c] = "begin"]
    /\ UNCHANGED <<installed, envVars, status, queue, moved, heard, answer, uvVars, stopVars>>

\* Subscribes, then looks at the status.
Begin(c) ==
    /\ pc[c] = "begin"
    /\ heard' = [heard EXCEPT ![c] = FALSE]
    /\ IF status = "Ready"
         THEN Return(c, "Ready")
         ELSE /\ pc' = [pc EXCEPT ![c] = "load"]
              /\ UNCHANGED answer
    /\ UNCHANGED <<installed, envVars, status, queue, moved, uvVars, stopVars>>

\* Reads `attempts` and queues at the lock.
Load(c) ==
    /\ pc[c] = "load"
    /\ moved' = [moved EXCEPT ![c] = FALSE]
    /\ queue' = Append(queue, c)
    /\ pc' = [pc EXCEPT ![c] = "queued"]
    /\ UNCHANGED <<installed, envVars, status, heard, answer, uvVars, stopVars>>

AtLock(c) == ~Locked /\ queue # <<>> /\ c = Head(queue)

\* Mutant: only a success is shared.
Shared_ReadyOnly(c) == status = "Ready"

\* An attempt ended while c was queued.
Shared(c) == status = "Ready" \/ moved[c]

Share(c) ==
    /\ AtLock(c) /\ Shared(c)
    /\ queue' = Tail(queue)
    /\ Return(c, status)
    /\ UNCHANGED <<installed, envVars, status, moved, heard, uvVars, stopVars>>

\* uv is not found or cannot be started: the attempt ends before a process runs.
UvMissing(c) ==
    /\ AtLock(c) /\ ~Shared(c)
    /\ queue' = Tail(queue)
    /\ ~found
    /\ Transition("Failed")
    /\ uv' = "Failed" /\ wrote' = 0 /\ pipe' = 0
    /\ pc' = [pc EXCEPT ![c] = "finishing"]
    /\ UNCHANGED <<installed, envVars, moved, answer, stale, stopVars>>

StartUv(c) ==
    /\ AtLock(c) /\ ~Shared(c)
    /\ queue' = Tail(queue)
    /\ found
    /\ Transition("Installing")
    /\ uv' = "running" /\ wrote' = 0 /\ pipe' = 0
    /\ pc' = [pc EXCEPT ![c] = "installing"]
    /\ UNCHANGED <<installed, envVars, moved, answer, stale, stopVars>>

--------------------------------------------------------------------------------
\* The uv process and its reader tasks.

UvWrites ==
    /\ uv = "running" /\ wrote < MaxLines
    /\ wrote' = wrote + 1 /\ pipe' = pipe + 1
    /\ UNCHANGED <<installed, envVars, status, callVars, uv, stale, stopVars>>

\* An installed interpreter needs no network.
UvExits ==
    /\ uv = "running"
    /\ uv' = IF network \/ installed THEN "Ready" ELSE "Failed"
    /\ installed' = (network \/ installed)
    /\ UNCHANGED <<envVars, status, callVars, wrote, pipe, stale, stopVars>>

ReadLine ==
    /\ pipe > 0
    /\ pipe' = pipe - 1
    /\ Transition("Installing")
    /\ UNCHANGED <<installed, envVars, pc, queue, moved, answer, uv, wrote, stale, stopVars>>

\* The reader of an install that ended without waiting for it.
ReadStaleLine ==
    /\ stale > 0
    /\ stale' = stale - 1
    /\ Transition("Installing")
    /\ UNCHANGED <<installed, envVars, pc, queue, moved, answer, uv, wrote, pipe, stopVars>>

--------------------------------------------------------------------------------
\* The end of an install.

Detach == stale' = stale + pipe /\ pipe' = 0 /\ wrote' = 0

Outcome == uv

\* uv exited and its reader, awaited, is at the end of the output.
Collect(c) ==
    /\ pc[c] = "installing" /\ uv \in Outcomes /\ pipe = 0
    /\ Transition(Outcome)
    /\ pc' = [pc EXCEPT ![c] = "finishing"]
    /\ uv' = Outcome
    /\ UNCHANGED <<installed, envVars, queue, moved, answer, wrote, pipe, stale, stopVars>>

\* A hanging download is killed after INSTALL_TIMEOUT; its reader is not awaited.
Timeout(c) ==
    /\ pc[c] = "installing" /\ uv = "running"
    /\ ~network /\ ~installed
    /\ stale + pipe <= MaxStale
    /\ Detach
    /\ Transition("Failed")
    /\ uv' = "Failed"
    /\ pc' = [pc EXCEPT ![c] = "finishing"]
    /\ UNCHANGED <<installed, envVars, queue, moved, answer, stopVars>>

\* Counts the attempt, releases the lock and returns.
Finish(c) ==
    /\ pc[c] = "finishing"
    /\ moved' = [d \in Caller |-> TRUE]
    /\ Return(c, uv)
    /\ uv' = "none"
    /\ UNCHANGED <<installed, envVars, status, queue, heard, wrote, pipe, stale, stopVars>>

--------------------------------------------------------------------------------
\* Waiting for the next round, and the plugin's end.

WakeUp(c) ==
    /\ pc[c] = "wait" /\ stop[c] # "abort"
    /\ pc' = [pc EXCEPT ![c] = "begin"]
    /\ UNCHANGED <<installed, envVars, status, queue, moved, heard, answer, uvVars, stopVars>>

HearReady(c) == heard[c] /\ WakeUp(c)

\* Mutant: the retry timer is not armed unless a Ready is about to arrive.
RetryDelayOver_Unarmed(c) == heard[c] /\ WakeUp(c)

RetryDelayOver(c) == WakeUp(c)

\* The plugin's process failed and is started again.
RunFails(c) ==
    /\ pc[c] = "run" /\ stop[c] = "no"
    /\ pc' = [pc EXCEPT ![c] = "begin"]
    /\ UNCHANGED <<installed, envVars, status, queue, moved, heard, answer, uvVars, stopVars>>

Stop(c) ==
    /\ c \in Plugin /\ stop[c] = "no" /\ pc[c] # "stopped"
    /\ stops < MaxStops /\ stops' = stops + 1
    /\ stop' = [stop EXCEPT ![c] = "asked"]
    /\ UNCHANGED <<installed, envVars, status, callVars, uvVars>>

\* Only the wait between two rounds and the run listen to Shutdown.
ObeyStop(c) ==
    /\ pc[c] \in {"wait", "run"} /\ stop[c] # "no"
    /\ pc' = [pc EXCEPT ![c] = "stopped"]
    /\ UNCHANGED <<installed, envVars, status, queue, moved, heard, answer, uvVars, stopVars>>

\* STOP_TIMEOUT after Shutdown was sent.
GraceOver(c) ==
    /\ stop[c] = "asked" /\ pc[c] # "stopped"
    /\ stop' = [stop EXCEPT ![c] = "abort"]
    /\ UNCHANGED <<stops, installed, envVars, status, callVars, uvVars>>

\* The task is aborted where it awaits: it leaves the queue of the lock, or its
\* install ends with it, uv killed and the reader left behind.
Abort(c) ==
    /\ stop[c] = "abort"
    /\ pc' = [pc EXCEPT ![c] = "stopped"]
    /\ \/ /\ pc[c] = "queued"
          /\ queue' = Remove(queue, c)
          /\ UNCHANGED uvVars
       \/ /\ pc[c] = "installing"
          /\ stale + pipe <= MaxStale
          /\ Detach
          /\ uv' = "none"
          /\ UNCHANGED queue
    /\ UNCHANGED <<installed, envVars, status, moved, heard, answer, stopVars>>

\* The supervisor starts the plugin again.
Restart(c) ==
    /\ c \in Plugin /\ pc[c] = "stopped"
    /\ pc' = [pc EXCEPT ![c] = "begin"]
    /\ stop' = [stop EXCEPT ![c] = "no"]
    /\ UNCHANGED <<stops, installed, envVars, status, queue, moved, heard, answer, uvVars>>

HostChanges ==
    /\ flips < MaxFlips
    /\ flips' = flips + 1
    /\ \/ network' = ~network /\ UNCHANGED found
       \/ found' = ~found /\ UNCHANGED network
    /\ UNCHANGED <<installed, status, callVars, uvVars, stopVars>>

--------------------------------------------------------------------------------
Call(c) == Begin(c) \/ Load(c)
Take(c) == Share(c) \/ UvMissing(c) \/ StartUv(c)
End(c)  == Collect(c) \/ Timeout(c)
Wake(c) == HearReady(c) \/ RetryDelayOver(c)

Next ==
    \/ UvWrites \/ UvExits \/ ReadLine \/ ReadStaleLine \/ HostChanges
    \/ \E c \in Caller :
          \/ Click(c) \/ Call(c) \/ Take(c) \/ End(c) \/ Finish(c) \/ Wake(c)
          \/ RunFails(c) \/ Stop(c) \/ ObeyStop(c) \/ GraceOver(c) \/ Abort(c)
          \/ Restart(c)

\* Tasks and timers run, uv ends: whether the network ever comes back, whether
\* someone clicks, and whether plugins are stopped or restarted is not assumed.
Fairness ==
    /\ WF_vars(UvExits) /\ WF_vars(ReadLine) /\ WF_vars(ReadStaleLine)
    /\ \A c \in Caller :
          /\ WF_vars(Call(c)) /\ WF_vars(Take(c)) /\ WF_vars(Collect(c))
          /\ WF_vars(Finish(c)) /\ WF_vars(Wake(c))
          /\ WF_vars(ObeyStop(c)) /\ WF_vars(GraceOver(c)) /\ WF_vars(Abort(c))

Spec     == Init /\ [][Next]_vars
FairSpec == Spec /\ Fairness

--------------------------------------------------------------------------------
\* Safety

\* Whoever installs asked after the last attempt ended: callers that queued up
\* behind an attempt share it, whichever way it ended, instead of running uv
\* once each (ensure, the comparison of `attempts`).
OneAttemptServesAll == \A c \in Caller : pc[c] = "installing" => ~moved[c]

\* Nobody is told Ready, and no plugin's process is started, without an
\* interpreter on disk, whatever readers, timeouts and aborts did in between.
ReadyIsInstalled ==
    /\ status = "Ready" => installed
    /\ \A c \in Caller : answer[c] = "Ready" => installed

\* The docs of RuntimeStatus: Installing means that uv runs, Absent is also the
\* state after an interrupted install.
InstallingMeansRunning == status = "Installing" => Locked

\* The module docs: the outcome of an attempt, Ready or Failed, is shared.
OutcomeIsShared ==
    \A c \in Caller : pc[c] = "wait" => answer[c] \in Outcomes

--------------------------------------------------------------------------------
\* Liveness

\* A plugin that waits gets to its process or is stopped once uv is there and
\* the runtime is installed or the network stays up: the retry timer needs
\* neither the bus nor the user, and no abort of another plugin's task blocks
\* it (await_runtime).
Served(c) == pc[c] \in {"run", "stopped"}

EveryPluginIsServed ==
    <>[](found /\ (installed \/ network)) => \A c \in Plugin : []<>Served(c)

\* A plugin that is asked to stop ends, even inside an install that hangs.
StopIsObeyed == \A c \in Plugin : (stop[c] # "no") ~> (pc[c] = "stopped")
================================================================================
