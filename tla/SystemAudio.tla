------------------------------- MODULE SystemAudio -------------------------------
(***************************************************************************)
(* The default audio output (smabar-core/src/platform/audio.rs, with       *)
(* audio/linux.rs and audio/windows.rs): a worker keeps a snapshot of it,  *)
(* which the provider samples, and takes commands that set its volume.     *)
(*                                                                         *)
(* On Linux the worker talks to the sound server, which tells it of        *)
(* changes, goes away and comes back; it reads the name of the default     *)
(* output and then that output, and anything may change between two of its *)
(* calls.  On Windows it reads again every 250 ms.                         *)
(***************************************************************************)
EXTENDS Integers, Sequences

CONSTANTS Output,         \* audio outputs
          Loudness,       \* volumes
          AudioCommand,   \* commands of plugins
          AudioBudgets    \* bounds: how often what may happen

AudioEvents == {"command", "switch", "volume", "outage", "deadline"}
ASSUME AudioAssumption == AudioBudgets \subseteq [AudioEvents -> Nat]

VARIABLES
    desktop,      \* "windows" or "linux"
    outputs,      \* the truth: the default output and the volume of each
    soundServer,  \* the sound server runs, and the worker's connection to it stands
    audioWorker,  \* the step of the worker, the output it has found, the command it serves
    dirty,        \* dirty; on Windows: something has changed since the last sample
    snapshot,     \* what sample() returns
    commandQueue, \* commands the worker has not taken
    commands,     \* each command: its volume, its caller's state, its deadline, its outcome
    audioLeft     \* bounds: the events that may still happen

audioVars == <<desktop, outputs, soundServer, audioWorker, dirty, snapshot, commandQueue, commands,
               audioLeft>>

--------------------------------------------------------------------------------
SpendAudio(event) == audioLeft[event] > 0 /\ audioLeft' = [audioLeft EXCEPT ![event] = @ - 1]
NoOutput == "none"
NoCommand == "none"
Failure == [output |-> "error", level |-> 0]
Silence == [output |-> NoOutput, level |-> 0]
Reading(name) ==
    IF name = NoOutput THEN Silence ELSE [output |-> name, level |-> outputs.level[name]]
Idle == [step |-> "loop", output |-> NoOutput, command |-> NoCommand]
WorkerAt(step) == audioWorker.step = step
Goes(step) == audioWorker' = [audioWorker EXCEPT !.step = step]

\* AudioSource::default: no device until the worker's first sample.
AudioInit ==
    /\ desktop \in {"windows", "linux"}
    /\ outputs = [default |-> CHOOSE o \in Output : TRUE,
                  level |-> [o \in Output |-> CHOOSE l \in Loudness : TRUE]]
    /\ soundServer = [up |-> TRUE, connected |-> FALSE]
    /\ audioWorker = [Idle EXCEPT !.step = "connect"] /\ dirty = FALSE
    /\ snapshot = Silence /\ commandQueue = <<>>
    /\ commands = [c \in AudioCommand |->
                      [level |-> 0, state |-> "new", late |-> FALSE, outcome |-> "none",
                       applied |-> FALSE]]
    /\ audioLeft \in AudioBudgets

--------------------------------------------------------------------------------
(* The system.  What it tells of marks the snapshot as dirty. *)

Changed(what) ==
    /\ outputs' = what /\ outputs' # outputs /\ dirty' = (dirty \/ soundServer.connected)
    /\ UNCHANGED <<desktop, soundServer, audioWorker, snapshot, commandQueue, commands>>
SwitchOutput ==
    SpendAudio("switch") /\ \E o \in Output \cup {NoOutput} : Changed([outputs EXCEPT !.default = o])
TurnKnob ==
    SpendAudio("volume") /\ \E o \in Output, l \in Loudness : Changed([outputs EXCEPT !.level[o] = l])
Outage ==
    /\ desktop = "linux" /\ soundServer.up /\ SpendAudio("outage")
    /\ soundServer' = [up |-> FALSE, connected |-> FALSE]
    /\ UNCHANGED <<desktop, outputs, audioWorker, dirty, snapshot, commandQueue, commands>>
ServerReturns ==
    /\ ~soundServer.up /\ soundServer' = [soundServer EXCEPT !.up = TRUE]
    /\ UNCHANGED <<desktop, outputs, audioWorker, dirty, snapshot, commandQueue, commands, audioLeft>>

--------------------------------------------------------------------------------
(* Commands. *)

\* AudioSource::action
SendCommand(c) ==
    /\ SpendAudio("command") /\ commands[c].state = "new"
    /\ \E l \in Loudness :
        commands' = [commands EXCEPT ![c] = [@ EXCEPT !.level = l, !.state = "waiting"]]
    /\ commandQueue' = Append(commandQueue, c)
    /\ UNCHANGED <<desktop, outputs, soundServer, audioWorker, dirty, snapshot>>
\* Its deadline, and a little later the caller gives up.
DeadlinePasses(c) ==
    /\ SpendAudio("deadline") /\ commands[c].state = "waiting" /\ ~commands[c].late
    /\ commands' = [commands EXCEPT ![c].late = TRUE]
    /\ UNCHANGED <<desktop, outputs, soundServer, audioWorker, dirty, snapshot, commandQueue>>
GiveUp(c) ==
    /\ commands[c].late /\ commands[c].state = "waiting"
    /\ commands' = [commands EXCEPT ![c] = [@ EXCEPT !.state = "gone", !.outcome = "timeout"]]
    /\ UNCHANGED <<desktop, outputs, soundServer, audioWorker, dirty, snapshot, commandQueue, audioLeft>>
\* An answer nobody awaits is dropped.
Replied(c, outcome) ==
    IF commands[c].state = "waiting"
    THEN [commands EXCEPT ![c] = [@ EXCEPT !.outcome = outcome, !.state = "answered"]]
    ELSE commands
Refusal(c) == IF commands[c].late THEN "timeout" ELSE "failed"

--------------------------------------------------------------------------------
(* The worker. *)

\* connect: subscribed before the first read.
ConnectServer ==
    /\ WorkerAt("connect") /\ Goes(IF soundServer.up THEN "read" ELSE "pause")
    /\ soundServer' = [soundServer EXCEPT !.connected = soundServer.up]
    /\ snapshot' = IF soundServer.up THEN snapshot ELSE Failure
    /\ dirty' = (soundServer.up /\ desktop = "linux")
    /\ UNCHANGED <<desktop, outputs, commandQueue, commands, audioLeft>>
\* Between two attempts commands are refused.
Pause ==
    /\ WorkerAt("pause") /\ soundServer.up /\ Goes("connect")
    /\ UNCHANGED <<desktop, outputs, soundServer, dirty, snapshot, commandQueue, commands, audioLeft>>
Refuse ==
    /\ WorkerAt("pause") /\ commandQueue # <<>> /\ commandQueue' = Tail(commandQueue)
    /\ commands' = Replied(Head(commandQueue), Refusal(Head(commandQueue))) /\ Goes("connect")
    /\ UNCHANGED <<desktop, outputs, soundServer, dirty, snapshot, audioLeft>>

\* When the mark is cleared: before the output is read.
\* MUTANT: after that.
Clears_After(when) == when = "read"
Clears(when) == when = "taken"
Unmarked(when) == dirty' = (dirty /\ ~Clears(when))

\* read_data and default_sink: the name of the default output, then that output.
ReadName ==
    /\ WorkerAt("read") /\ soundServer.connected
    /\ audioWorker' = [audioWorker EXCEPT !.step = "sink", !.output = outputs.default]
    /\ UNCHANGED <<desktop, outputs, soundServer, dirty, snapshot, commandQueue, commands, audioLeft>>
ReadOutput ==
    /\ WorkerAt("sink") /\ soundServer.connected
    /\ snapshot' = Reading(audioWorker.output) /\ audioWorker' = Idle /\ Unmarked("read")
    /\ UNCHANGED <<desktop, outputs, soundServer, commandQueue, commands, audioLeft>>
ReadFails ==
    /\ WorkerAt("read") \/ WorkerAt("sink")
    /\ ~soundServer.connected /\ snapshot' = Failure /\ audioWorker' = Idle
    /\ UNCHANGED <<desktop, outputs, soundServer, dirty, commandQueue, commands, audioLeft>>

\* After a command: on Linux it is read again if it succeeded, on Windows always.
After(success) == [Idle EXCEPT !.step = IF success \/ desktop = "windows" THEN "read" ELSE "loop"]
\* run: commands first.
TakeCommand ==
    /\ WorkerAt("loop") /\ commandQueue # <<>> /\ commandQueue' = Tail(commandQueue)
    /\ LET c == Head(commandQueue)
       IN IF commands[c].late
          THEN commands' = Replied(c, "timeout") /\ audioWorker' = After(FALSE)
          ELSE /\ audioWorker' = [Idle EXCEPT !.step = "target", !.command = c]
               /\ UNCHANGED commands
    /\ UNCHANGED <<desktop, outputs, soundServer, dirty, snapshot, audioLeft>>
\* apply_action: the default output is looked up, then its volume set.
Target ==
    LET c == audioWorker.command
        found == soundServer.connected /\ ~commands[c].late /\ outputs.default # NoOutput
    IN /\ WorkerAt("target")
       /\ IF found
          THEN /\ audioWorker' = [audioWorker EXCEPT !.step = "set", !.output = outputs.default]
               /\ UNCHANGED commands
          ELSE commands' = Replied(c, Refusal(c)) /\ audioWorker' = After(FALSE)
       /\ UNCHANGED <<desktop, outputs, soundServer, dirty, snapshot, commandQueue, audioLeft>>
SetOutput ==
    LET c == audioWorker.command
    IN /\ WorkerAt("set") /\ soundServer.connected
       /\ outputs' = [outputs EXCEPT !.level[audioWorker.output] = commands[c].level]
       /\ dirty' = (dirty \/ outputs' # outputs)
       /\ commands' = [Replied(c, IF commands[c].late THEN "timeout" ELSE "done") EXCEPT
                          ![c].applied = TRUE]
       /\ audioWorker' = After(~commands[c].late)
       /\ UNCHANGED <<desktop, soundServer, snapshot, commandQueue, audioLeft>>
SetFails ==
    LET c == audioWorker.command
    IN /\ WorkerAt("set") /\ ~soundServer.connected
       /\ commands' = Replied(c, Refusal(c)) /\ audioWorker' = After(FALSE)
       /\ UNCHANGED <<desktop, outputs, soundServer, dirty, snapshot, commandQueue, audioLeft>>
\* run: then what is dirty, on Windows whatever 250 ms have brought.
TakeDirty ==
    /\ WorkerAt("loop") /\ commandQueue = <<>> /\ dirty /\ Unmarked("taken") /\ Goes("read")
    /\ UNCHANGED <<desktop, outputs, soundServer, snapshot, commandQueue, commands, audioLeft>>
\* pump
ConnectionLost ==
    /\ WorkerAt("loop") /\ ~soundServer.connected /\ ~dirty /\ Goes("pause") /\ snapshot' = Failure
    /\ UNCHANGED <<desktop, outputs, soundServer, dirty, commandQueue, commands, audioLeft>>

--------------------------------------------------------------------------------
AudioNext ==
    \/ SwitchOutput \/ TurnKnob \/ Outage \/ ServerReturns
    \/ \E c \in AudioCommand : SendCommand(c) \/ DeadlinePasses(c) \/ GiveUp(c)
    \/ ConnectServer \/ Pause \/ Refuse \/ ReadName \/ ReadOutput \/ ReadFails
    \/ TakeCommand \/ Target \/ SetOutput \/ SetFails \/ TakeDirty \/ ConnectionLost

AudioSpec == AudioInit /\ [][AudioNext]_audioVars

--------------------------------------------------------------------------------
AudioTypeOK ==
    /\ outputs.default \in Output \cup {NoOutput} /\ dirty \in BOOLEAN
    /\ snapshot = Failure \/ snapshot = Silence \/ snapshot.output \in Output

\* When the worker has nothing left to do, the snapshot is the output as it is, whatever was
\* switched, turned or set while it read; while it waits for the server, a
\* failure.
SnapshotCatchesUp ==
    /\ (WorkerAt("loop") /\ commandQueue = <<>> /\ ~dirty /\ soundServer.connected) =>
        snapshot = Reading(outputs.default)
    /\ WorkerAt("pause") => snapshot = Failure

\* A command that was reported as timed out has changed nothing.
TimedOutChangedNothing == \A c \in AudioCommand : commands[c].outcome = "timeout" => ~commands[c].applied
================================================================================
