----------------------------- MODULE SettingsCapture -----------------------------
(***************************************************************************)
(* The settings window and its pictures (smabar/src/surfaces: mod.rs,      *)
(* settings.rs; capture.rs; smabar-core/src/capture.rs;                    *)
(* shell/src/ipc/capture.ts).                                              *)
(*                                                                         *)
(* The window is created on first use and hidden when closed; its page     *)
(* reports when it listens.  open_settings and toggle_settings run on      *)
(* worker threads; the page's report and the closing of the window run on  *)
(* the main thread.  They share settings_group, behind a lock that none of *)
(* them holds while it shows or hides the window.                          *)
(*                                                                         *)
(* An agent's requests for pictures and for opening settings pass one      *)
(* after the other: the core wakes the page (on Windows a hidden one does  *)
(* not render), sends an event, waits for the page's reply, takes the      *)
(* picture, and sends another event that puts the page back.               *)
(***************************************************************************)
EXTENDS Naturals, Sequences, FiniteSets, TLC

CONSTANTS Worker,          \* tasks that run open_settings and toggle_settings
          Request,         \* requests of agents
          Attempts,        \* TARGET_RETRY_COUNT
          SettingsBudgets  \* bounds: how often what may happen

SettingsEvents == {"open", "toggle", "close", "request", "fail", "deaf", "timeout"}
ASSUME SettingsAssumption == Attempts \in Nat /\ SettingsBudgets \subseteq [SettingsEvents -> Nat]

VARIABLES
    group,        \* settings_group; "closed" for None
    window,       \* the native window: it exists, its page is ready, visible, its webview awake
    tasks,        \* per thread, the step of what it runs
    told,         \* what the bar's page was told last: settings are open
    queue,        \* the requests in the port
    asked,        \* per request, what became of it
    shot,         \* the task that serves them
    pending,      \* ids whose reply is awaited
    reply,        \* the reply that arrived
    inbox,        \* events for the settings page
    staged,       \* the id the page is staged for, 0 if none
    painting,     \* the page: ids that wait for a paint, and those cancelled meanwhile
    settingsLeft  \* bounds: the events that may still happen

windowVars  == <<group, window, tasks, told>>
captureVars == <<queue, asked, shot, pending, reply, inbox, staged, painting>>
settingsVars == <<windowVars, captureVars, settingsLeft>>

--------------------------------------------------------------------------------
Hidden == "closed"
Main == "main"
Resting == [step |-> "idle"]
Proceed(t, step) == [tasks EXCEPT ![t] = [@ EXCEPT !.step = step]]
SpendSettings(event) == settingsLeft[event] > 0 /\ settingsLeft' = [settingsLeft EXCEPT ![event] = @ - 1]
NoShot == [step |-> "idle", id |-> 0, attempt |-> 0]

SettingsInit ==
    /\ group = Hidden /\ told = FALSE
    /\ window = [exists |-> FALSE, ready |-> FALSE, visible |-> FALSE, awake |-> FALSE]
    /\ tasks = [t \in Worker \cup {Main} |-> Resting]
    /\ queue = <<>> /\ asked = [r \in Request |-> "no"] /\ shot = NoShot
    /\ pending = {} /\ reply = "none" /\ inbox = <<>> /\ staged = 0
    /\ painting = [active |-> {}, cancelled |-> {}]
    /\ settingsLeft \in SettingsBudgets

--------------------------------------------------------------------------------
(* Opening and closing. *)

Reaches(t, step) == tasks[t].step = step
Shown(on) == window' = [window EXCEPT !.visible = on, !.awake = on]

\* open_settings: the window is created when it is missing, hidden and not ready.
BeginOpen(t, for) ==
    /\ window' = IF window.exists THEN window
                 ELSE [exists |-> TRUE, ready |-> FALSE, visible |-> FALSE, awake |-> FALSE]
    /\ tasks' = [tasks EXCEPT ![t] = [step |-> "check", previous |-> group, for |-> for]]
    /\ group' = "bar"

OpenSettings(t) ==
    /\ t # Main /\ tasks[t] = Resting /\ SpendSettings("open") /\ BeginOpen(t, 0)
    /\ UNCHANGED <<told, captureVars>>

\* toggle_settings: one in front is closed, one behind another is raised.
ToggleSettings(t) ==
    /\ t # Main /\ tasks[t] = Resting /\ SpendSettings("toggle")
    /\ IF group # Hidden /\ window.exists
       THEN \E step \in {"hide", "raise"} :
                /\ tasks' = [tasks EXCEPT ![t] = [step |-> step, previous |-> group, for |-> 0]]
                /\ UNCHANGED <<group, window>>
       ELSE BeginOpen(t, 0)
    /\ UNCHANGED <<told, captureVars>>

\* Without a ready page there is nothing to present: mark_ready will.
OpenCheck(t) ==
    /\ Reaches(t, "check")
    /\ tasks' = Proceed(t, IF window.ready THEN "raise" ELSE "read")
    /\ UNCHANGED <<group, window, told, settingsLeft, captureVars>>

\* present_settings and raise_settings; a failure puts settings_group back.
RaiseSettings(t) ==
    /\ Reaches(t, "raise")
    /\ \/ Shown(TRUE) /\ UNCHANGED <<group, settingsLeft>>
       \/ t # Main /\ SpendSettings("fail") /\ group' = tasks[t].previous /\ UNCHANGED window
    /\ tasks' = IF t = Main THEN [tasks EXCEPT ![t] = Resting] ELSE Proceed(t, "read")
    /\ UNCHANGED <<told, captureVars>>

\* close: on the main thread, or from toggle_settings.
CloseSettings ==
    /\ tasks[Main] = Resting /\ window.exists /\ SpendSettings("close")
    /\ tasks' = [tasks EXCEPT ![Main] = [step |-> "hide", previous |-> group, for |-> 0]]
    /\ UNCHANGED <<group, window, told, captureVars>>

HideSettings(t) ==
    /\ Reaches(t, "hide") /\ Shown(FALSE) /\ tasks' = Proceed(t, "forget")
    /\ UNCHANGED <<group, told, settingsLeft, captureVars>>

ForgetGroup(t) ==
    /\ Reaches(t, "forget") /\ group' = Hidden /\ tasks' = Proceed(t, "read")
    /\ UNCHANGED <<window, told, settingsLeft, captureVars>>

\* report_settings_state: settings_group is read, then the event is sent.
ReadState(t) ==
    /\ Reaches(t, "read")
    /\ tasks' = [tasks EXCEPT ![t] = [step |-> "report", open |-> group # Hidden, for |-> @.for]]
    /\ UNCHANGED <<group, window, told, settingsLeft, captureVars>>

\* MUTANT: a reply to a request that timed out is taken for one to the current request.
Resolve_Late(id, answer) == pending' = pending \ {id} /\ reply' = answer
Resolve(id, answer) ==
    /\ pending' = pending \ {id}
    /\ reply' = IF id \in pending THEN answer ELSE reply

\* The bar's page replies to the request it opened settings for.
ReportState(t) ==
    /\ Reaches(t, "report") /\ told' = tasks[t].open
    /\ Resolve(tasks[t].for, "done") /\ tasks' = [tasks EXCEPT ![t] = Resting]
    /\ UNCHANGED <<group, window, settingsLeft, queue, asked, shot, inbox, staged, painting>>

\* surface_ready: the page listens; a window that was asked for meanwhile is presented.
MarkReady ==
    /\ tasks[Main] = Resting /\ window.exists /\ ~window.ready
    /\ window' = [window EXCEPT !.ready = TRUE]
    /\ tasks' = [tasks EXCEPT ![Main] = [step |-> "requested", previous |-> Hidden, for |-> 0]]
    /\ UNCHANGED <<group, told, settingsLeft, captureVars>>

Requested ==
    /\ Reaches(Main, "requested")
    /\ tasks' = Proceed(Main, IF group # Hidden THEN "raise" ELSE "conceal")
    /\ UNCHANGED <<group, window, told, settingsLeft, captureVars>>

Conceal ==
    /\ Reaches(Main, "conceal") /\ Shown(FALSE) /\ tasks' = [tasks EXCEPT ![Main] = Resting]
    /\ UNCHANGED <<group, told, settingsLeft, captureVars>>

--------------------------------------------------------------------------------
(* Requests of agents: BarPort::send, spawn, screenshot, capture_once, ui_state. *)

Page == <<inbox, staged, painting>>
Doing(step) == shot' = [shot EXCEPT !.step = step]

SendShot(r, kind) ==
    /\ asked[r] = "no" /\ SpendSettings("request")
    /\ queue' = Append(queue, [from |-> r, kind |-> kind]) /\ asked' = [asked EXCEPT ![r] = "sent"]
    /\ UNCHANGED <<windowVars, shot, pending, reply, Page>>

\* REQUEST_TIMEOUT: the caller is told so; its request stays where it is.
SendTimesOut(r) ==
    /\ asked[r] = "sent" /\ SpendSettings("timeout") /\ asked' = [asked EXCEPT ![r] = "timed out"]
    /\ UNCHANGED <<windowVars, queue, shot, pending, reply, Page>>

Receive ==
    /\ shot.step = "idle" /\ queue # <<>>
    /\ shot' = [step |-> Head(queue).kind, id |-> shot.id, attempt |-> 0]
    /\ UNCHANGED <<windowVars, settingsLeft, queue, asked, pending, reply, Page>>

Respond(answer) ==
    /\ asked' = [asked EXCEPT ![Head(queue).from] = IF @ = "sent" THEN answer ELSE @]
    /\ queue' = Tail(queue) /\ Doing("idle")

\* CaptureState::begin
Begin(step) ==
    /\ shot' = [shot EXCEPT !.step = step, !.id = @ + 1]
    /\ pending' = pending \cup {shot.id + 1} /\ reply' = "none"

\* A page that is not ready is asked again later; one without a window is not.
Screenshot ==
    /\ shot.step = "picture"
    /\ \/ /\ ~window.exists \/ shot.attempt = Attempts
          /\ Respond("failed") /\ UNCHANGED <<pending, reply>>
       \/ /\ window.exists /\ ~window.ready /\ shot.attempt < Attempts
          /\ shot' = [shot EXCEPT !.attempt = @ + 1] /\ UNCHANGED <<queue, asked, pending, reply>>
       \/ /\ window.ready /\ shot.attempt < Attempts
          /\ Begin("wake") /\ UNCHANGED <<queue, asked>>
    /\ UNCHANGED <<windowVars, settingsLeft, Page>>

Wake ==
    /\ shot.step = "wake"
    /\ \/ window' = [window EXCEPT !.awake = TRUE] /\ Doing("emit") /\ UNCHANGED settingsLeft
       \/ SpendSettings("deaf") /\ Doing("release") /\ UNCHANGED window
    /\ UNCHANGED <<group, tasks, told, queue, asked, pending, reply, Page>>

Emit ==
    /\ shot.step = "emit" /\ Doing("await")
    /\ inbox' = Append(inbox, [event |-> "capture", id |-> shot.id])
    /\ UNCHANGED <<windowVars, settingsLeft, queue, asked, pending, reply, staged, painting>>

Reply ==
    /\ shot.step = "await" /\ reply # "none"
    /\ Doing(IF reply = "measured" THEN "render" ELSE "release")
    /\ UNCHANGED <<windowVars, settingsLeft, queue, asked, pending, reply, Page>>

Forgotten(id) == pending \ {id}

\* REPLY_TIMEOUT
ReplyTimesOut ==
    /\ shot.step \in {"await", "commanded"} /\ reply = "none" /\ SpendSettings("timeout")
    /\ pending' = Forgotten(shot.id)
    /\ IF shot.step = "await" THEN Doing("release") /\ UNCHANGED <<queue, asked>> ELSE Respond("failed")
    /\ UNCHANGED <<windowVars, reply, Page>>

\* snapshot_png: the picture is cut out and encoded, or something of that fails.
SnapshotPng == {"pictured", "failed"}
TakePicture ==
    /\ shot.step = "render" /\ Doing("release") /\ reply' \in SnapshotPng
    /\ UNCHANGED <<windowVars, settingsLeft, queue, asked, pending, Page>>

ReleasePage ==
    /\ shot.step = "release" /\ Doing("restore")
    /\ pending' = pending \ {shot.id}
    /\ inbox' = Append(inbox, [event |-> "release", id |-> shot.id])
    /\ UNCHANGED <<windowVars, settingsLeft, queue, asked, reply, staged, painting>>

\* restore_hidden_settings_capture: under the lock; a window that was opened stays awake.
StaysAwake == group # Hidden
Restore ==
    /\ shot.step = "restore"
    /\ window' = [window EXCEPT !.awake = @ /\ StaysAwake]
    /\ IF reply = "unknown" /\ shot.attempt + 1 < Attempts
       THEN shot' = [shot EXCEPT !.step = "picture", !.attempt = @ + 1] /\ UNCHANGED <<queue, asked>>
       ELSE Respond(IF reply = "pictured" THEN reply ELSE "failed")
    /\ UNCHANGED <<group, tasks, told, settingsLeft, pending, reply, Page>>

\* ui_state: the bar's page opens settings on the caller's behalf.
UiState(t) ==
    /\ shot.step = "open" /\ t # Main /\ tasks[t] = Resting
    /\ Begin("commanded") /\ BeginOpen(t, shot.id + 1)
    /\ UNCHANGED <<told, settingsLeft, queue, asked, Page>>

Commanded ==
    /\ shot.step = "commanded" /\ reply # "none" /\ Respond("opened")
    /\ UNCHANGED <<windowVars, settingsLeft, pending, reply, Page>>

--------------------------------------------------------------------------------
(* The settings page: initCapture. *)

Cancelled(id) == IF id \in painting.active THEN painting.cancelled \cup {id} ELSE painting.cancelled

Cleared(id) == IF staged = id THEN 0 ELSE staged

\* A capture: the subject is staged and painted, or it is not on the page.
Stage ==
    /\ inbox # <<>> /\ Head(inbox).event = "capture" /\ inbox' = Tail(inbox)
    /\ LET id == Head(inbox).id
       IN \/ /\ staged' = id /\ painting' = [painting EXCEPT !.active = @ \cup {id}]
             /\ UNCHANGED <<pending, reply>>
          \/ staged' = 0 /\ Resolve(id, "unknown") /\ UNCHANGED painting
    /\ UNCHANGED <<windowVars, settingsLeft, queue, asked, shot>>

Painted(id) ==
    /\ id \in painting.active
    /\ painting' = [active |-> painting.active \ {id}, cancelled |-> painting.cancelled \ {id}]
    /\ IF id \in painting.cancelled THEN UNCHANGED <<pending, reply>> ELSE Resolve(id, "measured")
    /\ UNCHANGED <<windowVars, settingsLeft, queue, asked, shot, inbox, staged>>

PageReleased ==
    /\ inbox # <<>> /\ Head(inbox).event = "release" /\ inbox' = Tail(inbox)
    /\ staged' = Cleared(Head(inbox).id)
    /\ painting' = [painting EXCEPT !.cancelled = Cancelled(Head(inbox).id)]
    /\ UNCHANGED <<windowVars, settingsLeft, queue, asked, shot, pending, reply>>

--------------------------------------------------------------------------------
SettingsNext ==
    \/ CloseSettings \/ MarkReady \/ Requested \/ Conceal
    \/ \E t \in Worker : OpenSettings(t) \/ ToggleSettings(t) \/ OpenCheck(t) \/ UiState(t)
    \/ \E t \in Worker \cup {Main} : RaiseSettings(t) \/ HideSettings(t) \/ ForgetGroup(t) \/ ReadState(t) \/ ReportState(t)
    \/ \E r \in Request : SendTimesOut(r) \/ \E kind \in {"picture", "open"} : SendShot(r, kind)
    \/ Receive \/ Screenshot \/ Wake \/ Emit \/ Reply \/ ReplyTimesOut \/ TakePicture \/ ReleasePage \/ Restore
    \/ Commanded \/ Stage \/ PageReleased \/ \E id \in painting.active : Painted(id)

SettingsSpec == SettingsInit /\ [][SettingsNext]_settingsVars

--------------------------------------------------------------------------------
SettingsTypeOK ==
    /\ group \in {Hidden, "bar"} /\ window \in [{"exists", "ready", "visible", "awake"} -> BOOLEAN]
    /\ pending \subseteq 1 .. shot.id /\ staged \in 0 .. shot.id /\ told \in BOOLEAN
    /\ painting.active \subseteq 1 .. shot.id /\ painting.cancelled \subseteq painting.active

WindowQuiet == \A t \in DOMAIN tasks : tasks[t] = Resting
CaptureQuiet == shot.step = "idle" /\ queue = <<>> /\ inbox = <<>> /\ painting.active = {}

\* An open window is never left blank: whatever a picture woke is put back to sleep only
\* while the window is closed, though it may be opened, closed and opened again meanwhile
\* (settings.rs:19).
OpenIsAwake == (WindowQuiet /\ group # Hidden /\ window.visible) => window.awake

\* Between the page's reply and the release the page is staged for that very request: the
\* staged layout survives exactly that window (shell/src/ipc/capture.ts:7).
StageSurvivesPicture == shot.step = "render" => staged = shot.id

\* Whatever times out, is refused or answered late, the page is put back and no slot for a
\* reply is left behind (capture.rs:178: "Release on every outcome").
NothingStaysStaged == CaptureQuiet => staged = 0 /\ pending = {} /\ painting.cancelled = {}

\* The window is visible only when settings_group says so ...
ShownMeansOpen == WindowQuiet => (window.visible => group # Hidden)
\* ... and whenever it does, once its page is ready.
OpenIsShown == (WindowQuiet /\ group # Hidden /\ window.ready) => window.visible

\* A visible window is never blank.
VisibleIsAwake == (WindowQuiet /\ CaptureQuiet /\ window.visible) => window.awake

\* The bar's page knows whether settings are open.
BarKnowsSettings == WindowQuiet => told = (group # Hidden)
================================================================================
