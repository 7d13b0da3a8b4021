------------------------------- MODULE AppShell -------------------------------
(***************************************************************************)
(* The life of the application (smabar/src: main.rs, tray.rs,              *)
(* platform/autostart.rs, autostart_linux.rs, commands/update.rs,          *)
(* commands/legal.rs; smabar-core/src/legal; shell/src: useAutostart.ts).  *)
(*                                                                         *)
(* smabar registers itself to start at login once, and shows in the tray   *)
(* and on the settings page whether the desktop has it registered.  The    *)
(* page, the tray and a timer read and change the entry on worker threads, *)
(* one after the other; the user may change it behind smabar's back.       *)
(*                                                                         *)
(* Quitting, restarting and updating stop the plugins and give the edge of *)
(* the screen back, each on its own way out of the process.                *)
(***************************************************************************)
EXTENDS Naturals, Sequences, FiniteSets

CONSTANTS System,       \* "windows", "macos", "linux"
          Terms,        \* versions of the terms of use, in order
          ShellBudgets  \* bounds: how often what may happen

ShellEvents == {"read", "set", "toggle", "tick", "external", "fail", "crash", "start",
                "quit", "update", "publish", "report", "late"}
ASSUME ShellAssumption ==
    Terms \subseteq Nat /\ Terms # {} /\ ShellBudgets \subseteq [ShellEvents -> Nat]

VARIABLES
    system,    \* where it runs
    entry,     \* the login entry: "on", "off", or one nobody can read
    choice,    \* what was decided last about it, "none" before smabar's own registration
    marker,    \* autostart_initialized, in the settings file
    build,     \* the installed build's terms, and the accepted ones on disk (0: none)
    app,       \* the process: its phase, whether it starts again, how it ended
    known,     \* Registration: the status and initialization_failed
    ops,       \* what runs on worker threads: one operation each for the page, the tray, the timer
    tray,      \* the tray's check item
    pane,      \* the settings page: its status, its revision, whether it demands the terms
    mail,      \* events and replies under way to the page
    assets,    \* what must not outlive the process: plugins, the reserved strip
    ways,      \* the ways out: the quit task, the exit handler, the update
    shellLeft  \* bounds: the events that may still happen

loginVars == <<entry, choice, marker, known, ops, tray, pane, mail>>
exitVars  == <<app, build, assets, ways>>
shellVars == <<system, loginVars, exitVars, shellLeft>>

--------------------------------------------------------------------------------
Caller == {"page", "tray", "timer"}
Ready(at) == [state |-> "ready", registered |-> at]
Failed(at) == [state |-> "failed", registered |-> at]
Unasked == [step |-> "idle", action |-> "read", want |-> "off", version |-> 0]
NoWay == [quit |-> "no", exit |-> "no", update |-> "no", offered |-> 0]
SpendShell(event) == shellLeft[event] > 0 /\ shellLeft' = [shellLeft EXCEPT ![event] = @ - 1]
Up == app.phase = "up"

\* registered: nobody can say of a broken entry whether it is on.
Read == IF entry = "broken" THEN "none" ELSE entry
\* read_status
ReadStatus(failed) == IF failed \/ Read = "none" THEN Failed(Read) ELSE Ready(Read)
CheckMark(status) == [checked |-> status.registered = "on", enabled |-> status.registered # "none"]
NoPage == [open |-> FALSE, status |-> Failed("none"), revision |-> 0, gated |-> FALSE]

ShellInit ==
    /\ system \in System /\ entry = "off" /\ choice = "none" /\ marker = FALSE
    /\ build = [terms |-> CHOOSE t \in Terms : \A u \in Terms : t <= u, accepted |-> 0]
    /\ app = [phase |-> "down", again |-> FALSE, ended |-> "never"]
    /\ known = [status |-> Failed("none"), failed |-> FALSE]
    /\ ops = [c \in Caller |-> Unasked]
    /\ tray = CheckMark(Failed("none")) /\ pane = NoPage /\ mail = [events |-> <<>>, replies |-> {}]
    /\ assets = [plugins |-> FALSE, strip |-> FALSE] /\ ways = NoWay
    /\ shellLeft \in ShellBudgets

--------------------------------------------------------------------------------
(* Starting: main's setup, with autostart::setup and tray::setup. *)

\* The plugins run before the login entry is looked at.
StartApp ==
    /\ app.phase = "down" /\ SpendShell("start")
    /\ app' = [app EXCEPT !.phase = "mark", !.again = FALSE]
    /\ assets' = [assets EXCEPT !.plugins = TRUE]
    /\ UNCHANGED <<system, loginVars, build, ways>>

\* initialize: the entry is written only by the start that saved the marker.
\* MUTANT: the marker is not saved.
Marked_Forgotten(saved) == marker
Marked(saved) == marker \/ saved
Initialize ==
    /\ app.phase = "mark"
    /\ \/ /\ marker' = Marked(TRUE) /\ UNCHANGED shellLeft
          /\ app' = [app EXCEPT !.phase = IF marker THEN "tray" ELSE "enable"]
          /\ known' = [known EXCEPT !.failed = FALSE]
       \/ /\ SpendShell("fail") /\ UNCHANGED marker
          /\ app' = [app EXCEPT !.phase = "tray"] /\ known' = [known EXCEPT !.failed = TRUE]
    /\ UNCHANGED <<system, entry, choice, ops, tray, pane, mail, build, assets, ways>>

Enable ==
    /\ app.phase = "enable" /\ app' = [app EXCEPT !.phase = "tray"]
    /\ choice' = IF choice = "none" THEN "on" ELSE choice
    /\ \/ /\ entry # "broken" /\ entry' = "on"
          /\ known' = [known EXCEPT !.failed = FALSE] /\ UNCHANGED shellLeft
       \/ /\ known' = [known EXCEPT !.failed = TRUE] /\ UNCHANGED entry
          /\ IF entry = "broken" THEN UNCHANGED shellLeft ELSE SpendShell("fail")
    /\ UNCHANGED <<system, marker, ops, tray, pane, mail, build, assets, ways>>

\* The tray is built from the status, then listens; the first tick comes at once.
SetupTray ==
    /\ app.phase = "tray" /\ app' = [app EXCEPT !.phase = "up"]
    /\ known' = [known EXCEPT !.status = ReadStatus(known.failed)]
    /\ tray' = CheckMark(known'.status)
    /\ ops' = [ops EXCEPT !["timer"] = [@ EXCEPT !.step = "waiting"]]
    /\ UNCHANGED <<system, entry, choice, marker, pane, mail, build, assets, ways, shellLeft>>

--------------------------------------------------------------------------------
(* run: Read, Set and Toggle, one at a time under the registration lock. *)

LockFree == \A c \in Caller : ops[c].step \in {"idle", "waiting"}
Queue(c, action, want, version) ==
    ops' = [ops EXCEPT ![c] = [step |-> "waiting", action |-> action, want |-> want, version |-> version]]

\* The page numbers its calls; it has one at a time.
PageAsks(action, want) ==
    /\ Up /\ pane.open /\ ops["page"] = Unasked /\ mail.replies = {}
    /\ pane' = [pane EXCEPT !.revision = @ + 1]
    /\ Queue("page", action, want, pane.revision + 1)
    /\ UNCHANGED <<system, entry, choice, marker, known, tray, mail, exitVars>>
OpenPage ==
    /\ Up /\ ~pane.open /\ SpendShell("read") /\ ops["page"] = Unasked
    /\ pane' = [NoPage EXCEPT !.open = TRUE, !.revision = 1, !.gated = build.accepted < build.terms]
    /\ Queue("page", "read", "off", 1)
    /\ UNCHANGED <<system, entry, choice, marker, known, tray, mail, exitVars>>
PageRefreshes == SpendShell("read") /\ PageAsks("read", "off")
PageSets == \E want \in {"on", "off"} : SpendShell("set") /\ PageAsks("set", want)

\* The desktop flips the check mark itself; smabar is told of the click.
TrayToggles ==
    /\ Up /\ tray.enabled /\ ops["tray"] = Unasked /\ SpendShell("toggle")
    /\ tray' = [tray EXCEPT !.checked = ~@] /\ Queue("tray", "toggle", "off", 0)
    /\ UNCHANGED <<system, entry, choice, marker, known, pane, mail, exitVars>>
TimerTicks ==
    /\ Up /\ ops["timer"] = Unasked /\ SpendShell("tick") /\ Queue("timer", "read", "off", 0)
    /\ UNCHANGED <<system, entry, choice, marker, known, tray, pane, mail, exitVars>>

To(c, step) == ops' = [ops EXCEPT ![c].step = step]
\* A toggle turns round what the desktop says, whatever the tray shows.
TakeLock(c) ==
    /\ ops[c].step = "waiting" /\ LockFree
    /\ ops' = [ops EXCEPT ![c].step =
                   IF ops[c].action = "read" THEN "status"
                   ELSE IF ops[c].action = "toggle" /\ Read = "none" THEN "failed" ELSE "mark",
               ![c].want = IF ops[c].action # "toggle" THEN @ ELSE IF Read = "on" THEN "off" ELSE "on"]
    /\ UNCHANGED <<system, entry, choice, marker, known, tray, pane, mail, exitVars, shellLeft>>

Mark(c) ==
    /\ ops[c].step = "mark"
    /\ \/ marker' = TRUE /\ To(c, "apply") /\ UNCHANGED shellLeft
       \/ SpendShell("fail") /\ To(c, "failed") /\ UNCHANGED marker
    /\ UNCHANGED <<system, entry, choice, known, tray, pane, mail, exitVars>>

\* apply_registration: read, write what differs, read back.
Apply(c) ==
    /\ ops[c].step = "apply"
    /\ \/ /\ entry # "broken" /\ entry' = ops[c].want /\ choice' = ops[c].want
          /\ To(c, "confirm") /\ UNCHANGED shellLeft
       \/ /\ entry = "broken" /\ To(c, "failed") /\ UNCHANGED <<entry, choice, shellLeft>>
       \/ /\ entry \notin {"broken", ops[c].want} /\ SpendShell("fail")
          /\ To(c, "failed") /\ UNCHANGED <<entry, choice>>
    /\ UNCHANGED <<system, marker, known, tray, pane, mail, exitVars>>
Confirm(c) ==
    /\ ops[c].step = "confirm" /\ To(c, IF entry = ops[c].want THEN "done" ELSE "failed")
    /\ UNCHANGED <<system, entry, choice, marker, known, tray, pane, mail, exitVars, shellLeft>>

\* read_status; whoever listens is told of a change, and of every write.
Announced(status, c) == status # known.status \/ ops[c].action # "read"
Report(c) ==
    /\ ops[c].step \in {"status", "done", "failed"}
    /\ LET failed == ops[c].step = "failed" \/ (ops[c].step = "status" /\ known.failed)
           status == ReadStatus(failed)
           told == Announced(status, c)
       IN /\ known' = [status |-> status, failed |-> known.failed /\ ops[c].step # "done"]
          /\ tray' = IF told THEN CheckMark(status) ELSE tray
          /\ mail' = [events  |-> IF told /\ pane.open THEN Append(mail.events, status) ELSE mail.events,
                      replies |-> IF c = "page" THEN {[status |-> status, version |-> ops[c].version]}
                                  ELSE mail.replies]
          /\ ops' = [ops EXCEPT ![c] = Unasked]
    /\ UNCHANGED <<system, entry, choice, marker, pane, exitVars, shellLeft>>

\* The page: an event outdates the call that is under way.
HearChange ==
    /\ mail.events # <<>> /\ mail' = [mail EXCEPT !.events = Tail(@)]
    /\ pane' = [pane EXCEPT !.status = Head(mail.events), !.revision = @ + 1]
    /\ UNCHANGED <<system, entry, choice, marker, known, ops, tray, exitVars, shellLeft>>
Fresh(reply) == reply.version = pane.revision
HearReply == \E reply \in mail.replies :
    /\ mail' = [mail EXCEPT !.replies = {}]
    /\ pane' = IF Fresh(reply) THEN [pane EXCEPT !.status = reply.status] ELSE pane
    /\ UNCHANGED <<system, entry, choice, marker, known, ops, tray, exitVars, shellLeft>>

\* The user changes the entry with the desktop's own settings.
EditEntry ==
    /\ SpendShell("external")
    /\ \E new \in {"on", "off", "broken"} \ {entry} :
        /\ entry' = new /\ choice' = IF "none" = choice \/ new = "broken" THEN choice ELSE new
    /\ UNCHANGED <<system, marker, known, ops, tray, pane, mail, exitVars>>

--------------------------------------------------------------------------------
(* Ending: quit_app, RunEvent::Exit, install_update, legal_decline. *)

Volatile == /\ known' = [status |-> Failed("none"), failed |-> FALSE]
            /\ ops' = [c \in Caller |-> Unasked] /\ tray' = CheckMark(Failed("none"))
            /\ pane' = NoPage /\ mail' = [events |-> <<>>, replies |-> {}]
            /\ ways' = NoWay
Ends(how, again) ==
    /\ Volatile /\ app' = [phase |-> "down", again |-> again, ended |-> how]
    /\ UNCHANGED <<system, entry, choice, marker>>

\* The bar's page reports its place, which reserves the edge anew; on Windows not after the
\* proxy window was destroyed.
ReportPlace ==
    /\ Up /\ ~assets.strip /\ SpendShell("report")
    /\ assets' = [assets EXCEPT !.strip = ~(system = "windows" /\ ways.update = "install")]
    /\ UNCHANGED <<system, loginVars, app, build, ways>>

Way(name, step) == ways' = [ways EXCEPT ![name] = step]
Leaving == UNCHANGED <<system, loginVars, build, shellLeft>>
Quit ==
    /\ Up /\ ways.quit = "no" /\ SpendShell("quit")
    /\ \E again \in BOOLEAN : app' = [app EXCEPT !.again = again]
    /\ Way("quit", "plugins") /\ UNCHANGED <<system, loginVars, build, assets>>
StopPlugins(name) ==
    /\ ways[name] = "plugins" /\ assets' = [assets EXCEPT !.plugins = FALSE]
    /\ Way(name, "strip") /\ UNCHANGED app /\ Leaving
ReleaseStrip(name) ==
    /\ ways[name] = "strip" /\ assets' = [assets EXCEPT !.strip = FALSE]
    /\ Way(name, IF name = "update" THEN "install" ELSE "end") /\ UNCHANGED app /\ Leaving
\* app.exit and request_restart reach the exit handler, which cleans up once more: the page
\* may have reserved the edge again meanwhile.
Handled == "plugins"
Exit ==
    /\ ways.exit = "no" /\ (ways.quit = "end" \/ ways.update = "restart")
    /\ Way("exit", Handled) /\ app' = [app EXCEPT !.phase = "exit"]
    /\ UNCHANGED assets /\ Leaving
Gone ==
    /\ ways.exit = "end" /\ Ends("exit", app.again) /\ UNCHANGED <<build, assets, shellLeft>>
\* EXIT_DEADLINE: the process is killed in the middle.
Deadline == ways.exit \in {"plugins", "strip"} /\ SpendShell("late") /\ Ends("killed", FALSE)
            /\ UNCHANGED <<build, assets>>
KillApp == app.phase # "down" /\ SpendShell("crash") /\ Ends("killed", FALSE) /\ UNCHANGED <<build, assets>>

\* What a dead process held is taken back by the desktop and the plugins' own exit.
Reaped ==
    /\ app.phase = "down" /\ app.ended = "killed" /\ (assets.plugins \/ assets.strip)
    /\ assets' = [plugins |-> FALSE, strip |-> FALSE]
    /\ UNCHANGED <<system, loginVars, app, build, ways, shellLeft>>

\* install_update: one at a time; the version the user saw is the one that is fetched.
Offer ==
    /\ Up /\ ways.offered = 0 /\ SpendShell("publish")
    /\ \E t \in Terms : t >= build.terms /\ ways' = [ways EXCEPT !.offered = t]
    /\ UNCHANGED <<system, loginVars, app, build, assets>>
InstallUpdate ==
    /\ Up /\ ways.offered # 0 /\ ways.update = "no" /\ SpendShell("update")
    /\ Way("update", "download") /\ UNCHANGED <<system, loginVars, app, build, assets>>
\* The release changed since, the download failed, or its signature does not match.
UpdateFails ==
    /\ ways.update = "download" /\ SpendShell("fail") /\ ways' = [ways EXCEPT !.update = "no", !.offered = 0]
    /\ UNCHANGED <<system, loginVars, app, build, assets>>
\* Windows: the installer ends the process at once; Linux: the package is opened for the user.
FirstStep == CASE system = "windows" -> "plugins" [] system = "macos" -> "install" [] OTHER -> "open"
Downloaded == ways.update = "download" /\ Way("update", FirstStep) /\ UNCHANGED <<app, assets>> /\ Leaving
OpenPackage == ways.update = "open" /\ Way("update", "no") /\ UNCHANGED <<app, assets>> /\ Leaving
Installed == build' = [build EXCEPT !.terms = ways.offered]
Install ==
    /\ ways.update = "install" /\ app.phase = "up" /\ Installed /\ UNCHANGED <<assets, shellLeft>>
    /\ IF system = "windows" THEN Ends("installer", TRUE)
       ELSE /\ Way("update", "restart") /\ app' = [app EXCEPT !.again = TRUE]
            /\ UNCHANGED <<system, loginVars>>
\* The installer does not start: the application stays, without what it gave up.
InstallFails ==
    /\ ways.update = "install" /\ SpendShell("fail") /\ ways' = [ways EXCEPT !.update = "no", !.offered = 0]
    /\ UNCHANGED <<system, loginVars, app, build, assets>>

\* legal_accept; a build with newer terms asks again.  legal_decline is a Quit.
Accept ==
    /\ Up /\ pane.open /\ pane.gated
    /\ build' = [build EXCEPT !.accepted = build.terms]
    /\ pane' = [pane EXCEPT !.gated = FALSE]
    /\ UNCHANGED <<system, entry, choice, marker, known, ops, tray, mail, app, assets, ways, shellLeft>>

--------------------------------------------------------------------------------
ShellNext ==
    \/ StartApp \/ Initialize \/ Enable \/ SetupTray
    \/ OpenPage \/ PageRefreshes \/ PageSets \/ TrayToggles \/ TimerTicks
    \/ \E c \in Caller : TakeLock(c) \/ Mark(c) \/ Apply(c) \/ Confirm(c) \/ Report(c)
    \/ HearChange \/ HearReply \/ EditEntry \/ Accept
    \/ ReportPlace \/ Quit \/ Exit \/ Gone \/ Deadline \/ KillApp \/ Reaped
    \/ \E name \in {"quit", "exit", "update"} : StopPlugins(name) \/ ReleaseStrip(name)
    \/ Offer \/ InstallUpdate \/ UpdateFails \/ Downloaded \/ OpenPackage \/ Install \/ InstallFails

ShellSpec == ShellInit /\ [][ShellNext]_shellVars

--------------------------------------------------------------------------------
ShellTypeOK ==
    /\ entry \in {"on", "off", "broken"} /\ choice \in {"none", "on", "off"} /\ marker \in BOOLEAN
    /\ build.terms \in Terms /\ build.accepted \in Terms \cup {0}
    /\ assets \in [{"plugins", "strip"} -> BOOLEAN] /\ pane.revision \in Nat

LoginQuiet == Up /\ ops = [c \in Caller |-> Unasked] /\ mail = [events |-> <<>>, replies |-> {}]

\* When nothing is under way the tray and the settings page show what smabar knows of the
\* entry, although clicks flip the check mark by themselves and answers arrive late.
ControlsAgree ==
    LoginQuiet => tray = CheckMark(known.status) /\ (pane.open => pane.status = known.status)

\* A start registers smabar once: whoever took the entry away is not overruled by the next
\* start, whatever crashed or failed in between.
StartsRespectTheUser == choice = "off" => entry # "on"

\* A process that ended in its own time left no plugin and no reserved edge behind.
NobodyLeftBehind ==
    (app.phase = "down" /\ app.ended \in {"exit", "installer"}) => ~assets.plugins /\ ~assets.strip

\* A click on the tray's check mark does what the mark says.
ToggleDoesAsShown == [][\A c \in Caller :
    (ops[c].step = "waiting" /\ ops'[c].step = "mark" /\ c = "tray") =>
        (ops'[c].want = "on") = tray.checked]_shellVars

\* An update that did not start leaves the plugins running.
FailedUpdateKeepsPlugins == (Up /\ ways = NoWay) => assets.plugins
================================================================================
