--------------------------------- MODULE AppBar ---------------------------------
(***************************************************************************)
(* The strip of the screen that a docked bar reserves on Windows           *)
(* (smabar/src/platform/windows: native.rs, appbar.rs, native/taskbar.rs,  *)
(* strut.rs, placement.rs).                                                *)
(*                                                                         *)
(* A hidden proxy window is registered with Explorer as an AppBar.  Every  *)
(* call of Explorer may send messages back before it returns; a lock keeps *)
(* the handlers of those out.  Explorer may die and come back at any       *)
(* moment, refuse a call, or push the bar's window out of the strip it     *)
(* just reserved; another AppBar may take space at the same edge, and the  *)
(* scale of the screen may change.                                         *)
(***************************************************************************)
EXTENDS Integers

CONSTANTS Dock,        \* strips a bar may ask for: edge and logical thickness as one value
          AppBarBudgets   \* bounds: what may happen, per kind of event

AppBarEvents == {"dock", "die", "neighbour", "push", "dpi", "close"}
ASSUME AppBarAssumption == 0 \notin Dock /\ AppBarBudgets \subseteq [AppBarEvents -> Nat]

VARIABLES
    explorer,    \* Explorer: whether it runs, our registration, the strip it keeps free
    screen,      \* how much other AppBars take, and the scale
    native,      \* NativeState: appbar_hwnd, appbar_registered, reservation, applied
    placed,      \* the bar's window: whether an origin is recorded, and whether it is there
    call,        \* the call of Explorer under way in the window's thread: APPBAR_CALLS is held
    messages,    \* messages posted to that thread
    wanted,      \* history: the strip that a measured bar asked for last
    kept,        \* history: Explorer granted every call since, and did not restart
    appBarLeft   \* bounds: the events that may still happen

appBarVars == <<explorer, screen, native, placed, call, messages, wanted, kept, appBarLeft>>

--------------------------------------------------------------------------------
None      == 0
NoStrip   == [dock |-> None, above |-> 0, size |-> 0]
Unapplied == [strip |-> NoStrip, scale |-> 0]
NoCall    == [step |-> "none"]
SpendAppBar(event) == appBarLeft[event] > 0 /\ appBarLeft' = [appBarLeft EXCEPT ![event] = @ - 1]

AppBarInit ==
    /\ explorer = [up |-> TRUE, registered |-> FALSE, strip |-> NoStrip]
    /\ screen = [others |-> 0, scale |-> 0]
    /\ native = [proxy |-> TRUE, registered |-> FALSE, reservation |-> None, applied |-> Unapplied]
    /\ placed = [recorded |-> FALSE, there |-> TRUE]
    /\ call = NoCall /\ messages = {} /\ wanted = None /\ kept = "yes"
    /\ appBarLeft \in AppBarBudgets

Calling(step) == call.step = step
End == call' = NoCall
\* reconcile: the window goes back to the recorded origin.
Back(place) == [place EXCEPT !.there = @ \/ place.recorded]
Settled == placed' = Back(placed)

Unregistered == [up |-> explorer.up, registered |-> FALSE, strip |-> NoStrip]

--------------------------------------------------------------------------------
(* Explorer and the other windows. *)

ExplorerDies ==
    /\ explorer.up /\ SpendAppBar("die")
    /\ explorer' = [Unregistered EXCEPT !.up = FALSE]
    /\ kept' = IF kept = "yes" THEN "restarted" ELSE kept
    /\ UNCHANGED <<screen, native, placed, call, messages, wanted>>

Broadcast == messages' = messages \cup (IF native.proxy THEN {"taskbar"} ELSE {})

\* TaskbarCreated goes to every top-level window.
ExplorerStarts ==
    /\ ~explorer.up
    /\ explorer' = [explorer EXCEPT !.up = TRUE]
    /\ Broadcast
    /\ UNCHANGED <<screen, native, placed, call, wanted, kept, appBarLeft>>

\* It also does when another screen, the primary one, changes its scale.
PrimaryRescaled ==
    /\ explorer.up /\ SpendAppBar("dpi")
    /\ Broadcast
    /\ kept' = IF kept = "yes" THEN "restarted" ELSE kept
    /\ UNCHANGED <<explorer, screen, native, placed, call, wanted>>

\* Another AppBar comes or goes: ABN_POSCHANGED, which a handler that finds the lock
\* taken drops.
Neighbours ==
    /\ explorer.up /\ SpendAppBar("neighbour")
    /\ screen' = [screen EXCEPT !.others = 1 - @]
    /\ messages' = messages \cup (IF explorer.registered /\ call = NoCall THEN {"position"} ELSE {})
    /\ UNCHANGED <<explorer, native, placed, call, wanted, kept>>

\* Explorer fits the bar's window into the work area it shrank; WM_WINDOWPOSCHANGED
\* posts a message to undo that.
PushBar ==
    /\ explorer.up /\ native.proxy /\ explorer.strip # NoStrip /\ SpendAppBar("push")
    /\ placed' = [placed EXCEPT !.there = FALSE]
    /\ messages' = messages \cup (IF placed.recorded THEN {"reconcile"} ELSE {})
    /\ UNCHANGED <<explorer, screen, native, call, wanted, kept>>

Reconcile ==
    /\ "reconcile" \in messages
    /\ Settled /\ messages' = messages \ {"reconcile"}
    /\ UNCHANGED <<explorer, screen, native, call, wanted, kept, appBarLeft>>

--------------------------------------------------------------------------------
(* strut::apply, set_reservation: some callers record a new origin of the window. *)

Recorded(moved) == IF moved THEN [recorded |-> TRUE, there |-> FALSE] ELSE placed

\* Both know the same, and no restart is left to be noticed.
InStep == explorer.up /\ explorer.registered = native.registered /\ "taskbar" \notin messages

\* The physical thickness is computed before anything is asked of Explorer.
SetReservation(dock, moved) ==
    /\ call = NoCall /\ native.proxy /\ SpendAppBar("dock")
    /\ wanted' = dock
    /\ kept' = IF InStep THEN "yes" ELSE kept
    /\ placed' = Recorded(moved)
    /\ call' = [step |-> IF dock # None THEN IF native.registered THEN "query" ELSE "register"
                         ELSE IF native.registered THEN "remove" ELSE "forget",
                dock |-> dock, new |-> ~native.registered, size |-> screen.scale]
    /\ UNCHANGED <<explorer, screen, native, messages>>

\* thickness: the shell has not measured a bar inside its window yet.
DeferReservation(moved) ==
    /\ call = NoCall /\ native.proxy /\ SpendAppBar("dock")
    /\ placed' = Back(Recorded(moved))
    /\ UNCHANGED <<explorer, screen, native, call, messages, wanted, kept>>

\* A call that Explorer refuses, or that nobody answers: a registration of this very
\* request is taken back.
Refused == kept' = "no"
GiveUp == IF call.new THEN call' = [step |-> "undo"] /\ UNCHANGED placed ELSE End /\ Settled

\* ABM_NEW
Register ==
    /\ Calling("register")
    /\ \/ /\ explorer.up
          /\ explorer' = [explorer EXCEPT !.registered = TRUE]
          /\ native' = [native EXCEPT !.registered = TRUE]
          /\ call' = [call EXCEPT !.step = "query"]
          /\ UNCHANGED <<placed, kept>>
       \/ Refused /\ End /\ Settled /\ UNCHANGED <<explorer, native>>
    /\ UNCHANGED <<screen, messages, wanted, appBarLeft>>

\* fit_appbar: the strip beside those of the others.
Fit(dock, size) == [dock |-> dock, above |-> screen.others, size |-> size]

\* ABM_QUERYPOS
Query ==
    /\ Calling("query")
    /\ \/ /\ explorer.up
          /\ call' = [step |-> "commit", new |-> call.new, strip |-> Fit(call.dock, call.size)]
          /\ UNCHANGED <<placed, kept>>
       \/ Refused /\ GiveUp
    /\ UNCHANGED <<explorer, screen, native, messages, wanted, appBarLeft>>

\* ABM_SETPOS; Explorer keeps the strip free for a window it knows.
CommitStrip(strip) ==
    /\ explorer.up
    /\ explorer' = [explorer EXCEPT !.strip = IF explorer.registered THEN strip ELSE @]

\* MUTANT: a strip that replaces another is not noted.
Remember_First(strip, scale) ==
    [native EXCEPT !.reservation = IF @ = None THEN strip.dock ELSE @,
                   !.applied = [strip |-> strip, scale |-> scale]]
\* The logical thickness is noted as the physical one at the scale of this moment.
Remember(strip, scale) ==
    [native EXCEPT !.reservation = strip.dock, !.applied = [strip |-> strip, scale |-> scale]]

\* Moving the proxy or reading the work area may fail after Explorer granted the strip.
Commit ==
    /\ Calling("commit")
    /\ \/ /\ CommitStrip(call.strip)
          /\ native' = Remember(call.strip, screen.scale)
          /\ End /\ Settled /\ UNCHANGED kept
       \/ /\ CommitStrip(call.strip) \/ UNCHANGED explorer
          /\ Refused /\ GiveUp /\ UNCHANGED native
    /\ UNCHANGED <<screen, messages, wanted, appBarLeft>>

Undo ==
    /\ Calling("undo")
    /\ \/ /\ explorer.up
          /\ explorer' = Unregistered /\ native' = [native EXCEPT !.registered = FALSE]
       \/ UNCHANGED <<explorer, native>>
    /\ End /\ Settled
    /\ UNCHANGED <<screen, messages, wanted, kept, appBarLeft>>

Released == [native EXCEPT !.registered = FALSE, !.reservation = None, !.applied = Unapplied]

\* clear_requested_reservation: ABM_REMOVE comes first for a bar that is registered.
Remove ==
    /\ Calling("remove")
    /\ \/ explorer.up /\ explorer' = Unregistered /\ native' = Released /\ UNCHANGED kept
       \/ Refused /\ UNCHANGED <<explorer, native>>
    /\ End /\ Settled
    /\ UNCHANGED <<screen, messages, wanted, appBarLeft>>

Forget ==
    /\ Calling("forget")
    /\ native' = Released
    /\ End /\ Settled
    /\ UNCHANGED <<explorer, screen, messages, wanted, kept, appBarLeft>>

--------------------------------------------------------------------------------
(* reassert_appbar, recover: while a call is under way, the first does nothing and the    *)
(* second is posted again.                                                                 *)

\* reposition: the strip at the scale of now, asked for only when it is another one.
Reassert(scale) ==
    LET applied == native.applied
        strip   == Fit(native.reservation, applied.strip.size - applied.scale + scale)
    IN IF /\ native.registered /\ native.reservation # None /\ applied # Unapplied
          /\ strip # applied.strip
       THEN \/ CommitStrip(strip) /\ native' = Remember(strip, scale)
            \/ (CommitStrip(strip) \/ UNCHANGED explorer) /\ UNCHANGED native
       ELSE UNCHANGED <<explorer, native>>

TryReassert(scale) == IF call = NoCall THEN Reassert(scale) ELSE UNCHANGED <<explorer, native>>

PositionChanged ==
    /\ "position" \in messages
    /\ messages' = messages \ {"position"}
    /\ TryReassert(screen.scale)
    /\ UNCHANGED <<screen, placed, call, wanted, kept, appBarLeft>>

\* subclass_proc: WM_DPICHANGED comes with the new scale.
DpiChanged ==
    /\ native.proxy /\ SpendAppBar("dpi")
    /\ screen' = [screen EXCEPT !.scale = 1 - @]
    /\ TryReassert(1 - screen.scale)
    /\ UNCHANGED <<placed, call, messages, wanted, kept>>

\* A registration that may still be live is removed first.
TaskbarCreated ==
    /\ "taskbar" \in messages /\ call = NoCall
    /\ messages' = messages \ {"taskbar"}
    /\ IF native.proxy /\ native.reservation # None /\ native.applied # Unapplied
       THEN /\ native' = [native EXCEPT !.registered = FALSE]
            /\ explorer' \in {Unregistered, explorer}
            /\ call' = [step |-> "again"]
       ELSE UNCHANGED <<explorer, native, call>>
    /\ UNCHANGED <<screen, placed, wanted, kept, appBarLeft>>

\* The message cannot be posted again.
RecoveryLost ==
    /\ "taskbar" \in messages /\ call # NoCall
    /\ messages' = messages \ {"taskbar"}
    /\ native' = [native EXCEPT !.registered = FALSE] /\ Refused
    /\ UNCHANGED <<explorer, screen, placed, call, wanted, appBarLeft>>

RegisterAgain ==
    /\ Calling("again")
    /\ \/ /\ explorer.up
          /\ explorer' = [explorer EXCEPT !.registered = TRUE]
          /\ native' = [native EXCEPT !.registered = TRUE]
          /\ call' = [step |-> "reassert"] /\ UNCHANGED kept
       \/ End /\ Refused /\ UNCHANGED <<explorer, native>>
    /\ UNCHANGED <<screen, placed, messages, wanted, appBarLeft>>

\* The lock is let go, and taken once more.
ReassertAgain ==
    /\ Calling("reassert")
    /\ Reassert(screen.scale) /\ End
    /\ UNCHANGED <<screen, placed, messages, wanted, kept, appBarLeft>>

--------------------------------------------------------------------------------
(* The end: Explorer forgets a proxy that is destroyed, whatever it answered before. *)

Dismissed ==
    /\ call = NoCall /\ native.proxy /\ SpendAppBar("close")
    /\ explorer' = Unregistered /\ wanted' = None
    /\ UNCHANGED <<screen, placed, call, kept>>

\* shutdown: a reservation that could not be cleared stays noted.
Shutdown ==
    /\ Dismissed
    /\ \/ native' = [Released EXCEPT !.proxy = FALSE]
       \/ native.registered /\ native' = [native EXCEPT !.proxy = FALSE, !.registered = FALSE]
    /\ messages' = messages \ {"taskbar", "position"}

\* cleanup_destroyed_window, forget_destroyed_window
CloseBar ==
    /\ Dismissed
    /\ native' = [Released EXCEPT !.proxy = FALSE]
    /\ messages' = {}

--------------------------------------------------------------------------------
AppBarNext ==
    \/ ExplorerDies \/ ExplorerStarts \/ PrimaryRescaled \/ Neighbours \/ PushBar \/ Reconcile
    \/ \E dock \in Dock \cup {None}, moved \in BOOLEAN : SetReservation(dock, moved)
    \/ \E moved \in BOOLEAN : DeferReservation(moved)
    \/ Register \/ Query \/ Commit \/ Undo \/ Remove \/ Forget
    \/ PositionChanged \/ DpiChanged \/ TaskbarCreated \/ RecoveryLost
    \/ RegisterAgain \/ ReassertAgain \/ Shutdown \/ CloseBar

AppBarSpec == AppBarInit /\ [][AppBarNext]_appBarVars

--------------------------------------------------------------------------------
AppBarTypeOK ==
    /\ explorer.strip.dock \in Dock \cup {None} /\ screen \in [others : {0, 1}, scale : {0, 1}]
    /\ native.reservation \in Dock \cup {None} /\ placed \in [recorded : BOOLEAN, there : BOOLEAN]
    /\ messages \subseteq {"taskbar", "position", "reconcile"} /\ kept \in {"yes", "restarted", "no"}

AppBarQuiet == call = NoCall /\ messages = {} /\ explorer.up

\* At rest Explorer keeps the strip free that was asked for last, if it granted every call
\* since and did not restart, and the bar's window is where it belongs: however messages of
\* Explorer overlap calls of it, and wherever it pushed the window (native.rs:38,
\* placement.rs:1).
StripIsWanted ==
    AppBarQuiet =>
        /\ kept = "yes" => explorer.strip.dock = wanted
        /\ native.proxy /\ placed.recorded => placed.there

\* After Explorer restarted and every call was granted the strip is free again
\* (native/taskbar.rs:98: "Windows AppBar reservation restored after Explorer restart").
\* It is not: the bar is registered again, but the strip is only asked for when it differs
\* from the one asked for before the restart.
RestartRestores == (AppBarQuiet /\ kept # "no") => explorer.strip.dock = wanted
================================================================================
