----------------------------- MODULE MacReservation -----------------------------
(***************************************************************************)
(* The reserved edge on macOS (smabar/src/platform/macos: strut.rs,        *)
(* reservation.rs, accessibility.rs, geometry.rs).                         *)
(*                                                                         *)
(* macOS reserves no edge for a bar.  A worker thread makes the windows of *)
(* other applications smaller instead, through the Accessibility API, and  *)
(* gives them their frames back when the edge is released.  Applications   *)
(* may be busy, finish a resize late, or keep a least size; users move,    *)
(* close and minimise windows and take the permission away.                *)
(*                                                                         *)
(* A frame has its top and its height; widths never change.  An app has    *)
(* one window.                                                             *)
(***************************************************************************)
EXTENDS Naturals, Sequences, FiniteSets

CONSTANTS MacWindow,   \* windows of other applications
          ScreenSize,  \* the height of the screen
          Least,       \* the least height of a window that keeps one
          Placed,      \* frames users give their windows
          MacBudgets   \* bounds: how often what may happen

MacEvents == {"reserve", "move", "hide", "revoke", "busy", "refuse", "scan"}
Frame == [y : 0 .. ScreenSize - 1, h : 1 .. ScreenSize]
ASSUME MacAssumption ==
    /\ ScreenSize \in Nat \ {0, 1} /\ Least \in 1 .. ScreenSize /\ Placed \subseteq Frame
    /\ MacBudgets \subseteq [MacEvents -> Nat]

VARIABLES
    windows,   \* state, frame and style of a window, the resize under way, the user's own frame
    adjusted,  \* reservation::run: what the worker changed, and from what
    worker,    \* its step, its area, the one to come, the flag that it has work, what is left of it
    changes,   \* WORKER: the changes under way to it
    access,    \* whether the user trusts smabar; the windows observed and refused
    excused,   \* windows whose app was asked before it had finished, or could not be asked
    missed,    \* windows a pass could not ask about, until the next scan
    macLeft    \* bounds: the events that may still happen

macVars == <<windows, adjusted, worker, changes, access, excused, missed, macLeft>>

--------------------------------------------------------------------------------
NoArea == [y |-> 0, h |-> 0]
Top    == [y |-> 1, h |-> ScreenSize - 1]
Bottom == [y |-> 0, h |-> ScreenSize - 1]
SpendMac(event) == macLeft[event] > 0 /\ macLeft' = [macLeft EXCEPT ![event] = @ - 1]
NoWorker(step) == [step |-> step, area |-> NoArea, next |-> NoArea, granted |-> FALSE,
               dirty |-> FALSE, todo |-> {}]

\* constrain: the frame inside the usable area.
Constrain(area, f) ==
    LET h == IF f.h < area.h THEN f.h ELSE area.h
        low == IF f.y < area.y THEN area.y ELSE f.y
    IN [y |-> IF low + h > area.y + area.h THEN area.y + area.h - h ELSE low, h |-> h]

Allowed(w, f) == windows[w].style = "least" => f.h >= Least

MacInit ==
    /\ windows \in [MacWindow -> {[state |-> "normal", frame |-> f, late |-> NoArea,
                                   style |-> s, mine |-> f]
                                      : f \in Placed, s \in {"prompt", "late", "least"}}]
    /\ \A w \in MacWindow : Allowed(w, windows[w].frame)
    /\ adjusted = << >> /\ worker = NoWorker("none") /\ changes = <<>>
    /\ access = [trusted |-> TRUE, watched |-> {}, refused |-> {}]
    /\ excused = {} /\ missed = {} /\ macLeft \in MacBudgets

--------------------------------------------------------------------------------
(* strut.rs: the main thread. *)

\* apply and send: the first reservation starts the worker.
Stopping == worker.step = "ending" \/ \E i \in DOMAIN changes : changes[i].stop
Reserve ==
    /\ ~Stopping /\ SpendMac("reserve")
    /\ \E area \in {NoArea, Top, Bottom} :
        /\ worker.step # "none" \/ area # NoArea
        /\ changes' = Append(changes, [stop |-> FALSE, area |-> area])
        /\ worker' = IF worker.step = "none" THEN [NoWorker("loop") EXCEPT !.dirty = TRUE] ELSE worker
    /\ UNCHANGED <<windows, adjusted, access, excused, missed>>

\* shutdown waits for the worker: nothing follows Stop.
StopWorker ==
    /\ worker.step # "none" /\ ~Stopping /\ SpendMac("reserve")
    /\ changes' = Append(changes, [stop |-> TRUE, area |-> NoArea])
    /\ UNCHANGED <<windows, adjusted, worker, access, excused, missed>>

--------------------------------------------------------------------------------
(* accessibility.rs: what an app does with a new frame. *)

\* set_frame and what is there when it returns.
SetFrame(w, f) ==
    windows' = [windows EXCEPT ![w] =
        CASE @.style = "late" /\ f # @.frame -> [@ EXCEPT !.late = f]
          [] @.style = "least" /\ f.h < Least -> [@ EXCEPT !.frame = [y |-> f.y, h |-> Least]]
          [] OTHER -> [@ EXCEPT !.frame = f]]
Notified(w) == worker' = [worker EXCEPT !.dirty = @ \/ w \in access.watched]

\* A resize completes after the call returned.
Complete(w) ==
    /\ windows[w].late # NoArea /\ windows[w].state = "normal"
    /\ windows' = [windows EXCEPT ![w].frame = windows[w].late, ![w].late = NoArea]
    /\ Notified(w) /\ UNCHANGED <<adjusted, changes, access, excused, missed, macLeft>>

\* The user moves a window, which ends what the app was about to do with it.
MoveWindow(w) ==
    /\ windows[w].state = "normal" /\ SpendMac("move")
    /\ \E f \in Placed \ {windows[w].frame} :
        /\ Allowed(w, f)
        /\ w \in DOMAIN adjusted => f \notin {adjusted[w].after, adjusted[w].requested}
        /\ windows' = [windows EXCEPT ![w] = [@ EXCEPT !.frame = f, !.mine = f, !.late = NoArea]]
    /\ Notified(w) /\ UNCHANGED <<adjusted, changes, access, excused, missed>>
HideWindow(w) ==
    /\ windows[w].state = "normal" /\ SpendMac("hide")
    /\ \E new \in {"minimized", "closed"} : windows' = [windows EXCEPT ![w].state = new]
    /\ Notified(w) /\ UNCHANGED <<adjusted, changes, access, excused, missed>>
Unhide(w) ==
    /\ windows[w].state = "minimized"
    /\ windows' = [windows EXCEPT ![w].state = "normal"]
    /\ Notified(w) /\ UNCHANGED <<adjusted, changes, access, excused, missed, macLeft>>
Trust ==
    /\ IF access.trusted THEN SpendMac("revoke") ELSE UNCHANGED macLeft
    /\ access' = [access EXCEPT !.trusted = ~@]
    /\ UNCHANGED <<windows, adjusted, worker, changes, excused, missed>>

--------------------------------------------------------------------------------
(* reservation::run. *)



\* A new area gives back first what the old one took.
TakeChange ==
    /\ worker.step = "loop" /\ changes # <<>> /\ changes' = Tail(changes)
    /\ worker' = IF Head(changes).stop THEN [worker EXCEPT !.step = "ending"]
                 ELSE IF Head(changes).area = worker.area THEN worker
                 ELSE [worker EXCEPT !.step = "restore", !.next = Head(changes).area]
    /\ UNCHANGED <<windows, adjusted, access, excused, missed, macLeft>>

\* restore: a window that closed, hides, or was moved by the user is no longer ours.
\* MUTANT: a window whose app has finished the resize only now is taken for moved.
Owned_ReadBack(saved, f) == f = saved.after
Owned(saved, f) == f \in {saved.after, saved.requested}
Without(saved, w) == [x \in DOMAIN saved \ {w} |-> saved[x]]
RestoreWindow(w) ==
    /\ worker.step \in {"restore", "ending"} /\ w \in DOMAIN adjusted
    /\ adjusted' = Without(adjusted, w)
    /\ \/ /\ access.trusted /\ windows[w].state = "normal" /\ Owned(adjusted[w], windows[w].frame)
          /\ SetFrame(w, adjusted[w].before) /\ UNCHANGED macLeft
          /\ excused' = IF windows[w].late = NoArea THEN excused ELSE excused \cup {w}
       \/ /\ access.trusted /\ (windows[w].state # "normal" \/ ~Owned(adjusted[w], windows[w].frame))
          /\ excused' = IF windows[w].state = "normal" THEN excused ELSE excused \cup {w}
          /\ UNCHANGED <<windows, macLeft>>
       \/ /\ IF access.trusted THEN SpendMac("busy") ELSE UNCHANGED macLeft
          /\ excused' = excused \cup {w} /\ UNCHANGED windows
    /\ UNCHANGED <<worker, changes, access, missed>>
Restored ==
    /\ worker.step \in {"restore", "ending"} /\ adjusted = << >>
    /\ worker' = IF worker.step = "ending" THEN NoWorker("none")
                 ELSE [worker EXCEPT !.step = "loop", !.area = worker.next, !.next = NoArea,
                                     !.dirty = TRUE]
    /\ access' = IF worker.next = NoArea THEN [access EXCEPT !.watched = {}, !.refused = {}] ELSE access
    /\ UNCHANGED <<windows, adjusted, changes, excused, missed, macLeft>>

AtTop(step) == worker.step = step /\ changes = <<>> /\ worker.area # NoArea
\* A change of the permission starts over; without it nothing is observed.
Permission ==
    /\ AtTop("loop") /\ (worker.granted # access.trusted \/ (~access.trusted /\ access.watched # {}))
    /\ worker' = [worker EXCEPT !.granted = access.trusted, !.dirty = TRUE]
    /\ access' = [access EXCEPT !.refused = {}, !.watched = IF access.trusted THEN @ ELSE {}]
    /\ UNCHANGED <<windows, adjusted, changes, excused, missed, macLeft>>
Granted == worker.granted /\ access.trusted

\* refresh_apps: apps that cannot be observed are left out; every second all are looked at.
Open == {w \in MacWindow : windows[w].state # "closed"}
RefreshApps ==
    /\ AtTop("loop") /\ Granted
    /\ IF access.watched \cup access.refused = Open THEN SpendMac("scan") ELSE UNCHANGED macLeft
    /\ access' = [access EXCEPT !.watched = Open \ access.refused, !.refused = @ \cap Open]
    /\ worker' = [worker EXCEPT !.dirty = TRUE] /\ missed' = {}
    /\ UNCHANGED <<windows, adjusted, changes, excused>>
RefuseApp(w) ==
    /\ AtTop("loop") /\ Granted /\ w \in Open \ (access.watched \cup access.refused)
    /\ SpendMac("refuse") /\ access' = [access EXCEPT !.refused = @ \cup {w}]
    /\ UNCHANGED <<windows, adjusted, worker, changes, excused, missed>>

\* reconcile: the flag is taken down before the windows are looked at.
BeginPass ==
    /\ AtTop("loop") /\ Granted /\ worker.dirty
    /\ worker' = [worker EXCEPT !.step = "reconcile", !.dirty = FALSE,
                                !.todo = access.watched \cap Open]
    /\ UNCHANGED <<windows, adjusted, changes, access, excused, missed, macLeft>>

\* An app that is busy, or hides its window, keeps what is known of it.
Skip(w) ==
    /\ worker.step = "reconcile" /\ w \in worker.todo
    /\ IF windows[w].state = "normal" /\ access.trusted THEN SpendMac("busy") ELSE UNCHANGED macLeft
    /\ worker' = [worker EXCEPT !.todo = @ \ {w}]
    /\ missed' = IF windows[w].state = "normal" THEN missed \cup {w} ELSE missed
    /\ UNCHANGED <<windows, adjusted, changes, access, excused>>
Correct(w) ==
    /\ worker.step = "reconcile" /\ w \in worker.todo /\ windows[w].state = "normal" /\ access.trusted
    /\ LET before == windows[w].frame
           known == w \in DOMAIN adjusted
           old == IF known /\ adjusted[w].requested = before
                  THEN [adjusted[w] EXCEPT !.after = before, !.limited = FALSE]
                  ELSE IF known THEN adjusted[w]
                  ELSE [before |-> before, after |-> before, requested |-> before, limited |-> FALSE]
           after == Constrain(worker.area, before)
           leave == after = before \/ (known /\ old.limited /\ old.after = before)
           new == [before |-> IF known /\ old.after = before THEN old.before ELSE before,
                   after |-> windows'[w].frame, requested |-> after,
                   limited |-> windows'[w].frame # after]
       IN /\ IF leave THEN UNCHANGED windows ELSE SetFrame(w, after)
          /\ adjusted' = IF leave /\ ~known THEN adjusted
                         ELSE [x \in DOMAIN adjusted \cup {w} |->
                                  IF x # w THEN adjusted[x] ELSE IF leave THEN old ELSE new]
          /\ worker' = [worker EXCEPT !.todo = @ \ {w},
                                      !.dirty = @ \/ (windows'[w].frame # before)]
          /\ excused' = IF leave \/ windows[w].late = NoArea THEN excused ELSE excused \cup {w}
    /\ UNCHANGED <<changes, access, missed, macLeft>>
AfterPass(dirty) == dirty
EndPass ==
    /\ worker.step = "reconcile" /\ worker.todo = {}
    /\ adjusted' = [w \in DOMAIN adjusted \cap Open |-> adjusted[w]]
    /\ worker' = [worker EXCEPT !.step = "loop", !.dirty = AfterPass(@)]
    /\ UNCHANGED <<windows, changes, access, excused, missed, macLeft>>

--------------------------------------------------------------------------------
MacNext ==
    \/ Reserve \/ StopWorker \/ Trust \/ TakeChange \/ Restored \/ Permission
    \/ RefreshApps \/ BeginPass \/ EndPass
    \/ \E w \in MacWindow :
        \/ Complete(w) \/ MoveWindow(w) \/ HideWindow(w) \/ Unhide(w)
        \/ RestoreWindow(w) \/ RefuseApp(w) \/ Skip(w) \/ Correct(w)

MacSpec == MacInit /\ [][MacNext]_macVars

--------------------------------------------------------------------------------
MacTypeOK ==
    /\ \A w \in MacWindow : windows[w].frame \in Frame /\ windows[w].mine \in Frame
    /\ DOMAIN adjusted \subseteq MacWindow /\ worker.todo \subseteq MacWindow

Finished == \A w \in MacWindow : windows[w].late = NoArea

\* Once the edge is released every window has the frame its user gave it last, however often
\* it was corrected, moved and corrected again, if its app had finished and could be asked.
WindowsComeBack ==
    (adjusted = << >> /\ worker.area = NoArea /\ worker.step # "ending" /\ Finished) =>
        \A w \in Open \ excused : windows[w].frame = windows[w].mine

\* When the worker has nothing left to do no window is under the bar, but one that keeps
\* its own size.
NothingStaysCovered ==
    (AtTop("loop") /\ ~worker.dirty /\ Granted /\ Finished) =>
        \A w \in access.watched \ missed :
            windows[w].state = "normal" =>
                \/ Constrain(worker.area, windows[w].frame) = windows[w].frame
                \/ w \in DOMAIN adjusted /\ adjusted[w].limited /\ adjusted[w].after = windows[w].frame

\* A window gets back the frame it had although its app was late.
LateComesBack ==
    (adjusted = << >> /\ worker.area = NoArea /\ worker.step # "ending" /\ Finished) =>
        \A w \in Open : windows[w].frame = windows[w].mine
================================================================================
