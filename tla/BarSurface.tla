------------------------------- MODULE BarSurface -------------------------------
(***************************************************************************)
(* The bar's window (surfaces/bar.rs, monitor.rs,                          *)
(* commands/bar_geometry.rs, and the part of the config loop of            *)
(* commands/config.rs that moves it): relocation to another edge or        *)
(* monitor, the space it reserves, and its retraction.                     *)
(*                                                                         *)
(* The page measures the bar and reports it whenever what it measured      *)
(* differs from its last report.  A relocation hides the bar and records   *)
(* what it waits for; the report that fits places the bar, and shows it if *)
(* no later report or relocation took over.  The config loop handles one   *)
(* change after the other; the monitor watcher runs beside it.             *)
(***************************************************************************)
EXTENDS Naturals, Sequences

CONSTANTS Monitor,     \* monitors that may be connected; the smallest is the primary
          BarBudgets   \* bounds: what may happen, per kind of event

BarEvents == {"edges", "behaviors", "prefers", "plugs", "reveals", "resizes", "fails"}
ASSUME BarAssumption ==
    Monitor \subseteq Nat /\ Monitor # {} /\ BarBudgets \subseteq [BarEvents -> Nat]

VARIABLES
    barConfig,  \* the config's layout: position, behavior, monitor
    changes,    \* changes the config loop has not handled yet
    bar,        \* the fields of Lifecycle the bar uses; history: placed with an old behavior
                \* (blind), a newer placement overruled by an older one's failure (overruled)
    barWindow,  \* the native window: opaque, where it is, its offset, its reservation
    barPage,    \* the page: the layout it measures for, its size, its last report, what holds it
    barOps,     \* commands and tasks under way
    plugged,    \* the monitors that are connected
    barLeft     \* bounds: the events that may still happen

barVars == <<barConfig, changes, bar, barWindow, barPage, barOps, plugged, barLeft>>

--------------------------------------------------------------------------------
Edge      == {"top", "bottom"}
Behavior  == {"reserve", "float", "autohide"}
NoEdge    == "none"
NoMonitor == 0
NoReport  == [edge |-> NoEdge, behavior |-> NoEdge, size |-> 0]
Unplaced  == [edge |-> NoEdge, on |-> NoMonitor, size |-> 0]
Context   == [position |-> NoEdge, behavior |-> NoEdge]  \* the event that measures anew
NoSpace   == [edge |-> NoEdge, size |-> 0]
Spent(event) == barLeft[event] > 0 /\ barLeft' = [barLeft EXCEPT ![event] = @ - 1]
Becomes(op, next) == barOps' = (barOps \ {op}) \cup {next}
Returns(op)       == barOps' = barOps \ {op}

\* resolve_index: the preferred monitor, or the primary one.
Chosen(preferred, displays) ==
    IF preferred \in displays THEN preferred ELSE CHOOSE m \in displays : \A n \in displays : m <= n
\* reservation_for_behavior
Reserved(behavior, edge, size) ==
    IF behavior = "reserve" THEN [edge |-> edge, size |-> size] ELSE NoSpace
\* target_offset: the bar is retracted while it hides itself and is not revealed.
Target(behavior, revealed) == IF behavior # "autohide" \/ revealed THEN "shown" ELSE "hidden"

--------------------------------------------------------------------------------
\* The config: a change is stored, and told to the loop.
Change(new) ==
    /\ barConfig' = new
    /\ changes' = Append(changes, [old |-> barConfig, new |-> new])
SetEdge ==
    /\ Spent("edges")
    /\ Change([barConfig EXCEPT !.position = IF @ = "top" THEN "bottom" ELSE "top"])
    /\ UNCHANGED <<bar, barWindow, barPage, barOps, plugged>>
SetBehavior ==
    /\ Spent("behaviors")
    /\ \E b \in Behavior \ {barConfig.behavior} : Change([barConfig EXCEPT !.behavior = b])
    /\ UNCHANGED <<bar, barWindow, barPage, barOps, plugged>>
Prefer ==
    /\ Spent("prefers")
    /\ \E m \in Monitor \ {barConfig.monitor} : Change([barConfig EXCEPT !.monitor = m])
    /\ UNCHANGED <<bar, barWindow, barPage, barOps, plugged>>

\* A monitor is connected or disconnected; 150 ms later the watcher reconciles with
\* what it detected.
Plug ==
    /\ Spent("plugs")
    /\ \E displays \in SUBSET Monitor \ {{}, plugged} :
           /\ plugged' = displays
           /\ barOps' = barOps \cup {[step |-> "reconcile", displays |-> displays, after |-> <<>>]}
    /\ UNCHANGED <<barConfig, changes, bar, barWindow, barPage>>

\* What the config loop does next with a change, a sequence of one; a task of the
\* watcher has none and ends.
Goes(op, step) ==
    barOps' = (barOps \ {op}) \cup
        (IF op.after = <<>> THEN {} ELSE {[step |-> step, displays |-> {}, after |-> op.after]})
AfterMonitor(c) == IF c.old.position # c.new.position THEN "prepare" ELSE "layout"
Unmoved(op) == Goes(op, IF op.after = <<>> THEN "end" ELSE AfterMonitor(op.after[1]))

\* reconcile_monitors: decided on what is effective now; a move conceals the bar,
\* which takes a while.
Decide(op) ==
    LET effective == Chosen(barConfig.monitor, op.displays)
    IN  IF effective # bar.monitor
        THEN /\ barOps' = (barOps \ {op}) \cup
                    {[step |-> "relocate", displays |-> op.displays, after |-> op.after,
                      effective |-> effective]}
             /\ barWindow' = [barWindow EXCEPT !.opaque = FALSE]
             /\ UNCHANGED bar
        ELSE /\ bar' = [bar EXCEPT !.displays = op.displays]
             /\ Unmoved(op)
             /\ UNCHANGED barWindow
Reconcile(op) ==
    /\ op.step = "reconcile" /\ Decide(op)
    /\ UNCHANGED <<barConfig, changes, barPage, plugged, barLeft>>

\* spawn_config_events: one change after the other; a change of the monitor is
\* reconciled first, with the inventory that is known.
TakeChange ==
    /\ changes # <<>> /\ \A op \in barOps : op.after = <<>>
    /\ LET c  == Head(changes)
           op == [step |-> "reconcile", displays |-> bar.displays, after |-> <<c>>]
       IN  IF c.old.monitor # c.new.monitor THEN Decide(op)
           ELSE Unmoved(op) /\ UNCHANGED <<bar, barWindow>>
    /\ changes' = Tail(changes)
    /\ UNCHANGED <<barConfig, barPage, plugged, barLeft>>

\* prepare_bar_relocation: what a report must bring before the bar shows again.
Prepares(edge) ==
    bar' = [bar EXCEPT !.geometry = Unplaced, !.frame = Unplaced, !.relocation = edge,
                       !.frameGen = @ + 1, !.motion = @ + 1]
\* Once the bar is concealed: prepare, and clear the overlay.
PrepareMonitor(op) ==
    /\ op.step = "relocate" /\ Prepares(barConfig.position)
    /\ Becomes(op, [op EXCEPT !.step = "move"])
    /\ UNCHANGED <<barConfig, changes, barWindow, barPage, plugged, barLeft>>
PrepareEdge(op) ==
    /\ op.step = "prepare" /\ Prepares(op.after[1].new.position)
    /\ Becomes(op, [op EXCEPT !.step = "edge"])
    /\ UNCHANGED <<barConfig, changes, barWindow, barPage, plugged, barLeft>>
\* It could not be concealed: it stays where it is.
MonitorStays(op) ==
    /\ op.step = "relocate" /\ Spent("fails")
    /\ barWindow' = [barWindow EXCEPT !.opaque = TRUE]
    /\ Unmoved(op)
    /\ UNCHANGED <<barConfig, changes, bar, barPage, plugged>>

\* Release the reservation, store the inventory, and tell every page.
MoveMonitor(op) ==
    /\ op.step = "move"
    /\ bar' = [bar EXCEPT !.displays = op.displays, !.monitor = op.effective]
    /\ barWindow' = [barWindow EXCEPT !.space = NoSpace]
    /\ barPage' = [barPage EXCEPT !.inbox = Append(@, Context)]
    /\ Goes(op, "layout")
    /\ UNCHANGED <<barConfig, changes, plugged, barLeft>>

\* layout-changed reaches the page; the reservation of another edge is released, and
\* a new behavior's is taken from the geometry that is recorded.
TellLayout(op) ==
    /\ op.step \in {"edge", "layout"}
    /\ LET old == op.after[1].old
           new == op.after[1].new
           kept == IF op.step = "edge" THEN NoSpace ELSE barWindow.space
       IN  /\ barPage' = [barPage EXCEPT !.inbox =
                              Append(@, [position |-> new.position, behavior |-> new.behavior])]
           /\ barWindow' = [barWindow EXCEPT !.space =
                  IF old.behavior = new.behavior THEN kept
                  ELSE IF bar.geometry.edge = new.position
                  THEN Reserved(new.behavior, new.position, bar.geometry.size)
                  ELSE NoSpace]
    /\ Returns(op)
    /\ UNCHANGED <<barConfig, changes, bar, plugged, barLeft>>

--------------------------------------------------------------------------------
\* autohideRevealed: the pointer, or something that is open, holds the bar.
Wants(page) == page.behavior # "autohide" \/ page.held
\* useAutohide: the core is asked each time that changes.
Asks(page) ==
    IF Wants(page) = page.asked THEN page
    ELSE [page EXCEPT !.asked = Wants(page), !.asks = Append(@, Wants(page))]
Hold ==
    /\ Spent("reveals")
    /\ barPage' = Asks([barPage EXCEPT !.held = ~@])
    /\ UNCHANGED <<barConfig, changes, bar, barWindow, barOps, plugged>>

\* The page measures whenever its store or its document changes, and sends what it
\* measured if that differs from what it sent last.
Measures(page) ==
    LET measured == [edge |-> page.position, behavior |-> page.behavior, size |-> page.size]
    IN  barPage' = IF measured = page.reported THEN page
                   ELSE [page EXCEPT !.reported = measured, !.sent = Append(@, measured)]
Resize ==
    /\ Spent("resizes")
    /\ Measures([barPage EXCEPT !.size = 3 - @])
    /\ UNCHANGED <<barConfig, changes, bar, barWindow, barOps, plugged>>
\* layout-changed, or a new context: the report is due whatever was sent.  Leaving
\* autohide forgets the pointer; what is open still holds the bar.
HearLayout ==
    /\ barPage.inbox # <<>>
    /\ LET told  == Head(barPage.inbox)
           page  == [barPage EXCEPT !.inbox = Tail(@)]
           leaves == page.behavior = "autohide" /\ told.behavior # "autohide"
       IN  \/ told = Context /\ Measures([page EXCEPT !.reported = NoReport])
           \/ /\ told # Context
              /\ \E held \in {page.held, page.held /\ ~leaves} :
                     Measures(Asks([page EXCEPT !.position = told.position, !.held = held,
                                                !.behavior = told.behavior]))
    /\ UNCHANGED <<barConfig, changes, bar, barWindow, barOps, plugged, barLeft>>

\* update_bar_geometry, and the reservation: at once for a relocation, deferred for
\* a report of another size.  What runs between two awaits is one step.
Placed(config, size, relocates, op) ==
    LET frame   == [edge |-> config.position, on |-> bar.monitor, size |-> size]
        changed == frame # bar.frame
        space   == Reserved(config.behavior, config.position, size)
        offset  == IF changed THEN Target(config.behavior, bar.revealed) ELSE bar.offset
        next    == IF relocates THEN [op EXCEPT !.step = "claim"]
                   ELSE [step |-> "settle", after |-> <<>>, gen |-> bar.reservation + 1, space |-> space]
    IN  /\ bar' = [bar EXCEPT !.geometry = [frame EXCEPT !.on = NoMonitor], !.frame = frame,
                       !.motion = IF changed THEN @ + 1 ELSE @, !.offset = offset,
                       !.blind = IF changed THEN config.behavior # barConfig.behavior ELSE @,
                       !.reservation = @ + 1]
        /\ barWindow' = [barWindow EXCEPT
               !.at = frame, !.offset = IF changed THEN offset ELSE @,
               !.space = IF relocates THEN space ELSE @]
        /\ barOps' = (barOps \ {op}) \cup {next}

\* set_bar_geometry: a report of another edge than the config's is stale; the rest
\* works with the config it read.  A report a relocation waits for conceals the bar
\* and sleeps.
Report ==
    /\ barPage.sent # <<>>
    /\ barPage' = [barPage EXCEPT !.sent = Tail(@)]
    /\ LET report    == Head(barPage.sent)
           relocates == bar.relocation = report.edge
           op        == [step |-> "place", after |-> <<>>, gen |-> bar.frameGen + 1,
                         config |-> barConfig, size |-> report.size]
       IN  \/ /\ barConfig.position # report.edge
              /\ UNCHANGED <<bar, barWindow, barOps>>
           \/ /\ barConfig.position = report.edge /\ relocates
              /\ bar' = [bar EXCEPT !.frameGen = @ + 1]
              /\ barWindow' = [barWindow EXCEPT !.opaque = FALSE]
              /\ barOps' = barOps \cup {op}
           \/ /\ barConfig.position = report.edge /\ ~relocates
              /\ Placed(barConfig, report.size, FALSE, op)
    /\ UNCHANGED <<barConfig, changes, plugged, barLeft>>

\* Reports that sleep equally long go on in the order they came.
Oldest(op) == \A other \in barOps : other.step = op.step => op.gen <= other.gen
PlaceBar(op) ==
    /\ op.step = "place" /\ Oldest(op)
    /\ Placed(op.config, op.size, TRUE, op)
    /\ UNCHANGED <<barConfig, changes, barPage, plugged, barLeft>>

\* claim_bar_relocation_frame, after a second sleep: only the newest report of the
\* relocation that is pending shows the bar.
Claim(op) ==
    /\ op.step = "claim" /\ Oldest(op)
    /\ IF bar.relocation = op.config.position /\ bar.frameGen = op.gen
       THEN /\ bar' = [bar EXCEPT !.relocation = NoEdge]
            /\ Becomes(op, [op EXCEPT !.step = "show"])
       ELSE Returns(op) /\ UNCHANGED bar
    /\ UNCHANGED <<barConfig, changes, barWindow, barPage, plugged, barLeft>>
ShowBar(op) ==
    /\ op.step = "show"
    /\ barWindow' = [barWindow EXCEPT !.opaque = TRUE]
    /\ Returns(op)
    /\ UNCHANGED <<barConfig, changes, bar, barPage, plugged, barLeft>>
\* restore_bar_relocation: the page reports again, a second later.
ShowFails(op) ==
    /\ op.step = "show" /\ Spent("fails")
    /\ bar' = [bar EXCEPT !.relocation = op.config.position, !.frameGen = @ + 1,
                          !.overruled = @ \/ op.gen # bar.frameGen]
    /\ Measures([barPage EXCEPT !.reported = NoReport])
    /\ Returns(op)
    /\ UNCHANGED <<barConfig, changes, barWindow, plugged>>

\* Mutant: a deferred reservation is not compared with later ones.
SettleReservation_Late(op) ==
    /\ op.step = "settle"
    /\ barWindow' = [barWindow EXCEPT !.space = op.space]
    /\ Returns(op)
    /\ UNCHANGED <<barConfig, changes, bar, barPage, plugged, barLeft>>

\* defer_bar_reservation: after 150 ms, unless a later report took its place.
SettleReservation(op) ==
    /\ op.step = "settle"
    /\ barWindow' = IF op.gen = bar.reservation THEN [barWindow EXCEPT !.space = op.space] ELSE barWindow
    /\ Returns(op)
    /\ UNCHANGED <<barConfig, changes, bar, barPage, plugged, barLeft>>

--------------------------------------------------------------------------------
\* set_bar_revealed: what the page asked; the animation gives way to whatever moves
\* the bar later.
Reveal(instant) ==
    /\ barPage.asks # <<>>
    /\ barPage' = [barPage EXCEPT !.asks = Tail(@)]
    /\ LET seen   == barConfig.behavior # "autohide" \/ Head(barPage.asks)
           target == Target(barConfig.behavior, seen)
           still  == instant \/ bar.offset = target
           next   == [bar EXCEPT !.revealed = seen, !.motion = @ + 1]
       IN  IF bar.frame = Unplaced
           THEN bar' = next /\ UNCHANGED <<barWindow, barOps>>
           ELSE /\ bar' = [next EXCEPT !.offset = IF still THEN target ELSE @, !.blind = FALSE]
                /\ barWindow' = IF still THEN [barWindow EXCEPT !.offset = target] ELSE barWindow
                /\ barOps' = IF still THEN barOps
                             ELSE barOps \cup {[step |-> "glide", after |-> <<>>,
                                                gen |-> bar.motion + 1, target |-> target]}
    /\ UNCHANGED <<barConfig, changes, plugged, barLeft>>

\* A tick of the animation; the last one reaches the target.
Glide(op) ==
    /\ op.step = "glide"
    /\ IF op.gen # bar.motion THEN Returns(op) /\ UNCHANGED <<bar, barWindow>>
       ELSE \E offset \in {"between", op.target} :
                /\ offset # bar.offset
                /\ bar' = [bar EXCEPT !.offset = offset]
                /\ barWindow' = [barWindow EXCEPT !.offset = offset]
                /\ IF offset = op.target THEN Returns(op) ELSE UNCHANGED barOps
    /\ UNCHANGED <<barConfig, changes, barPage, plugged, barLeft>>

--------------------------------------------------------------------------------
BarInit ==
    /\ barConfig = [position |-> "top", behavior |-> "reserve", monitor |-> NoMonitor]
    /\ changes = <<>> /\ plugged = Monitor
    /\ bar = [relocation |-> NoEdge, frameGen |-> 0, geometry |-> Unplaced, frame |-> Unplaced,
              motion |-> 0, offset |-> "shown", revealed |-> TRUE, reservation |-> 0,
              blind |-> FALSE, overruled |-> FALSE, displays |-> Monitor, monitor |-> Chosen(NoMonitor, Monitor)]
    /\ barWindow = [opaque |-> TRUE, at |-> Unplaced, offset |-> "shown", space |-> NoSpace]
    /\ barPage = [position |-> "top", behavior |-> "reserve", size |-> 1, reported |-> NoReport,
                  inbox |-> <<Context>>, sent |-> <<>>, held |-> FALSE, asked |-> TRUE, asks |-> <<>>]
    /\ barOps = {} /\ barLeft \in BarBudgets

BarNext ==
    \/ SetEdge \/ SetBehavior \/ Prefer \/ Plug \/ TakeChange \/ Resize \/ Hold \/ HearLayout
    \/ Report \/ \E instant \in BOOLEAN : Reveal(instant)
    \/ \E op \in barOps :
           \/ Reconcile(op) \/ PrepareMonitor(op) \/ MonitorStays(op) \/ MoveMonitor(op)
           \/ PrepareEdge(op) \/ TellLayout(op) \/ PlaceBar(op) \/ Claim(op) \/ ShowBar(op)
           \/ ShowFails(op) \/ SettleReservation(op) \/ Glide(op)

BarSpec == BarInit /\ [][BarNext]_barVars

--------------------------------------------------------------------------------
(***************************************************************************)
(* Properties                                                              *)
(***************************************************************************)

BarTypeOK ==
    /\ bar.relocation \in Edge \cup {NoEdge} /\ bar.offset \in {"shown", "between", "hidden"}
    /\ bar.monitor \in bar.displays

BarQuiet ==
    /\ changes = <<>> /\ barOps = {}
    /\ barPage.inbox = <<>> /\ barPage.sent = <<>> /\ barPage.asks = <<>>

\* bar_geometry.rs and config.rs: however relocations, reports and resizes overlap,
\* a bar that came to rest can be seen, at the edge the config names and with the
\* size the page measured, and waits for no report.
BarComesBack ==
    BarQuiet =>
        /\ barWindow.opaque /\ bar.relocation = NoEdge
        /\ barWindow.at = [edge |-> barConfig.position, on |-> bar.monitor, size |-> barPage.size]

\* It reserves what the behavior and the last report ask for.
BarReserves == barWindow.space = Reserved(barConfig.behavior, barConfig.position, barPage.size)
SpaceIsAsReported == BarQuiet => BarReserves

\* It reserves what the behavior and the last report ask for, and is retracted
\* exactly as far as the page wants, whatever crossed on the way; a bar that was
\* placed with a behavior from before a change may still be out, and where a failure
\* set the relocation back to an older one, the space may be an older report's.
BarHoldsItsPlace ==
    BarQuiet =>
        /\ BarReserves \/ bar.overruled
        /\ barWindow.offset = bar.offset
        /\ \/ bar.offset = Target(barConfig.behavior, Wants(barPage))
           \/ bar.blind /\ bar.offset = "shown"

\* useAutohide.ts: what the page asked last is what the bar does once it rests.
BarIsAsAsked == BarQuiet => bar.offset = Target(barConfig.behavior, Wants(barPage))

\* monitor.rs, "One monitor decision shared by every native smabar surface": the
\* decision is about a monitor that is still connected.
MonitorIsConnected == BarQuiet => bar.monitor \in plugged
================================================================================
