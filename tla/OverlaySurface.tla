---------------------------- MODULE OverlaySurface ----------------------------
(***************************************************************************)
(* The one transparent window that carries flyout, context menu and        *)
(* tooltip (surfaces/overlay.rs, menu.rs, tooltip.rs, focus.rs,            *)
(* presentation.rs, mod.rs and platform/linux/transition.rs).              *)
(*                                                                         *)
(* Every command changes the lifecycle record under its lock and goes on   *)
(* without it: it conceals the window, places it, tells the page, and asks *)
(* for a reveal once the page painted.  Commands run concurrently; each is *)
(* a record in ops whose step says what it does next.  The window is asked *)
(* for one thing at a time and in order (GTK's thread), an emit reaches    *)
(* the page at once, and a reveal waits for a paint of the page for as     *)
(* long as that takes.                                                     *)
(***************************************************************************)
EXTENDS Naturals, FiniteSets, FiniteSetsExt

CONSTANTS Size,    \* sizes a layer's content is measured at
          Budgets  \* bounds: what may happen, per kind of event

Events == {"opens", "measures", "closes", "focus", "clears"}
ASSUME OverlayAssumption ==
    0 \notin Size /\ Size # {} /\ Budgets \subseteq [Events -> Nat]

VARIABLES
    lifecycle,  \* the fields of Lifecycle that the overlay uses
    ops,        \* commands under way
    paint,      \* OVERLAY_PAINT_GENERATION
    window,     \* the native window: mapped, opaque, placed for which frames
    finishing,  \* reveals and unmaps that wait for a paint of the page
    page,       \* the request the page holds per layer
    losses,     \* focus losses in their grace: the generation they found, and whether
                \* focus came back since
    revealed,   \* history: content staged and shown, order of the presentations
    crossed,    \* history: a command acted on a state that had been replaced
    left        \* bounds: the events that may still happen

overlayVars == <<lifecycle, ops, paint, window, finishing, page, losses, revealed,
                 crossed, left>>

--------------------------------------------------------------------------------
Layer  == {"flyout", "menu", "tooltip"}
NoGen  == 0
NoSize == 0
Nothing == [l \in Layer |-> NoGen]
NoFrame == [l \in Layer |-> NoSize]

Active(l)  == lifecycle.active[l] # NoGen
Layers(lc) == {l \in Layer : lc.layout[l] # NoSize}
Pinned(lc) == \/ lc.active["menu"] # NoGen
              \/ lc.active["flyout"] # NoGen /\ lc.mode = "pinned"

\* A command: its next step, the request it delivers, what it closes, and what its
\* presentation captured.
Blank == [step |-> "emit", layer |-> "flyout", gen |-> NoGen, mode |-> "peek",
          size |-> NoSize, ready |-> FALSE, closes |-> Nothing, token |-> 0, snap |-> NoFrame, order |-> 0]

Opens(layer, gen, mode, closes) ==
    [Blank EXCEPT !.step = "stage", !.layer = layer, !.gen = gen, !.mode = mode,
                  !.closes = closes, !.ready = lifecycle.ready]
Presents(closes) == [Blank EXCEPT !.step = "token", !.closes = closes]

Continue(op, next) == ops' = (ops \ {op}) \cup {next}
\* A presentation returns; the command has something to report or is through.
Presented(op) == ops' = (ops \ {op}) \cup IF op.closes = Nothing THEN {}
                                         ELSE {[op EXCEPT !.step = "emit", !.snap = NoFrame,
                                                          !.token = 0, !.order = 0]}
Finished(op)       == ops' = ops \ {op}
Use(event)         == left[event] > 0 /\ left' = [left EXCEPT ![event] = @ - 1]

--------------------------------------------------------------------------------
\* open_flyout.  A preview of the same tile that is laid out is promoted instead:
\* the page is asked, and answers with a pin that replaces the content or not.
OpenFlyout(mode) ==
    /\ Use("opens")
    /\ LET gen == lifecycle.generation + 1
           closes == [Nothing EXCEPT !["tooltip"] = lifecycle.active["tooltip"]]
       IN  /\ lifecycle' = [lifecycle EXCEPT
                  !.generation = gen, !.mode = mode,
                  !.active = [@ EXCEPT !["flyout"] = gen, !["tooltip"] = NoGen],
                  !.layout = [@ EXCEPT !["flyout"] = NoSize, !["tooltip"] = NoSize]]
           /\ ops' = ops \cup {Opens("flyout", gen, mode, closes)}
    /\ UNCHANGED <<paint, window, finishing, page, losses, revealed, crossed>>

Promote ==
    /\ Active("flyout") /\ lifecycle.mode = "peek" /\ lifecycle.layout["flyout"] # NoSize
    /\ Use("opens")
    /\ page["flyout"] = lifecycle.active["flyout"]
    /\ \E ready \in BOOLEAN :  \* stands for replace_content of pin_flyout
           ops' = ops \cup {[Blank EXCEPT !.step = "pin", !.gen = page["flyout"], !.ready = ready]}
    /\ UNCHANGED <<lifecycle, paint, window, finishing, page, losses, revealed, crossed>>

\* pin_flyout
Pin(op) ==
    /\ op.step = "pin"
    /\ IF lifecycle.active["flyout"] = op.gen /\ lifecycle.mode = "peek"
       THEN LET preserve == ~op.ready /\ lifecycle.layout["flyout"] # NoSize
            IN  /\ lifecycle' = [lifecycle EXCEPT
                        !.mode = "pinned",
                        !.layout["flyout"] = IF preserve THEN @ ELSE NoSize]
                /\ Continue(op, [Opens("flyout", op.gen, "pinned", Nothing) EXCEPT
                                    !.step = IF preserve THEN "deliver" ELSE "stage",
                                    !.ready = TRUE])
       ELSE Finished(op) /\ UNCHANGED lifecycle
    /\ UNCHANGED <<paint, window, finishing, page, losses, revealed, crossed, left>>

\* open_menu
OpenMenu(keepFlyout) ==
    /\ Use("opens")
    /\ LET gen    == lifecycle.generation + 1
           taken  == {"tooltip"} \cup IF keepFlyout THEN {} ELSE {"flyout"}
           closes == [l \in Layer |-> IF l \in taken THEN lifecycle.active[l] ELSE NoGen]
       IN  /\ lifecycle' = [lifecycle EXCEPT
                  !.generation = gen,
                  !.active = [l \in Layer |-> IF l = "menu" THEN gen
                                              ELSE IF l \in taken THEN NoGen ELSE @[l]],
                  !.layout = [l \in Layer |-> IF l \in taken \cup {"menu"} THEN NoSize ELSE @[l]]]
           /\ ops' = ops \cup {Opens("menu", gen, "peek", closes)}
    /\ UNCHANGED <<paint, window, finishing, page, losses, revealed, crossed>>

\* open_tooltip; over the same trigger it keeps its generation and is not staged.
OpenTooltip(sameTrigger) ==
    /\ ~Active("flyout") /\ ~Active("menu")
    /\ sameTrigger => Active("tooltip")
    /\ Use("opens")
    /\ LET gen == IF sameTrigger THEN lifecycle.active["tooltip"] ELSE lifecycle.generation + 1
       IN  /\ lifecycle' = [lifecycle EXCEPT
                  !.generation = IF sameTrigger THEN @ ELSE gen,
                  !.active["tooltip"] = gen,
                  !.layout["tooltip"] = IF sameTrigger THEN @ ELSE NoSize]
           /\ ops' = ops \cup {[Opens("tooltip", gen, "peek", Nothing) EXCEPT
                                    !.step = IF sameTrigger THEN "deliver" ELSE "stage"]}
    /\ UNCHANGED <<paint, window, finishing, page, losses, revealed, crossed>>

\* stage_transient_update: the window is concealed and every token taken before
\* is void.
Conceal ==
    /\ paint' = paint + 1
    /\ window' = [window EXCEPT !.opaque = FALSE]

Stage(op) ==
    /\ op.step = "stage"
    /\ Conceal
    /\ Continue(op, [op EXCEPT !.step = "deliver"])
    /\ revealed' = [revealed EXCEPT !.staged = Max({@, op.gen})]
    /\ crossed' = (\/ crossed \/ lifecycle.active[op.layer] # op.gen
                   \/ lifecycle.layout[op.layer] # NoSize)
    /\ UNCHANGED <<lifecycle, finishing, page, losses, left>>

\* What the page keeps of a message that closes layers: a flyout is closed by its
\* generation, menu and tooltip whatever they are.
Closed(held, closes) ==
    [l \in Layer |-> IF closes[l] # NoGen /\ (l = "flyout" => closes[l] >= held[l])
                     THEN NoGen ELSE held[l]]
\* A flyout request older than the one held is dropped, any other layer's is not.
Requested(held, l, gen) ==
    IF l = "flyout" /\ gen < held[l] THEN held ELSE [held EXCEPT ![l] = gen]

\* deliver_flyout, and the emits of open_menu and open_tooltip: only a flyout is
\* compared with the lifecycle once more.
Deliver(op) ==
    /\ op.step = "deliver"
    /\ LET current == op.layer = "flyout" =>
                          lifecycle.active["flyout"] = op.gen /\ lifecycle.mode = op.mode
           held == Closed(page, op.closes)
       IN  page' = IF op.ready /\ current THEN Requested(held, op.layer, op.gen) ELSE held
    /\ Finished(op)
    /\ UNCHANGED <<lifecycle, paint, window, finishing, losses, revealed, crossed, left>>

\* mark_ready: the page listens, and is given what is active.
MarkReady ==
    /\ ~lifecycle.ready
    /\ lifecycle' = [lifecycle EXCEPT !.ready = TRUE]
    /\ page' = lifecycle.active
    /\ UNCHANGED <<ops, paint, window, finishing, losses, revealed, crossed, left>>

--------------------------------------------------------------------------------
\* A command between two of its awaits.
Running(op) == op.step \in {"stage", "token", "read", "clear", "show"}

\* The page measures a layer's content and reports it.  That takes a layout of the
\* page: whoever told it is at its next await by then.
ReportMeasure(l, size) ==
    /\ page[l] # NoGen /\ (\A op \in ops : ~Running(op)) /\ Use("measures")
    /\ ops' = ops \cup {[Blank EXCEPT !.step = "measure", !.layer = l, !.gen = page[l],
                                     !.size = size]}
    /\ UNCHANGED <<lifecycle, paint, window, finishing, page, losses, revealed, crossed>>

\* measure_flyout, measure_menu, measure_tooltip, from the check under the lock.
Measure(op) ==
    /\ op.step = "measure"
    /\ IF \/ lifecycle.active[op.layer] # op.gen
          \/ op.layer = "flyout" /\ lifecycle.layout["flyout"] = op.size
       THEN Finished(op) /\ UNCHANGED lifecycle
       ELSE /\ lifecycle' = [lifecycle EXCEPT !.layout[op.layer] = op.size]
            /\ Continue(op, Presents(Nothing))
    /\ UNCHANGED <<paint, window, finishing, page, losses, revealed, crossed, left>>

--------------------------------------------------------------------------------
\* present_overlay: the token before the state it stands for.
TakeToken(op) ==
    /\ op.step = "token"
    /\ Continue(op, [op EXCEPT !.step = "read", !.token = paint])
    /\ UNCHANGED <<lifecycle, paint, window, finishing, page, losses, revealed, crossed, left>>

Snapshot == [active |-> lifecycle.active, layout |-> lifecycle.layout,
             generation |-> lifecycle.generation, mode |-> lifecycle.mode]
ReadState(op) ==
    /\ op.step = "read"
    /\ Continue(op, [op EXCEPT !.step = IF Layers(lifecycle) = {} THEN "clear" ELSE "place",
                               !.snap = Snapshot, !.order = revealed.reads + 1])
    /\ revealed' = [revealed EXCEPT !.reads = @ + 1]
    /\ UNCHANGED <<lifecycle, paint, window, finishing, page, losses, crossed, left>>

\* The presentation changes the window.  It crosses another if that one read later
\* and acted before, or if it conceals a layer laid out since it read.
Acts(op) ==
    /\ crossed' = (\/ crossed \/ op.order < revealed.acted
                   \/ op.step = "clear" /\ Layers(lifecycle) # {})
    /\ revealed' = [revealed EXCEPT !.acted = Max({@, op.order})]

\* Nothing is laid out: the window is concealed.
Clear(op) ==
    /\ op.step = "clear"
    /\ lifecycle' = [lifecycle EXCEPT !.frame = NoFrame]
    /\ Conceal
    /\ Presented(op)
    /\ Acts(op)
    /\ UNCHANGED <<finishing, page, losses, left>>

\* place_surface
Place(op) ==
    /\ op.step = "place"
    /\ window' = [window EXCEPT !.placed = op.snap.layout]
    /\ Continue(op, [op EXCEPT !.step = "show"])
    /\ Acts(op)
    /\ UNCHANGED <<lifecycle, paint, finishing, page, losses, left>>

\* Mutant: the token is captured where it is used.
Show_LateToken(op) ==
    /\ op.step = "show"
    /\ lifecycle' = [lifecycle EXCEPT !.frame = op.snap.layout]
    /\ window' = [window EXCEPT !.mapped = TRUE]
    /\ finishing' = finishing \cup {[reveal |-> TRUE, token |-> paint, snap |-> op.snap]}
    /\ Presented(op)
    /\ Acts(op)
    /\ UNCHANGED <<paint, page, losses, left>>

\* The frame, the placements, and present_transient.
Show(op) ==
    /\ op.step = "show"
    /\ lifecycle' = [lifecycle EXCEPT !.frame = op.snap.layout]
    /\ window' = [window EXCEPT !.mapped = TRUE,
                                !.clickable = op.snap.active["flyout"] # NoGen \/ op.snap.active["menu"] # NoGen,
                                !.grab = IF Pinned(op.snap) THEN lifecycle.generation ELSE @]
    /\ finishing' = finishing \cup {[reveal |-> TRUE, token |-> op.token, snap |-> op.snap]}
    /\ Presented(op)
    /\ Acts(op)
    /\ UNCHANGED <<paint, page, losses, left>>

\* What the command closed is reported once its presentation returned.
Emit(op) ==
    /\ op.step = "emit"
    /\ page' = Closed(page, op.closes)
    /\ Finished(op)
    /\ UNCHANGED <<lifecycle, paint, window, finishing, losses, revealed, crossed, left>>

\* finish_transient_after_paint
Finish(f) ==
    /\ f \in finishing
    /\ finishing' = finishing \ {f}
    /\ IF f.token # paint THEN UNCHANGED <<window, revealed>>
       ELSE IF f.reveal
       THEN /\ window' = [window EXCEPT !.opaque = TRUE]
            /\ revealed' = [revealed EXCEPT !.shown = f.snap.generation]
       ELSE window' = [window EXCEPT !.mapped = FALSE, !.grab = 0] /\ UNCHANGED revealed
    /\ UNCHANGED <<lifecycle, ops, paint, page, losses, crossed, left>>

\* finalize_overlay_clear: asked for by a page that shows nothing, token first.
AskClear ==
    /\ page = Nothing /\ window.mapped /\ Use("clears")
    /\ ops' = ops \cup {[Blank EXCEPT !.step = "emptytoken"]}
    /\ UNCHANGED <<lifecycle, paint, window, finishing, page, losses, revealed, crossed>>
ClearToken(op) ==
    /\ op.step = "emptytoken"
    /\ Continue(op, [op EXCEPT !.step = "empty", !.token = paint])
    /\ UNCHANGED <<lifecycle, paint, window, finishing, page, losses, revealed, crossed, left>>
FinalizeClear(op) ==
    /\ op.step = "empty"
    /\ finishing' = finishing \cup
           IF lifecycle.active = Nothing
           THEN {[reveal |-> FALSE, token |-> op.token, snap |-> Snapshot]} ELSE {}
    /\ Finished(op)
    /\ UNCHANGED <<lifecycle, paint, window, page, losses, revealed, crossed, left>>

--------------------------------------------------------------------------------
\* Layers ls leave the lifecycle; the command goes on to present and report them.
Take(ls, bump, reports) ==
    /\ lifecycle' = [lifecycle EXCEPT
           !.generation = IF bump THEN @ + 1 ELSE @,
           !.active = [l \in Layer |-> IF l \in ls THEN NoGen ELSE @[l]],
           !.layout = [l \in Layer |-> IF l \in ls THEN NoSize ELSE @[l]]]
    /\ ops' = ops \cup {Presents([l \in Layer |-> IF l \in ls THEN reports[l] ELSE NoGen])}
    /\ UNCHANGED <<paint, window, finishing, page, losses, revealed, crossed>>

\* close_flyout, close_tooltip: asked for by generation, or whatever is open.
CloseFlyout ==
    /\ Use("closes") /\ Active("flyout") /\ Take({"flyout"}, TRUE, lifecycle.active)
CloseTooltip ==
    /\ Use("closes") /\ Active("tooltip") /\ Take({"tooltip"}, FALSE, lifecycle.active)
\* close_menu clears the page even when no menu is open.
CloseMenu ==
    /\ Use("closes")
    /\ Take({"menu"}, FALSE, [Nothing EXCEPT !["menu"] = lifecycle.generation + 1])

\* prepare_bar_relocation
Relocate ==
    /\ Use("closes") /\ lifecycle.active # Nothing
    /\ Take(Layer, TRUE, lifecycle.active)

\* handle_focus_gained, handle_focus_lost
FocusGained ==
    /\ ~lifecycle.focused /\ window.mapped /\ Use("focus")
    /\ lifecycle' = [lifecycle EXCEPT !.focused = TRUE, !.focusGeneration = lifecycle.generation]
    /\ losses' = {[loss EXCEPT !.back = TRUE] : loss \in losses}
    /\ UNCHANGED <<ops, paint, window, finishing, page, revealed, crossed>>
FocusLost ==
    /\ lifecycle.focused /\ Use("focus")
    /\ lifecycle' = [lifecycle EXCEPT !.focused = FALSE]
    /\ losses' = losses \cup {[found |-> lifecycle.generation, back |-> FALSE]}
    /\ UNCHANGED <<ops, paint, window, finishing, page, revealed, crossed>>

\* take_dismissed_overlay.  focusedAt is the last focus gain, or the generation a
\* compositor grab was taken at.
Newest == Max({lifecycle.active["flyout"], lifecycle.active["menu"]})
Dismisses(focusedAt) == Pinned(lifecycle) /\ Newest <= focusedAt
Dismissed == /\ lifecycle' = [lifecycle EXCEPT
                    !.generation = @ + 1,
                    !.active = [@ EXCEPT !["flyout"] = NoGen, !["menu"] = NoGen],
                    !.layout = [@ EXCEPT !["flyout"] = NoSize, !["menu"] = NoSize]]
             /\ ops' = ops \cup {Presents([lifecycle.active EXCEPT !["tooltip"] = NoGen])}

\* The grace of a focus loss ends: dismiss_overlay(None).
GraceEnds ==
    \E loss \in losses :
        /\ IF ~lifecycle.focused /\ Dismisses(lifecycle.focusGeneration)
           THEN Dismissed ELSE UNCHANGED <<lifecycle, ops>>
        /\ losses' = losses \ {loss}
        /\ UNCHANGED <<paint, window, finishing, page, revealed, crossed, left>>

\* The compositor ends its grab after a click outside: dismiss_overlay(Some(g)).
GrabCleared ==
    /\ window.grab # 0 /\ Use("closes")
    /\ window' = [window EXCEPT !.grab = 0]
    /\ IF Dismisses(window.grab) THEN Dismissed ELSE UNCHANGED <<lifecycle, ops>>
    /\ UNCHANGED <<paint, finishing, page, losses, revealed, crossed>>

--------------------------------------------------------------------------------
OverlayInit ==
    /\ lifecycle = [generation |-> 0, active |-> Nothing, layout |-> NoFrame, mode |-> "peek",
                    frame |-> NoFrame, ready |-> FALSE, focused |-> FALSE, focusGeneration |-> 0]
    /\ ops = {} /\ paint = 0 /\ finishing = {}
    /\ window = [mapped |-> FALSE, opaque |-> FALSE, placed |-> NoFrame,
                 clickable |-> FALSE, grab |-> 0]
    /\ page = Nothing /\ losses = {}
    /\ revealed = [staged |-> 0, shown |-> 0, reads |-> 0, acted |-> 0] /\ crossed = FALSE
    /\ left \in Budgets

OverlayNext ==
    \/ \E mode \in {"peek", "pinned"} : OpenFlyout(mode)
    \/ Promote
    \/ \E b \in BOOLEAN : OpenMenu(b) \/ OpenTooltip(b)
    \/ MarkReady \/ AskClear
    \/ \E l \in Layer, size \in Size : ReportMeasure(l, size)
    \/ CloseFlyout \/ CloseMenu \/ CloseTooltip \/ Relocate
    \/ FocusGained \/ FocusLost \/ GraceEnds \/ GrabCleared
    \/ \E op \in ops : \/ Pin(op) \/ Stage(op) \/ Deliver(op) \/ Measure(op)
                       \/ TakeToken(op) \/ ReadState(op) \/ Clear(op) \/ Place(op)
                       \/ Show(op) \/ Emit(op) \/ ClearToken(op) \/ FinalizeClear(op)
    \/ \E f \in finishing : Finish(f)

OverlaySpec == OverlayInit /\ [][OverlayNext]_overlayVars

--------------------------------------------------------------------------------
(***************************************************************************)
(* Properties                                                              *)
(***************************************************************************)

OverlayTypeOK ==
    /\ lifecycle.active \in [Layer -> Nat] /\ lifecycle.layout \in [Layer -> Size \cup {NoSize}]
    /\ \A l \in Layer : lifecycle.active[l] <= lifecycle.generation
    /\ \A l \in Layer : ~Active(l) => lifecycle.layout[l] = NoSize
    /\ paint \in Nat /\ page \in [Layer -> Nat]

OverlayQuiet == ops = {} /\ finishing = {}
Measured == \A l \in Layer : Active(l) => lifecycle.layout[l] # NoSize

\* presentation.rs, "the reveal at the end of this presentation cannot expose a
\* superseded WebKit buffer": whenever the window is opaque, what it was revealed
\* for was read after the newest content had been staged.
RevealIsFresh == window.opaque => revealed.shown >= revealed.staged

\* Once every command has returned, the window is opaque exactly while a layer is
\* laid out, and it covers exactly those layers.
QuietMeansShown ==
    OverlayQuiet /\ Measured /\ ~crossed =>
        /\ (window.opaque /\ window.mapped) <=> (Layers(lifecycle) # {})
        /\ Layers(lifecycle) # {} => /\ window.placed = lifecycle.layout
                                     /\ window.clickable <=> Active("flyout") \/ Active("menu")

\* focus.rs, "dismissing it would eat that click": what the end of a grace closes
\* was open when the focus was lost.
SparesNewClick ==
    [][\A loss \in losses \ losses' : Newest' # Newest => Newest <= loss.found]_overlayVars

\* lifecycle.rs:44, "A focus loss is acted on only after a short grace": a loss
\* that focus came back from dismisses nothing.
GraceIsHonoured ==
    [][\A loss \in losses \ losses' : Newest' # Newest => ~loss.back]_overlayVars

\* The page of a quiet overlay holds the flyout that is active and no other,
\* though opens and closes overtake each other on their way.
PageHasFlyout ==
    OverlayQuiet /\ lifecycle.ready => page["flyout"] = lifecycle.active["flyout"]

\* The same of menu and tooltip, whose messages carry no generation to compare.
PageHasActive == OverlayQuiet /\ lifecycle.ready => page = lifecycle.active
================================================================================
