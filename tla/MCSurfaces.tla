------------------------------- MODULE MCSurfaces -------------------------------
(***************************************************************************)
(* Bounds of the model checking run of the windows.  The overlay, the      *)
(* popups, the bar and the frames on the screen share no state that a step *)
(* of another one waits for, so one run explores each of them on its own:  *)
(* part says which one moves, and the others stay in an initial state.     *)
(***************************************************************************)
EXTENDS OverlaySurface, Notifications, BarSurface, SurfaceFrames

VARIABLE part

--------------------------------------------------------------------------------
\* Commands that overlap; a focus that comes and goes; a clear that comes late.
Budget(opens, measures, closes, focus, clears) ==
    [opens |-> opens, measures |-> measures, closes |-> closes, focus |-> focus,
     clears |-> clears]
CommandsFocusClear == {Budget(2, 2, 1, 0, 0), Budget(2, 1, 0, 2, 0), Budget(2, 1, 1, 0, 1)}
\* One flyout whose focus is lost, found and lost again.
FocusTwice == {Budget(1, 1, 0, 4, 0)}

\* A second popup while the first ends, is dismissed, or its session stops; one of
\* the older protocol.
PB(shows, dismisses, stops, toggles, ends, olds) ==
    [shows |-> shows, dismisses |-> dismisses, stops |-> stops, toggles |-> toggles,
     ends |-> ends, olds |-> olds]
ShowsEndsStops == {PB(2, 0, 0, 0, 1, 0), PB(2, 1, 0, 0, 0, 0), PB(1, 0, 1, 1, 0, 0),
                   PB(1, 0, 0, 0, 0, 1)}

\* Relocations that overlap reports, resizes, each other, a hidden bar, a failure.
BB(edges, behaviors, prefers, plugs, reveals, resizes, fails) ==
    [edges |-> edges, behaviors |-> behaviors, prefers |-> prefers, plugs |-> plugs,
     reveals |-> reveals, resizes |-> resizes, fails |-> fails]
EdgesMonitorsMotion ==
    {BB(2, 0, 0, 0, 0, 1, 0), BB(1, 1, 0, 0, 0, 1, 0), BB(1, 0, 1, 1, 0, 0, 0),
     BB(0, 1, 0, 0, 2, 1, 0), BB(0, 2, 0, 0, 2, 0, 0), BB(1, 0, 0, 0, 1, 0, 1), BB(0, 0, 1, 0, 0, 1, 1),
     BB(2, 0, 0, 0, 0, 1, 1)}
\* Monitors one above, below or beside the other; one with a panel; one far smaller than a window.
Screen(x, y, w, h, panel) ==
    [frame |-> Rectangle(x, y, w, h), area |-> Rectangle(x, y + panel, w, h - panel)]
Lone   == [m \in {1} |-> Screen(0, 0, 7, 9, 0)]
With2(first, second) == [m \in {1, 2} |-> IF m = 1 THEN first ELSE second]
Arrangements ==
    {Lone, [m \in {1} |-> Screen(0, 0, 5, 6, 1)],
     With2(Screen(0, 0, 7, 9, 0), Screen(0, 9, 4, 9, 0)), With2(Screen(2, 6, 7, 9, 1), Screen(4, 0, 9, 6, 0)),
     With2(Screen(0, 0, 7, 9, 0), Screen(7, 0, 7, 12, 0))}
Area2(w, h) == [w |-> w, h |-> h]
Bars     == {Area2(4, 3), Area2(9, 2)}
Measured2 == {Area2(2, 2), Area2(3, 5), Area2(8, 1)}
FM(dockings, retract, turn, blind, replug, around) ==
    [dock |-> dockings, retract |-> retract, turn |-> turn, blind |-> blind, replug |-> replug,
     around |-> around]
DocksAndRetracts == {FM(2, 1, 1, 0, 0, 0), FM(1, 0, 1, 0, 1, 0)}
\* The behavior changes while the bar is retracted; monitors change around a bar that stays.
BlindReserve == {FM(1, 1, 0, 1, 0, 0)}
Replugs      == {FM(1, 0, 0, 0, 0, 1)}

\* A failure to show the bar while its edge changes again, and its size.
EdgesFail == {BB(2, 0, 0, 0, 0, 1, 1)}
\* The behavior changes while a relocation waits to place the bar.
BehaviorAsItMoves == {BB(1, 1, 0, 0, 0, 0, 0)}

--------------------------------------------------------------------------------
CONSTANT Parts    \* which of them the run explores
Resting(bounds, value, name) == part # name => value = CHOOSE b \in bounds : TRUE

SurfacesInit ==
    /\ part \in Parts \cap {"overlay", "popups", "bar", "frames"}
    /\ OverlayInit /\ Resting(Budgets, left, "overlay")
    /\ PopupInit /\ Resting(PopupBudgets, popupLeft, "popups")
    /\ BarInit /\ Resting(BarBudgets, barLeft, "bar")
    /\ FrameInit /\ Resting(FrameBudgets, framesLeft, "frames") /\ Resting(Layouts, layout, "frames")

SurfacesNext ==
    /\ UNCHANGED part
    /\ \/ part = "overlay" /\ OverlayNext /\ UNCHANGED <<popupVars, barVars, frameVars>>
       \/ part = "popups" /\ PopupNext /\ UNCHANGED <<overlayVars, barVars, frameVars>>
       \/ part = "bar" /\ BarNext /\ UNCHANGED <<overlayVars, popupVars, frameVars>>
       \/ part = "frames" /\ FrameNext /\ UNCHANGED <<overlayVars, popupVars, barVars>>

SurfacesSpec == SurfacesInit /\ [][SurfacesNext]_<<part, overlayVars, popupVars, barVars, frameVars>>

\* Types of the modules.
SurfacesTypeOK == OverlayTypeOK /\ PopupTypeOK /\ BarTypeOK /\ FrameTypeOK
================================================================================
