------------------------------ MODULE SurfaceFrames ------------------------------
(***************************************************************************)
(* Where the bar and the windows beside it go on the screen, and the strip *)
(* the bar reserves under X11 (smabar-core's platform/surfaces.rs;         *)
(* surfaces/ and platform/linux/strut.rs of the app).                      *)
(*                                                                         *)
(* Rectangles are in physical pixels.  A page measures the content of a    *)
(* window, and its frame is computed from the work area and from what it   *)
(* belongs to: a tile, the bar, or a point.  The strip is a property of    *)
(* the bar's window; the window manager keeps windows out of it, counted   *)
(* from the edges of the whole screen, which spans every monitor.          *)
(***************************************************************************)
EXTENDS Integers

CONSTANTS Layouts,      \* arrangements of monitors: functions to frames and work areas
          BarSizes,     \* sizes of the bar's window
          Contents,     \* sizes the pages measure
          Insets, Gaps, Reserves, Visible,   \* distances
          Here,         \* the monitor the bar is on, in every arrangement
          FrameBudgets  \* bounds: how often what may happen

FrameEvents == {"dock", "retract", "turn", "blind", "replug", "around"}
Right(r)   == r.x + r.w
Below(r)   == r.y + r.h
Covers(r, s) == r.x <= s.x /\ r.y <= s.y /\ Right(s) <= Right(r) /\ Below(s) <= Below(r)
IsRectangle(r) ==
    /\ r = [x |-> r.x, y |-> r.y, w |-> r.w, h |-> r.h]
    /\ r.x \in Int /\ r.y \in Int /\ r.w \in Nat \ {0} /\ r.h \in Nat \ {0}
\* A work area is part of its monitor, and one monitor reaches down the farthest.
ASSUME FrameAssumption ==
    /\ FrameBudgets \subseteq [FrameEvents -> Nat]
    /\ BarSizes \cup Contents \subseteq [w : Nat \ {0}, h : Nat \ {0}]
    /\ Insets \cup Gaps \cup Reserves \cup Visible \subseteq Nat
    /\ \A l \in Layouts :
           /\ Here \in DOMAIN l
           /\ \A m \in DOMAIN l : /\ IsRectangle(l[m].frame) /\ IsRectangle(l[m].area)
                                  /\ Covers(l[m].frame, l[m].area)
           /\ \E m \in DOMAIN l : \A n \in DOMAIN l : Below(l[n].frame) <= Below(l[m].frame)

VARIABLES
    layout,      \* the monitors that are connected
    dock,        \* the bar: its edge and behavior, its window, the rows in it, how far it is out
    strut,       \* _NET_WM_STRUT_PARTIAL, and whether it was set for this arrangement
    beside,      \* the window beside the bar that was placed last
    framesLeft   \* bounds: the events that may still happen

frameVars == <<layout, dock, strut, beside, framesLeft>>

--------------------------------------------------------------------------------
SpendFrame(event) ==
    framesLeft[event] > 0 /\ framesLeft' = [framesLeft EXCEPT ![event] = @ - 1]

Side == {"top", "bottom"}
Rectangle(x, y, w, h) == [x |-> x, y |-> y, w |-> w, h |-> h]
Center(r)  == r.x + r.w \div 2
Overlaps(r, s) == r.x < Right(s) /\ s.x < Right(r) /\ r.y < Below(s) /\ s.y < Below(r)
Least(a, b)    == IF a < b THEN a ELSE b
Greatest(a, b) == IF a > b THEN a ELSE b
\* clamp, which panics when the bounds are in the wrong order.
Panic == -1000
Clamp(v, low, high) == IF low > high THEN Panic ELSE Least(Greatest(v, low), high)

Area == layout[Here].area
RootHeight == LET far == {Below(layout[m].frame) : m \in DOMAIN layout}
              IN  CHOOSE y \in far : \A z \in far : z <= y

\* bar_surface_frame
BarFrame(area, size, edge) ==
    LET w == Clamp(size.w, 1, area.w)
        h == Clamp(size.h, 1, area.h)
    IN  Rectangle(area.x + (area.w - w) \div 2,
                  IF edge = "top" THEN area.y ELSE area.y + area.h - h, w, h)
\* offset_bar_surface
Moved(frame, edge, offset) == [frame EXCEPT !.y = IF edge = "top" THEN @ - offset ELSE @ + offset]
\* target_offset, of a bar that hides itself.
HiddenOffset(frame, screen, edge, visible) ==
    Greatest(0, (IF edge = "top" THEN Below(frame) - screen.y ELSE Below(screen) - frame.y)
                - Greatest(1, visible))
\* bar_rect_in_frame
RowsAt(frame, rows) == Rectangle(frame.x + rows.x, frame.y + rows.y, rows.w, rows.h)

\* flyout_frame and tooltip_frame: centered over the tile, on the inner side of the bar; the
\* arrow of a flyout may reach into the gap.
Horizontally(area, tile, w, inset) ==
    LET kept == Least(inset, (area.w - w) \div 2)
    IN  Clamp(Center(tile) - w \div 2, area.x + kept, Right(area) - w - kept)
Vertically(area, tile, h, edge, gap, reserve) ==
    Clamp(IF edge = "top" THEN Below(tile) + gap - reserve ELSE tile.y - h - gap + reserve,
          area.y, Below(area) - h)
FlyoutFrame(area, tile, size, edge, inset, gap, reserve) ==
    LET w == Least(size.w, area.w)
        h == Least(size.h, area.h)
        x == Horizontally(area, tile, w, inset)
        low == Least(reserve, w \div 2)
    IN  [frame |-> Rectangle(x, Vertically(area, tile, h, edge, gap, reserve), w, h),
         pointer |-> Clamp(Center(tile) - x, low, w - low)]
TooltipFrame(area, tile, size, edge, inset, gap) ==
    LET w == Least(size.w, area.w)
        h == Least(size.h, area.h)
    IN  Rectangle(Horizontally(area, tile, w, inset), Vertically(area, tile, h, edge, gap, 0), w, h)

\* MUTANT: every bar is avoided by the distance that fits a bar at the top.
AnchoredFrame_Top(area, size, across, up, inset, avoided, gap) ==
    LET w == Least(size.w, area.w)
        h == Least(size.h, area.h)
        y == IF up = "top" THEN area.y + inset ELSE Below(area) - h - inset
    IN  Rectangle(Clamp(IF across = "left" THEN area.x + inset ELSE Right(area) - w - inset,
                        area.x, Right(area) - w),
                  Clamp(IF avoided = {} THEN y
                        ELSE Greatest(y, Below(CHOOSE b \in avoided : TRUE) + gap),
                        area.y, Below(area) - h), w, h)
\* anchored_frame: in a corner or the middle of an edge, and beside the bar if it is in the way.
AnchoredFrame(area, size, across, up, inset, avoided, gap) ==
    LET w == Least(size.w, area.w)
        h == Least(size.h, area.h)
        x == Clamp(CASE across = "left" -> area.x + inset
                     [] across = "right" -> Right(area) - w - inset
                     [] OTHER -> area.x + (area.w - w) \div 2, area.x, Right(area) - w)
        y == IF up = "top" THEN area.y + inset ELSE Below(area) - h - inset
        inTheWay == {b \in avoided : x < Right(b) /\ x + w > b.x}
        clear(b) == IF up = "top" THEN Greatest(y, Below(b) + gap) ELSE Least(y, b.y - h - gap)
    IN  Rectangle(x, Clamp(IF inTheWay = {} THEN y ELSE clear(CHOOSE b \in inTheWay : TRUE),
                           area.y, Below(area) - h), w, h)
\* union
Union(r, s) ==
    LET x == Least(r.x, s.x)
        y == Least(r.y, s.y)
    IN  Rectangle(x, y, Greatest(Right(r), Right(s)) - x, Greatest(Below(r), Below(s)) - y)
\* menu_frame: room for a menu and its submenu, at the point or on its other side.
MenuSide(point, span, low, high, inset) ==
    Clamp(IF point + span + inset <= high THEN point ELSE point - span,
          low + inset, high - span - inset)
MenuFrame(area, point, panel, inset) ==
    LET w == Least(2 * panel.w + 2 * inset, area.w)
        h == Least(panel.h + 2 * inset, area.h)
    IN  Rectangle(MenuSide(point.x, w, area.x, Right(area), Least(inset, (area.w - w) \div 2)),
                  MenuSide(point.y, h, area.y, Below(area), Least(inset, (area.h - h) \div 2)), w, h)

--------------------------------------------------------------------------------
(* The strip: strut_values, strip_hits_foreign_monitor. *)

NoStrut == [edge |-> "none", thick |-> 0, from |-> 0, to |-> 0]
Strip(rows, edge) ==
    IF edge = "top" THEN Rectangle(rows.x, 0, rows.w, Below(rows))
    ELSE Rectangle(rows.x, rows.y, rows.w, RootHeight - rows.y)
HitsForeign(strip) == \E m \in DOMAIN layout \ {Here} : Overlaps(strip, layout[m].frame)
\* MUTANT: the strip is not compared with the other monitors.
StrutFor_Anywhere(rows, edge) ==
    [edge |-> edge, thick |-> IF edge = "top" THEN Greatest(0, Below(rows)) ELSE RootHeight - rows.y,
     from |-> rows.x, to |-> Right(rows) - 1]
StrutFor(rows, edge) ==
    IF HitsForeign(Strip(rows, edge)) THEN NoStrut
    ELSE [edge |-> edge, from |-> Greatest(0, rows.x), to |-> Greatest(0, Right(rows) - 1),
          thick |-> Greatest(0, IF edge = "top" THEN Below(rows) ELSE RootHeight - rows.y)]
\* What the window manager keeps free for it.
Kept(s) ==
    CASE s.edge = "none" -> Rectangle(0, 0, 0, 0)
      [] s.edge = "top" -> Rectangle(s.from, 0, s.to - s.from + 1, s.thick)
      [] OTHER -> Rectangle(s.from, RootHeight - s.thick, s.to - s.from + 1, s.thick)

--------------------------------------------------------------------------------
NoDock  == [edge |-> "none", behavior |-> "none", frame |-> Rectangle(0, 0, 0, 0),
            rows |-> Rectangle(0, 0, 0, 0), offset |-> 0]
NoWindow == [kind |-> "none"]

FrameInit ==
    /\ layout \in Layouts /\ dock = NoDock /\ strut = NoStrut /\ beside = NoWindow
    /\ framesLeft \in FrameBudgets

\* update_bar_geometry, and the reservation where the bar is now.
DockBar ==
    /\ SpendFrame("dock") /\ beside = NoWindow
    /\ \E edge \in Side, size \in BarSizes, behavior \in {"reserve", "autohide"} :
        LET frame == BarFrame(Area, size, edge)
            \* The rows of tiles at the inner side of the window's shadow.
            rows  == Rectangle(0, IF edge = "top" THEN 0 ELSE frame.h - Greatest(1, frame.h - 1),
                               frame.w, Greatest(1, frame.h - 1))
        IN  /\ dock' = [edge |-> edge, behavior |-> behavior, frame |-> frame, rows |-> rows,
                        offset |-> 0]
            /\ strut' = IF behavior = "reserve" THEN StrutFor(RowsAt(frame, rows), edge) ELSE NoStrut
    /\ UNCHANGED <<layout, beside>>
\* set_bar_revealed, once the animation is over.
RetractBar ==
    /\ SpendFrame("retract") /\ beside = NoWindow
    /\ dock.behavior = "autohide" /\ dock.offset = 0
    /\ \E visible \in Visible :
        dock' = [dock EXCEPT !.offset = HiddenOffset(dock.frame, layout[Here].frame, dock.edge, visible)]
    /\ UNCHANGED <<layout, strut, beside>>
\* The behavior becomes reserve: the page reports, and the strip is taken from where the bar is at
\* that moment.  Blind: before it has been revealed.
TurnReserve ==
    /\ dock.behavior = "autohide" /\ beside = NoWindow
    /\ SpendFrame(IF dock.offset > 0 THEN "blind" ELSE "turn")
    /\ strut' = StrutFor(RowsAt(Moved(dock.frame, dock.edge, dock.offset), dock.rows), dock.edge)
    /\ dock' = [dock EXCEPT !.behavior = "reserve", !.offset = 0]
    /\ UNCHANGED <<layout, beside>>
\* Other monitors come and go: nothing moves while the bar's own keeps its frame
\* (reconcile_monitors, same_target).  Around: a bar that keeps windows out.
Replug ==
    /\ SpendFrame(IF dock.behavior = "reserve" THEN "around" ELSE "replug") /\ beside = NoWindow
    /\ \E l \in Layouts \ {layout} : l[Here] = layout[Here] /\ layout' = l
    /\ UNCHANGED <<dock, strut, beside>>

--------------------------------------------------------------------------------
(* Windows beside the bar. *)

Shows(window) == dock # NoDock /\ beside = NoWindow /\ beside' = window
                 /\ UNCHANGED <<layout, dock, strut, framesLeft>>
Bar == RowsAt(Moved(dock.frame, dock.edge, dock.offset), dock.rows)
\* Tiles lie in a row of the bar.
Tiles == {Rectangle(x, Bar.y, w, Bar.h) : x \in Bar.x..(Right(Bar) - 1), w \in {1, Bar.w}}
TilesOfBar == {t \in Tiles : Right(t) <= Right(Bar)}
\* measure_flyout
MeasureFlyout ==
    \E tile \in TilesOfBar, size \in Contents, inset \in Insets, gap \in Gaps, reserve \in Reserves :
        LET placed == FlyoutFrame(Area, tile, size, dock.edge, inset, gap, reserve)
        IN  Shows([kind |-> "flyout", at |-> placed.frame, pointer |-> placed.pointer, tile |-> tile,
                   inset |-> inset, gap |-> gap, reserve |-> reserve])
\* measure_tooltip
MeasureTooltip ==
    \E tile \in TilesOfBar, size \in Contents, inset \in Insets, gap \in Gaps :
        Shows([kind |-> "tooltip", tile |-> tile, inset |-> inset, gap |-> gap, reserve |-> 0,
               at |-> TooltipFrame(Area, tile, size, dock.edge, inset, gap)])
\* measure_menu: the point is on the bar.
MeasureMenu ==
    \E x \in Bar.x..(Right(Bar) - 1), panel \in Contents, inset \in Insets :
        LET point == [x |-> x, y |-> Bar.y]
        IN  Shows([kind |-> "menu", point |-> point, inset |-> inset,
                   at |-> MenuFrame(Area, point, panel, inset)])
\* reposition_notifications: popups avoid the bar of their edge, a notice is at the bar's edge.
Popups(size, across, up, inset, gap) ==
    AnchoredFrame(Area, size, across, up, inset, IF up = dock.edge THEN {Bar} ELSE {}, gap)
Notice(size, inset, gap) == AnchoredFrame(Area, size, "center", dock.edge, inset, {Bar}, gap)
MeasureNotes ==
    \E size \in Contents, across \in {"left", "center", "right"}, up \in Side, inset \in Insets,
       gap \in Gaps :
        LET popup  == Popups(size, across, up, inset, gap)
            notice == Notice(size, inset, gap)
        IN  Shows([kind |-> "popups", at |-> Union(popup, notice), popup |-> popup,
                   notice |-> notice, gap |-> gap,
                   apart |-> IF up = dock.edge THEN gap ELSE inset])
Gone ==
    /\ beside # NoWindow /\ beside' = NoWindow
    /\ UNCHANGED <<layout, dock, strut, framesLeft>>

FrameNext ==
    DockBar \/ RetractBar \/ TurnReserve \/ Replug \/ MeasureFlyout \/ MeasureTooltip \/ MeasureMenu
    \/ MeasureNotes \/ Gone

FrameSpec == FrameInit /\ [][FrameNext]_frameVars

--------------------------------------------------------------------------------
FrameTypeOK ==
    /\ layout \in Layouts /\ dock.edge \in Side \cup {"none"} /\ dock.offset \in Nat
    /\ strut.thick \in Nat /\ beside.kind \in {"none", "flyout", "tooltip", "menu", "popups"}

\* Every window beside the bar is wholly on the bar's monitor, whatever is measured; a flyout
\* and a tooltip keep their distance to the tile and popups lie clear of the bar where there is room,
\* and the arrow of a flyout points at the middle of its tile.
Room(window) ==
    IF dock.edge = "top" THEN Below(Area) - Below(window.tile) >= window.at.h + window.gap - window.reserve
    ELSE window.tile.y - Area.y >= window.at.h + window.gap - window.reserve
KeepsDistance(window) ==
    IF dock.edge = "top" THEN window.at.y + window.reserve >= Below(window.tile) + window.gap
    ELSE Below(window.at) - window.reserve <= window.tile.y - window.gap
Reachable(window) ==
    LET edge == window.inset + Least(window.reserve, window.at.w \div 2)
    IN  Area.x + edge <= Center(window.tile) /\ Center(window.tile) <= Right(Area) - edge
ClearsBar(frame, apart) ==
    LET free == IF dock.edge = "top" THEN Below(Area) - Below(Bar) ELSE Bar.y - Area.y
    IN  free >= frame.h + apart => ~Overlaps(frame, Bar)
WindowsFit ==
    beside # NoWindow =>
        /\ Covers(Area, beside.at)
        /\ beside.kind \in {"flyout", "tooltip"} /\ Room(beside) => KeepsDistance(beside)
        /\ beside.kind = "flyout" /\ Reachable(beside)
               => beside.at.x + beside.pointer = Center(beside.tile)
        /\ beside.kind = "menu" => beside.at.x <= beside.point.x + beside.inset
                                   /\ beside.point.x - beside.inset <= Right(beside.at)
        /\ beside.kind = "popups" => /\ Covers(Area, beside.popup) /\ Covers(Area, beside.notice)
                                     /\ ClearsBar(beside.popup, beside.apart)
                                     /\ ClearsBar(beside.notice, beside.gap)

\* The strip holds every row of the bar that keeps windows out, up to the edge of the screen, and
\* takes nothing from another monitor; a bar at an inner edge keeps nothing.
StripIsTheBars ==
    /\ \A m \in DOMAIN layout \ {Here} : ~Overlaps(Kept(strut), layout[m].frame)
    /\ strut # NoStrut => Covers(Kept(strut), RowsAt(dock.frame, dock.rows))
    /\ dock.behavior = "reserve" /\ strut = NoStrut
           => HitsForeign(Strip(RowsAt(dock.frame, dock.rows), dock.edge))

\* Popups and a notice do not cover each other.
PopupsSpareNotice == beside.kind = "popups" => ~Overlaps(beside.popup, beside.notice)
================================================================================
