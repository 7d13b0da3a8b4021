------------------------------ MODULE LayerShellBar ------------------------------
(***************************************************************************)
(* The bar on a Wayland layer shell (smabar/src/platform/linux: window.rs, *)
(* reservation.rs, strut.rs, layer.rs; who calls them: surfaces/bar.rs,       *)
(* commands/config.rs).                                                    *)
(*                                                                         *)
(* A second, invisible surface reserves the edge, so that the bar can      *)
(* slide without moving other windows.  The compositor keeps the bar off   *)
(* that surface as well; margins move it back into its own strip.  Every   *)
(* call becomes a task of GTK's main thread.  Placing sets the margins to  *)
(* zero, moving sets one, and reserving adds to what is there, while the   *)
(* calls come from the report of the bar's page, the animation, the config *)
(* loop and a reservation that waited for the reports to settle.           *)
(*                                                                         *)
(* Lengths are from the edge of the screen the surface is anchored to.     *)
(***************************************************************************)
EXTENDS Integers, Sequences

CONSTANTS Thickness,      \* heights of the bar
          NoteDistance,   \* how far from its edge the notification window belongs
          LayerBudgets    \* bounds: how often what may happen

LayerEvents == {"edge", "size", "behavior", "slide", "late"}
ASSUME LayerAssumption ==
    /\ Thickness \subseteq Nat \ {0} /\ Thickness # {} /\ NoteDistance \in Nat
    /\ LayerBudgets \subseteq [LayerEvents -> Nat]

VARIABLES
    surface,    \* the bar's: anchor, margins, exclusive zone
    proxy,      \* PROXY: whether it exists, its edge, its zone
    note,       \* the notification window: its edge and margin
    mainTasks,  \* run_on_main_thread: the tasks that wait
    wish,       \* what the config and the page want: edge, height, offset, reserve
    barCalls,      \* the calls the report under way still makes, and whether one is due
    deferred,   \* defer_bar_reservation: the reservation that waits
    layerLeft   \* bounds: the events that may still happen

layerVars == <<surface, proxy, note, mainTasks, wish, barCalls, deferred, layerLeft>>

--------------------------------------------------------------------------------
Side == {"top", "bottom"}
Other(side) == IF side = "top" THEN "bottom" ELSE "top"
SpendLayer(event) == layerLeft[event] > 0 /\ layerLeft' = [layerLeft EXCEPT ![event] = @ - 1]
NoMargins == [side \in Side |-> 0]
NoTask == [kind |-> "none", side |-> "top", size |-> 0]
Task(kind, side, size) == [kind |-> kind, side |-> side, size |-> size]
\* exclusive_zone, of what the config wants now.
Zone == IF wish.reserve THEN wish.size ELSE 0
NoteSide == "top"

\* setup_layer_surface
LayerInit ==
    /\ wish \in [side : {"top"}, size : Thickness, offset : {0}, reserve : {TRUE}]
    /\ surface = [anchor |-> "top", margin |-> NoMargins, zone |-> 0]
    /\ proxy = [made |-> FALSE, side |-> "top", zone |-> 0]
    /\ note = [side |-> NoteSide, margin |-> NoteDistance]
    /\ mainTasks = <<>> /\ barCalls = [todo |-> <<>>, due |-> "relocation"] /\ deferred = NoTask
    /\ layerLeft \in LayerBudgets

--------------------------------------------------------------------------------
(* The tasks of the main thread. *)

Height == IF proxy.made THEN proxy.zone ELSE 0

\* place_bar_surface and set_vertical_anchor
PlaceSurface(task) ==
    /\ surface' = [surface EXCEPT !.anchor = task.side, !.margin = NoMargins]
    /\ UNCHANGED <<proxy, note>>
\* move_bar_surface: a bar that hides keeps its strip at the physical edge.
MoveSurface(task) ==
    /\ surface' = [surface EXCEPT
           !.zone = IF task.size > 0 THEN -1 ELSE IF @ < 0 THEN 0 ELSE @,
           !.margin = [NoMargins EXCEPT ![task.side] = - task.size - Height]]
    /\ UNCHANGED <<proxy, note>>

\* reservation::apply
\* MUTANT: what was reserved before is not given back.
Shift_Forgets(margin, previous, next) == margin - next
Shift(margin, previous, next) == margin + previous - next
ReserveEdge(task) ==
    /\ proxy' = IF task.size > 0 THEN [made |-> TRUE, side |-> task.side, zone |-> task.size]
                ELSE [proxy EXCEPT !.zone = 0]
    /\ surface' = [surface EXCEPT
           !.zone = IF task.size > 0 \/ @ >= 0 THEN 0 ELSE @,
           !.margin = [side \in Side |->
               Shift(@[side], IF proxy.made /\ proxy.side = side THEN proxy.zone ELSE 0,
                     IF task.side = side THEN task.size ELSE 0)]]
    /\ UNCHANGED note

\* place_transient
PlaceNote ==
    /\ note' = [note EXCEPT !.margin =
           NoteDistance - (IF note.side = surface.anchor THEN Height ELSE 0)]
    /\ UNCHANGED <<surface, proxy>>

RunTask ==
    /\ mainTasks # <<>> /\ mainTasks' = Tail(mainTasks)
    /\ LET task == Head(mainTasks)
       IN \/ task.kind = "place"   /\ PlaceSurface(task)
          \/ task.kind = "move"    /\ MoveSurface(task)
          \/ task.kind = "reserve" /\ ReserveEdge(task)
          \/ task.kind = "note"    /\ PlaceNote
    /\ UNCHANGED <<wish, barCalls, deferred, layerLeft>>

Schedules(tasks) == mainTasks' = mainTasks \o tasks

--------------------------------------------------------------------------------
(* Who calls them. *)

\* Another edge: the loop releases the old one before the page is told.
WishEdge ==
    /\ SpendLayer("edge") /\ wish' = [wish EXCEPT !.side = Other(@)]
    /\ Schedules(<<Task("reserve", wish.side, 0)>>)
    /\ barCalls' = [barCalls EXCEPT !.due = "relocation"]
    /\ UNCHANGED <<surface, proxy, note, deferred>>
\* Another height, as the user drags a slider.
WishSize ==
    /\ SpendLayer("size") /\ barCalls.due = "no"
    /\ \E size \in Thickness \ {wish.size} : wish' = [wish EXCEPT !.size = size]
    /\ barCalls' = [barCalls EXCEPT !.due = "report"]
    /\ UNCHANGED <<surface, proxy, note, mainTasks, deferred>>
\* Another behavior: reserved at once from the recorded geometry, and reported again.
WishBehavior ==
    /\ SpendLayer("behavior") /\ wish' = [wish EXCEPT !.reserve = ~@, !.offset = 0]
    /\ Schedules(<<Task("reserve", wish.side, IF wish.reserve THEN 0 ELSE wish.size)>>)
    /\ barCalls' = [barCalls EXCEPT !.due = IF @ = "no" THEN "report" ELSE @]
    /\ UNCHANGED <<surface, proxy, note, deferred>>
\* set_bar_revealed and its animation: the bar retracts, or comes back.
Slide ==
    /\ SpendLayer("slide") /\ ~wish.reserve /\ barCalls = [todo |-> <<>>, due |-> "no"]
    /\ \E offset \in {0, wish.size} \ {wish.offset} :
        /\ wish' = [wish EXCEPT !.offset = offset]
        /\ Schedules(<<Task("move", wish.side, offset)>>)
    /\ UNCHANGED <<surface, proxy, note, barCalls, deferred>>

\* set_bar_geometry: placed and moved, then reserved at once or deferred.
ReportBar ==
    /\ barCalls.due # "no" /\ barCalls.todo = <<>>
    /\ barCalls' = [due |-> "no",
                 todo |-> <<Task("place", wish.side, 0), Task("move", wish.side, wish.offset),
                            Task(IF barCalls.due = "relocation" THEN "reserve" ELSE "defer",
                                 wish.side, Zone)>>]
    /\ UNCHANGED <<surface, proxy, note, mainTasks, wish, deferred, layerLeft>>

\* A reservation for an edge the bar has left meanwhile.
Late(task) == task.kind = "reserve" /\ task.side # wish.side
Reserves(task) == <<task, Task("note", NoteSide, 0)>>
NextCall ==
    /\ barCalls.todo # <<>> /\ barCalls' = [barCalls EXCEPT !.todo = Tail(@)]
    /\ LET task == Head(barCalls.todo)
       IN /\ IF Late(task) THEN SpendLayer("late") ELSE UNCHANGED layerLeft
          /\ IF task.kind = "defer"
             THEN deferred' = [task EXCEPT !.kind = "reserve"] /\ UNCHANGED mainTasks
             ELSE IF task.kind = "reserve" THEN deferred' = NoTask /\ Schedules(Reserves(task))
             ELSE UNCHANGED deferred /\ Schedules(<<task>>)
    /\ UNCHANGED <<surface, proxy, note, wish>>
\* The newest deferred reservation, 150 ms later.
DeferredDue ==
    /\ deferred # NoTask /\ deferred' = NoTask
    /\ IF Late(deferred) THEN SpendLayer("late") ELSE UNCHANGED layerLeft
    /\ Schedules(Reserves(deferred))
    /\ UNCHANGED <<surface, proxy, note, wish, barCalls>>

--------------------------------------------------------------------------------
LayerNext ==
    \/ RunTask \/ WishEdge \/ WishSize \/ WishBehavior \/ Slide
    \/ ReportBar \/ NextCall \/ DeferredDue

LayerSpec == LayerInit /\ [][LayerNext]_layerVars

--------------------------------------------------------------------------------
LayerTypeOK ==
    /\ surface.anchor \in Side /\ surface.zone \in {-1, 0} /\ proxy.zone \in Thickness \cup {0}

LayerQuiet == mainTasks = <<>> /\ barCalls = [todo |-> <<>>, due |-> "no"] /\ deferred = NoTask

\* Where the compositor puts a surface: off what is reserved at its edge, then its margin.
SitsAt(side, margin, avoids) ==
    margin + (IF avoids /\ proxy.made /\ proxy.side = side THEN proxy.zone ELSE 0)

\* However reports, animations, edges, heights and behaviors follow each other, the bar comes
\* to rest in its own strip at the edge the config names, retracted as far as it should be,
\* and the notification window where it belongs.
EverythingSitsRight ==
    LayerQuiet =>
        /\ surface.anchor = wish.side /\ Height = Zone
        /\ SitsAt(wish.side, surface.margin[wish.side], surface.zone = 0) = - wish.offset
        /\ SitsAt(note.side, note.margin, TRUE) = NoteDistance
================================================================================
