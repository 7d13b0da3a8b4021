--------------------------------- MODULE MCDesk ---------------------------------
(***************************************************************************)
(* Bounds of the model checking run of eight modules that share no state:  *)
(* the click-through window and the reserved strip on Windows, the strips  *)
(* on macOS and under a layer shell, what the store offers, the outcome of *)
(* a reload, pictures of the settings window, and the shell of the app.    *)
(* One run explores each of them on its own: moves says which one moves,   *)
(* and the others stay in an initial state.                                *)
(***************************************************************************)
EXTENDS ClickThrough, AppBar, StoreShelf, ReloadReport, SettingsCapture, AppShell, MacReservation,
        LayerShellBar

CONSTANT DeskMovers   \* which of them the run explores
ASSUME DeskMoverAssumption ==
    DeskMovers \subseteq {"clicks", "appbar", "shelf", "reload", "settings", "shell", "mac", "layer"}

VARIABLE moves

--------------------------------------------------------------------------------
\* Moves, new shapes, lost and refused hooks, and the end; a style that is refused.
KB(move, key, newshape, kill, deny, stuck, poll, leave, fail) ==
    [move |-> move, key |-> key, shape |-> newshape, kill |-> kill, deny |-> deny, stuck |-> stuck,
     poll |-> poll, leave |-> leave, fail |-> fail]
Faultless  == {KB(2,0,2,1,1,0,4,1,0), KB(5,0,0,1,0,0,5,0,0), KB(3,1,1,2,1,1,5,0,0)}
ClickMixes == Faultless \cup {KB(2,0,1,1,0,0,3,1,2)}
\* The hook is lost again whenever it was installed again.
LostAgain   == {KB(7,0,0,3,0,0,8,0,0)}

\* Requests that overlap other AppBars, pushes, other scales and restarts of Explorer.
AB(dock, die, others, push, dpi, close) ==
    [dock |-> dock, die |-> die, neighbour |-> others, push |-> push, dpi |-> dpi, close |-> close]
AppBarMixes == {AB(3,0,2,1,1,1), AB(3,1,1,1,0,1), AB(3,2,0,0,0,0)}
ExplorerRestarts == {AB(1,1,0,0,0,0)}

\* Publications, blocks, installs, imports, removals, and what the user does by hand.
SB(publish, block, inst, zip, rem, drop, edit, link, toggle, fail, load) ==
    [publish |-> publish, block |-> block, install |-> inst, zip |-> zip, remove |-> rem,
     drop |-> drop, edit |-> edit, link |-> link, toggle |-> toggle, fail |-> fail, load |-> load]
ShelfMixes ==
    {SB(1,1,1,0,1,0,0,0,0,1,1), SB(1,0,1,1,0,1,1,0,0,0,1), SB(0,2,1,0,0,0,0,0,1,0,1),
     SB(0,2,2,0,1,0,0,0,0,0,2), SB(0,0,1,1,1,0,0,1,0,1,1),
     SB(0,2,1,0,1,0,0,0,1,1,1), SB(1,1,1,1,0,1,0,0,0,0,1)}
\* A fixed version of a blocked plugin; a commit that moves; a linked folder.
UpdatesBlocked == {SB(1,1,2,0,0,0,0,0,0,0,2)}
CommitMoves    == {SB(1,0,1,0,0,0,0,0,0,0,1)}
LinksFolder    == {SB(0,0,0,0,0,0,0,1,0,0,1)}
ImportsBlocked == {SB(0,1,1,1,0,0,0,0,0,0,1)}

\* A write or two reloads around entries of the log, crashes, renders and a deactivation; a
\* log that is moved aside; input that is ignored before and after a reload.
RB(write, reload, logged, ignore, render, crash, toggle, timeout) ==
    [write |-> write, reload |-> reload, entry |-> logged, ignore |-> ignore, render |-> render,
     crash |-> crash, toggle |-> toggle, timeout |-> timeout]
ReloadMixes == {RB(1,0,1,0,1,1,0,1), RB(1,0,1,0,0,0,1,1), RB(0,2,1,0,1,0,1,1), RB(0,0,4,0,0,0,0,0),
                RB(1,0,0,1,0,1,0,1), RB(0,1,0,2,0,0,0,1)}
TwoWrites   == {RB(2,0,0,0,0,0,0,1)}
LongLog     == {RB(0,0,8,0,0,0,0,0)}
ManyLines   == {RB(0,1,2,0,0,0,0,1)}

\* Opening and closing around a picture that fails, is late or is asked for again.
XB(open, toggle, close, request, fail, deaf, timeout) ==
    [open |-> open, toggle |-> toggle, close |-> close, request |-> request, fail |-> fail,
     deaf |-> deaf, timeout |-> timeout]
SettingsMixes == {XB(1,0,1,1,0,0,1), XB(0,1,1,1,0,1,0), XB(1,0,0,2,1,0,0), XB(0,0,0,2,0,1,2)}
Racing == {XB(2,0,1,1,0,0,0)}

\* The login entry under clicks, answers, edits, failures and restarts; the ways out.
HB(read, set, toggle, tick, external, fail, crash, start, quit, update, publish, report, late) ==
    [read |-> read, set |-> set, toggle |-> toggle, tick |-> tick, external |-> external,
     fail |-> fail, crash |-> crash, start |-> start, quit |-> quit, update |-> update,
     publish |-> publish, report |-> report, late |-> late]
ShellMixes ==
    {HB(1,1,1,0,1,1,0,1,0,0,0,0,0), HB(2,1,0,1,0,0,0,1,0,0,0,0,0), HB(0,0,1,0,1,1,1,2,0,0,0,0,0),
     HB(1,0,0,0,0,1,0,2,1,1,1,2,1)}

\* Two or three areas in turn; moves between corrections; a busy app; a lost permission.
MB(reserve, moved, hide, revoke, busy, refuse, scan) ==
    [reserve |-> reserve, move |-> moved, hide |-> hide, revoke |-> revoke, busy |-> busy,
     refuse |-> refuse, scan |-> scan]
MacMixes == {MB(3,1,0,0,0,0,0), MB(2,2,0,0,0,0,1), MB(2,1,1,0,1,0,0), MB(2,0,1,1,0,1,0)}
\* Changes of edge, height and behavior, slides, and a reservation for an edge left meanwhile.
LB(edge, size, behavior, slide, late) ==
    [edge |-> edge, size |-> size, behavior |-> behavior, slide |-> slide, late |-> late]
LayerMixes == {LB(2,1,0,0,0), LB(1,0,1,1,0), LB(0,1,2,1,0)}
LateEdge   == {LB(1,1,0,0,1)}
UserFrames == {[y |-> 0, h |-> 4], [y |-> 0, h |-> 2], [y |-> 2, h |-> 2]}

--------------------------------------------------------------------------------
Parked(bounds, value, name) == moves # name => value = CHOOSE b \in bounds : TRUE

DeskInit ==
    /\ moves \in DeskMovers
    /\ ClickInit /\ Parked(ClickBudgets, clickLeft, "clicks")
    /\ moves # "clicks" => pointer.at = CHOOSE p \in Spot : TRUE
    /\ AppBarInit /\ Parked(AppBarBudgets, appBarLeft, "appbar")
    /\ ShelfInit /\ Parked(ShelfBudgets, shelfLeft, "shelf")
    /\ ReloadInit /\ Parked(ReloadBudgets, reloadLeft, "reload")
    /\ SettingsInit /\ Parked(SettingsBudgets, settingsLeft, "settings")
    /\ ShellInit /\ Parked(ShellBudgets, shellLeft, "shell")
    /\ (moves # "shell" \/ shellLeft.quit = 0) => system = CHOOSE s \in System : TRUE
    /\ MacInit /\ Parked(MacBudgets, macLeft, "mac")
    /\ moves # "mac" => \A w \in MacWindow :
           windows[w].style = "prompt" /\ windows[w].frame = CHOOSE f \in Placed : TRUE
    /\ LayerInit /\ Parked(LayerBudgets, layerLeft, "layer")
    /\ moves # "layer" => wish.size = CHOOSE size \in Thickness : TRUE
    /\ moves # "reload" => watched = TRUE
    /\ moves # "shelf" => ~bundled /\ server.items["theme"].content = CHOOSE c \in Content : TRUE

deskVars == <<moves, clickVars, appBarVars, shelfVars, reloadVars, settingsVars, shellVars,
              macVars, layerVars>>

DeskNext ==
    /\ UNCHANGED moves
    /\ \/ moves = "clicks" /\ ClickNext
          /\ UNCHANGED <<appBarVars, shelfVars, reloadVars, settingsVars,
                         shellVars, macVars, layerVars>>
       \/ moves = "appbar" /\ AppBarNext
          /\ UNCHANGED <<clickVars, shelfVars, reloadVars, settingsVars,
                         shellVars, macVars, layerVars>>
       \/ moves = "shelf" /\ ShelfNext
          /\ UNCHANGED <<clickVars, appBarVars, reloadVars, settingsVars,
                         shellVars, macVars, layerVars>>
       \/ moves = "reload" /\ ReloadNext
          /\ UNCHANGED <<clickVars, appBarVars, shelfVars, settingsVars,
                         shellVars, macVars, layerVars>>
       \/ moves = "settings" /\ SettingsNext
          /\ UNCHANGED <<clickVars, appBarVars, shelfVars, reloadVars,
                         shellVars, macVars, layerVars>>
       \/ moves = "shell" /\ ShellNext
          /\ UNCHANGED <<clickVars, appBarVars, shelfVars, reloadVars,
                         settingsVars, macVars, layerVars>>
       \/ moves = "mac" /\ MacNext
          /\ UNCHANGED <<clickVars, appBarVars, shelfVars, reloadVars,
                         settingsVars, shellVars, layerVars>>
       \/ moves = "layer" /\ LayerNext
          /\ UNCHANGED <<clickVars, appBarVars, shelfVars, reloadVars,
                         settingsVars, shellVars, macVars>>

DeskSpec ==
    DeskInit /\ [][DeskNext]_deskVars

\* Types of the modules.
DeskTypeOK == ClickTypeOK /\ AppBarTypeOK /\ ShelfTypeOK /\ ReloadTypeOK /\ SettingsTypeOK /\ ShellTypeOK /\ MacTypeOK /\ LayerTypeOK
================================================================================
