----------------------------- MODULE PluginEvents -----------------------------
(***************************************************************************)
(* What a plugin renders on its way to the screen: the event bus with the  *)
(* cache of the last renders (plugins/events.rs), the status tracker       *)
(* (plugins/status.rs), a caller waiting for the outcome of a reload       *)
(* (plugins/await_status.rs), the task that forwards events to the shell   *)
(* (commands/plugin_events.rs), the markers of what the bar and the open   *)
(* flyout were given (plugin_delivery.rs, surfaces/plugin_ui.rs) and the   *)
(* two pages that pull it (shell/src).                                     *)
(*                                                                         *)
(* One plugin: every entry is keyed by its plugin and nothing relates two. *)
(* The broadcast channel keeps the last Cap events; a reader that is       *)
(* further behind is told it lagged and continues with the oldest one      *)
(* kept.  An emit reaches its page in order and exactly once; the answer   *)
(* to a pull travels on its own and may overtake emits.                    *)
(***************************************************************************)
EXTENDS Naturals, Sequences, FiniteSets, SequencesExt

CONSTANTS Tile,        \* tile ids of the plugin
          Target,      \* render targets in play, popups apart
          Html,        \* distinct renders
          None,        \* no render
          Cap,         \* capacity of the event channel (64)
          MaxEvents,   \* bound: events published, per reader followed
          MaxOpens,    \* bound: flyouts opened
          MaxReloads   \* bound: reloads of the bar's page

ASSUME EventsAssumption ==
    /\ Target \subseteq {"tile", "hover", "flyout"}
    /\ None \notin Html
    /\ Cap \in Nat \ {0}
    /\ MaxEvents \in [{"tracker", "watcher", "bar", "flyout"} -> Nat] /\ MaxOpens \in Nat /\ MaxReloads \in Nat

VARIABLES
    scene,      \* the reader followed: none writes what another reads
    joined,     \* the shell has subscribed
    recent,     \* the last Cap events of the channel
    unread,     \* per reader: events it has not received; Cap + 1 is lagged
    ui,         \* the supervisor's cache of the last render per key
    told,       \* the last status published, None once removed
    statuses,   \* what the status tracker has filed
    missed,     \* history: the tracker lagged
    watch,      \* the waiting reload: off, waiting, or its outcome
    shell,      \* the forwarding task: phase, the run, its tail, what is pending
    latest,     \* PluginDelivery: last render per key and who was given it
    opened,     \* overlay_generation: the flyout given its content
    active,     \* the lifecycle's active flyout
    generation, \* the lifecycle's overlay generation
    staged,     \* opens that wait for the native surface
    bar,        \* the bar's page
    overlay,    \* the overlay's page
    overtaken,  \* history: pages an answer reached before an older emit
    spent       \* bound counters

busVars      == <<scene, recent, unread, ui, told>>
readerVars   == <<statuses, missed, watch>>
deliveryVars == <<latest, opened>>
flyoutVars   == <<active, generation, staged>>
pageVars     == <<bar, overlay, overtaken>>
eventsVars   == <<busVars, joined, readerVars, shell, deliveryVars, flyoutVars,
                  pageVars, spent>>

--------------------------------------------------------------------------------
Key       == Tile \X Target
Reader    == {"tracker", "watcher", "shell"}
Scene     == {"tracker", "watcher", "bar", "flyout"}
Final     == {"running", "failed", "deactivated"}
Status    == Final \cup {"starting", "stopped"}
ForBar(k)     == k[2] \in {"tile", "hover"}
ForOverlay(k) == k[2] \in {"hover", "flyout"}

Added(tiles)    == [kind |-> "added", tiles |-> tiles]
Removed         == [kind |-> "removed"]
StatusEvent(s)  == [kind |-> "status", status |-> s]
Render(k, html) == [kind |-> "render", key |-> k, html |-> html]
Popup           == [kind |-> "popup"]
Event == {Added(ts) : ts \in SUBSET Tile} \cup {StatusEvent(s) : s \in Status}
         \cup {Render(k, h) : k \in Key, h \in Html} \cup {Removed, Popup}

\* Events the reader followed acts on; Popup stands for all it passes over.
Relevant(e) == CASE e.kind = "render" -> \/ scene = "bar" /\ ForBar(e.key)
                                         \/ scene = "flyout" /\ ForOverlay(e.key)
                 [] e.kind = "added"  -> scene \in {"bar", "flyout"}
                 [] e.kind = "status" -> scene \in {"tracker", "watcher"}
                 [] OTHER             -> TRUE
Listening(r) == CASE r = "tracker" -> scene = "tracker"
                  [] r = "watcher" -> scene = "watcher" /\ watch = "waiting"
                  [] r = "shell"   -> scene \in {"bar", "flyout"} /\ joined

NoRenders == [k \in Key |-> None]

\* record_ui
Recorded(cache, e) ==
    [k \in Key |-> IF \/ e.kind = "removed"
                      \/ e.kind = "added" /\ k[1] \notin e.tiles
                   THEN None
                   ELSE IF e.kind = "render" /\ k = e.key THEN e.html ELSE cache[k]]

Lagging(r) == unread[r] > Cap
\* The oldest event reader r has not received.
NextFor(r) == recent[Len(recent) - unread[r] + 1]
\* The events kept for reader r: all there are if it lags.
Unread(r)  == IF Lagging(r) THEN recent
              ELSE SubSeq(recent, Len(recent) - unread[r] + 1, Len(recent))

\* Err(Lagged): the reader continues with the oldest event still kept.
CatchUp(r) == unread' = [unread EXCEPT ![r] = Cap]
Consume(r) == unread' = [unread EXCEPT ![r] = @ - 1]

\* PluginEvents::send: cache and channel change under one lock.
Publish(e) ==
    /\ spent.events < MaxEvents[scene] /\ Relevant(e)
    /\ spent' = [spent EXCEPT !.events = @ + 1]
    /\ ui' = Recorded(ui, e)
    /\ recent' = LET all == Append(recent, e)
                 IN  IF Len(all) > Cap THEN Tail(all) ELSE all
    /\ unread' = [r \in Reader |-> IF ~Listening(r) THEN 0
                             ELSE IF Lagging(r) THEN Cap + 1 ELSE unread[r] + 1]
    /\ told' = CASE e.kind = "status"  -> e.status
                 [] e.kind = "removed" -> None
                 [] OTHER              -> told
    /\ UNCHANGED <<scene, joined, readerVars, shell, deliveryVars, flyoutVars, pageVars>>

--------------------------------------------------------------------------------

\* track_events
Track ==
    /\ unread["tracker"] > 0
    /\ IF Lagging("tracker")
       THEN /\ CatchUp("tracker")
            /\ missed' = TRUE
            /\ UNCHANGED statuses
       ELSE LET e == NextFor("tracker")
            IN  /\ Consume("tracker")
                /\ statuses' = CASE e.kind = "status"  -> e.status
                                 [] e.kind = "removed" -> None
                                 [] OTHER              -> statuses
                /\ UNCHANGED missed
    /\ UNCHANGED <<scene, joined, recent, ui, told, watch, shell, deliveryVars, flyoutVars,
                   pageVars, spent>>

\* watch_status: the receiver sees what is sent from here on.
StartWatch ==
    /\ scene = "watcher" /\ watch = "off"
    /\ watch' = "waiting"
    /\ unread' = [unread EXCEPT !["watcher"] = 0]
    /\ UNCHANGED <<scene, joined, recent, ui, told, statuses, missed, shell, deliveryVars,
                   flyoutVars, pageVars, spent>>

\* StatusWatcher::settle, one turn of its loop.
Settle ==
    /\ watch = "waiting" /\ unread["watcher"] > 0
    /\ IF Lagging("watcher")
       THEN CatchUp("watcher") /\ UNCHANGED watch
       ELSE LET e == NextFor("watcher")
            IN  /\ watch' = CASE e.kind = "status" /\ e.status \in Final -> e.status
                              [] e.kind = "removed" -> "stopped"
                              [] OTHER -> watch
                /\ unread' = [unread EXCEPT !["watcher"] =
                                 IF watch' = "waiting" THEN @ - 1 ELSE 0]
    /\ UNCHANGED <<scene, joined, recent, ui, told, statuses, missed, shell, deliveryVars,
                   flyoutVars, pageVars, spent>>

\* settle past its deadline, or with a plugin that plugin_infos says is off: that
\* fallback, settled only when it is Deactivated.
SettleWithFallback ==
    /\ watch = "waiting"
    /\ watch' \in {"deactivated", "unsettled"}
    /\ unread' = [unread EXCEPT !["watcher"] = 0]
    /\ UNCHANGED <<scene, joined, recent, ui, told, statuses, missed, shell, deliveryVars,
                   flyoutVars, pageVars, spent>>

--------------------------------------------------------------------------------
\* PluginDelivery.  A slot is a key's last render and its two markers.
Slot  == [html : Html \cup {None}, barSent : BOOLEAN, overlaySent : BOOLEAN]
Empty == [html |-> None, barSent |-> FALSE, overlaySent |-> FALSE]
Unsent(slot) == [slot EXCEPT !.barSent = FALSE, !.overlaySent = FALSE]
Held(slots)  == {k \in Key : slots[k].html # None}

NoFlyout == [generation |-> 0, tile |-> None]
Flyout   == [generation : Nat, tile : Tile]
Shows(request, k) == request # NoFlyout /\ k[1] = request.tile /\ ForOverlay(k)

\* Mutant: a new render keeps the markers of the one it replaces.
Handled_KeepsMarkers(slots, e) ==
    IF e.kind = "render" THEN [slots EXCEPT ![e.key].html = e.html]
    ELSE IF e.kind = "removed" THEN [k \in Key |-> Empty] ELSE slots

\* Mutant: a plugin that starts anew keeps the renders of tiles it dropped.
Handled_KeepsTiles(slots, e) ==
    CASE e.kind = "render"  -> [slots EXCEPT ![e.key] = [Empty EXCEPT !.html = e.html]]
      [] e.kind = "removed" -> [k \in Key |-> Empty]
      [] OTHER              -> slots

\* handle_many, one event.
Handled(slots, e) ==
    CASE e.kind = "render" /\ slots[e.key].html # e.html ->
            [slots EXCEPT ![e.key] = [Empty EXCEPT !.html = e.html]]
      [] e.kind = "added" ->
            [k \in Key |-> IF k[1] \in e.tiles THEN Unsent(slots[k]) ELSE Empty]
      [] e.kind = "removed" -> [k \in Key |-> Empty]
      [] OTHER -> slots

\* DeliveryState::signal.  A signal equal to the one waiting last changes
\* nothing the page does, so it is not queued twice.
Signalled(queue, wanted, msg) ==
    IF wanted /\ (queue = <<>> \/ Last(queue) # msg) THEN Append(queue, msg) ELSE queue
Signal(slots, queue) ==
    Signalled(queue, \E k \in Held(slots) : ForBar(k) /\ ~slots[k].barSent,
              [kind |-> "signal"])
SignalFlyout(slots, queue) ==
    Signalled(queue,
              /\ active # NoFlyout /\ opened = active.generation
              /\ \E k \in Held(slots) : Shows(active, k) /\ ~slots[k].overlaySent,
              [kind |-> "signal", generation |-> opened])

\* What reaches a page nobody follows is not kept.
ForScene(s, queue) == IF scene = s THEN queue ELSE <<>>

\* deliver_plugin_ui: the events handled and signalled under the lifecycle lock;
\* then forward_plugin_event's emit of a lifecycle event, if there is one.
Deliver(events, emits) ==
    LET slots == FoldLeft(Handled, latest, events)
    IN  /\ latest' = slots
        /\ bar' = [bar EXCEPT !.inbox = ForScene("bar", Signal(slots, @) \o emits)]
        /\ overlay' = [overlay EXCEPT !.inbox = ForScene("flyout", SignalFlyout(slots, @) \o emits)]
        /\ UNCHANGED <<opened, overtaken>>

Emitted(e) == IF e.kind \in {"added", "removed"} THEN <<e>> ELSE <<>>
Persistent(e) == e.kind = "render"
Idle == [phase |-> "idle", run |-> <<>>, todo |-> <<>>, snapshot |-> NoRenders]

--------------------------------------------------------------------------------
\* subscribe_with_ui and reset, as the shell starts: every render is in the
\* snapshot or in what the receiver gets from here on.
ShellJoins ==
    /\ scene \in {"bar", "flyout"} /\ ~joined
    /\ joined' = TRUE
    /\ latest' = [k \in Key |-> [Empty EXCEPT !.html = ui[k]]]
    /\ UNCHANGED <<busVars, readerVars, shell, opened, flyoutVars, pageVars, spent>>

\* spawn_plugin_events: one event, or the start of a run of renders.
ShellReceive ==
    /\ shell.phase = "idle" /\ unread["shell"] > 0
    /\ IF Lagging("shell")
       THEN CatchUp("shell") /\ shell' = [shell EXCEPT !.phase = "lagged"]
       ELSE LET e == NextFor("shell")
            IN  /\ Consume("shell")
                /\ shell' = IF Persistent(e)
                            THEN [shell EXCEPT !.phase = "run", !.run = <<e>>]
                            ELSE [shell EXCEPT !.phase = "tail", !.run = <<e>>]
    /\ UNCHANGED <<scene, joined, recent, ui, told, readerVars, deliveryVars, flyoutVars,
                   pageVars, spent>>

\* collect_run: renders within the batch window travel together; anything else
\* ends the run, which is delivered before it.
ShellCollect ==
    /\ shell.phase = "run" /\ unread["shell"] > 0
    /\ IF ~Lagging("shell") /\ Persistent(NextFor("shell"))
       THEN /\ Consume("shell")
            /\ shell' = [shell EXCEPT !.run = Append(@, NextFor("shell"))]
            /\ UNCHANGED <<deliveryVars, pageVars>>
       ELSE /\ Deliver(shell.run, <<>>)
            /\ IF Lagging("shell")
               THEN CatchUp("shell") /\ shell' = [Idle EXCEPT !.phase = "lagged"]
               ELSE /\ Consume("shell")
                    /\ shell' = [Idle EXCEPT !.phase = "tail", !.run = <<NextFor("shell")>>]
    /\ UNCHANGED <<scene, joined, recent, ui, told, readerVars, flyoutVars, spent>>

\* The batch window elapses.
ShellDeliver ==
    /\ shell.phase = "run"
    /\ Deliver(shell.run, <<>>)
    /\ shell' = Idle
    /\ UNCHANGED <<busVars, joined, readerVars, flyoutVars, spent>>

\* forward_plugin_event
ShellForward ==
    /\ shell.phase = "tail"
    /\ Deliver(shell.run, Emitted(shell.run[1]))
    /\ shell' = Idle
    /\ UNCHANGED <<busVars, joined, readerVars, flyoutVars, spent>>

\* resync_ui: what is left in the channel and the cache, under the lock that
\* publication takes.
ShellResync ==
    /\ shell.phase = "lagged"
    /\ shell' = [shell EXCEPT !.phase = "resync", !.snapshot = ui,
                              !.todo = SelectSeq(Unread("shell"), LAMBDA e : ~Persistent(e))]
    /\ unread' = [unread EXCEPT !["shell"] = 0]
    /\ UNCHANGED <<scene, joined, recent, ui, told, readerVars, deliveryVars, flyoutVars,
                   pageVars, spent>>

ShellForwardPending ==
    /\ shell.phase = "resync" /\ shell.todo # <<>>
    /\ Deliver(<<Head(shell.todo)>>, Emitted(Head(shell.todo)))
    /\ shell' = [shell EXCEPT !.todo = Tail(@)]
    /\ UNCHANGED <<busVars, joined, readerVars, flyoutVars, spent>>

\* DeliveryState::open with content: the slots marked, and the message that
\* carries both targets of the tile.
Content(slots, request) ==
    [k \in Key |-> IF Shows(request, k) THEN slots[k].html ELSE None]
Opened(slots, request) ==
    [k \in Key |-> IF k \in Held(slots)
                   THEN [slots[k] EXCEPT !.overlaySent = Shows(request, k)] ELSE slots[k]]
FlyoutMessage(slots, request) ==
    [kind |-> "flyout", request |-> request, content |-> Content(slots, request)]

\* replay_plugin_ui: reset to the snapshot, signal the bar, open the flyout anew.
ShellReplay ==
    /\ shell.phase = "resync" /\ shell.todo = <<>>
    /\ LET slots == [k \in Key |-> [Empty EXCEPT !.html = shell.snapshot[k]]]
       IN  /\ bar' = [bar EXCEPT !.inbox = ForScene("bar", Signal(slots, @))]
           /\ IF active = NoFlyout
              THEN latest' = slots /\ opened' = 0 /\ UNCHANGED overlay
              ELSE /\ latest' = Opened(slots, active)
                   /\ opened' = active.generation
                   /\ overlay' = [overlay EXCEPT !.inbox =
                                     Append(@, FlyoutMessage(slots, active))]
    /\ shell' = Idle
    /\ UNCHANGED <<busVars, joined, readerVars, flyoutVars, overtaken, spent>>

--------------------------------------------------------------------------------
\* open_flyout, until the native surface is staged.
OpenFlyout(t) ==
    /\ joined /\ scene = "flyout" /\ spent.opens < MaxOpens
    /\ spent' = [spent EXCEPT !.opens = @ + 1]
    /\ generation' = generation + 1
    /\ active' = [generation |-> generation', tile |-> t]
    /\ staged' = staged \cup {active'}
    /\ UNCHANGED <<busVars, joined, readerVars, shell, deliveryVars, pageVars>>

\* deliver_flyout: only the flyout that is still the active one.
DeliverFlyout ==
    \E request \in staged :
        /\ staged' = staged \ {request}
        /\ IF request = active
           THEN /\ latest' = Opened(latest, request)
                /\ opened' = request.generation
                /\ overlay' = [overlay EXCEPT !.inbox =
                                  Append(@, FlyoutMessage(latest, request))]
           ELSE UNCHANGED <<deliveryVars, overlay>>
        /\ UNCHANGED <<busVars, joined, readerVars, shell, active, generation, bar,
                       overtaken, spent>>

\* close_flyout
CloseFlyout ==
    /\ active # NoFlyout
    /\ active' = NoFlyout
    /\ generation' = generation + 1
    /\ overlay' = [overlay EXCEPT !.inbox =
                      Append(@, [kind |-> "closed", generation |-> active.generation])]
    /\ UNCHANGED <<busVars, joined, readerVars, shell, deliveryVars, staged, bar,
                   overtaken, spent>>

--------------------------------------------------------------------------------
\* The pages.  pull is what createPluginUiPull is at: idle, asked (the command
\* is on its way), answered (the answer is), and whether it runs once more.
Pages(inbox, answer) ==
    [inbox : inbox, shown : [Key -> Html \cup {None}],
     pull : {"idle", "asked", "answered", "starting", "started"}, again : BOOLEAN,
     answer : answer]
Asks(page) == IF page.pull = "idle" THEN [page EXCEPT !.pull = "asked"]
              ELSE [page EXCEPT !.again = TRUE]
Answered(page) == [page EXCEPT !.pull  = IF page.again THEN "asked" ELSE "idle",
                               !.again = FALSE, !.answer = NoRenders]
Merged(shown, answer) == [k \in Key |-> IF answer[k] # None THEN answer[k] ELSE shown[k]]

\* An older lifecycle event still waits that will drop some of the answer.
Drops(page) == \E e \in ToSet(page.inbox) : /\ e.kind \in {"added", "removed"}
                                            /\ Recorded(page.answer, e) # page.answer

BarReads ==
    /\ bar.inbox # <<>> /\ bar.pull \notin {"starting", "started"}
    /\ LET e    == Head(bar.inbox)
           rest == [bar EXCEPT !.inbox = Tail(@)]
       IN  bar' = CASE e.kind = "signal"  -> Asks(rest)
                    [] e.kind \in {"added", "removed"} ->
                         [rest EXCEPT !.shown = Recorded(@, e)]
    /\ UNCHANGED <<busVars, joined, readerVars, shell, deliveryVars, flyoutVars, overlay,
                   overtaken, spent>>

\* take_plugin_ui for the bar; get_plugin_ui (bar_snapshot) while it starts.
BarTakes ==
    /\ joined /\ scene = "bar" /\ bar.pull \in {"asked", "starting"}
    /\ LET taken == {k \in Held(latest) : ForBar(k) /\ (bar.pull = "asked" => ~latest[k].barSent)}
       IN  /\ latest' = [k \in Key |-> IF k \in taken
                                       THEN [latest[k] EXCEPT !.barSent = TRUE] ELSE latest[k]]
           /\ bar' = [bar EXCEPT
                        !.pull   = IF bar.pull = "asked" THEN "answered" ELSE "started",
                        !.answer = [k \in Key |-> IF k \in taken THEN latest[k].html ELSE None]]
    /\ UNCHANGED <<busVars, joined, readerVars, shell, opened, flyoutVars, overlay,
                   overtaken, spent>>

BarApplies ==
    /\ bar.pull \in {"answered", "started"}
    /\ bar' = [Answered(bar) EXCEPT !.shown = Merged(@, bar.answer)]
    /\ overtaken' = IF Drops(bar) THEN overtaken \cup {"bar"} ELSE overtaken
    /\ UNCHANGED <<busVars, joined, readerVars, shell, deliveryVars, flyoutVars, overlay,
                   spent>>

\* The page loads anew: it listens first, then asks for the snapshot.
BarReload ==
    /\ joined /\ scene = "bar" /\ spent.reloads < MaxReloads
    /\ spent' = [spent EXCEPT !.reloads = @ + 1]
    /\ bar' = [inbox |-> <<>>, shown |-> NoRenders, pull |-> "starting",
               again |-> FALSE, answer |-> NoRenders]
    /\ UNCHANGED <<busVars, joined, readerVars, shell, deliveryVars, flyoutVars, overlay,
                   overtaken>>

\* The overlay's page.  request.tile = None is the tombstone of a closed flyout.
OverlayReads ==
    /\ overlay.inbox # <<>>
    /\ LET e       == Head(overlay.inbox)
           rest    == [overlay EXCEPT !.inbox = Tail(@)]
           current == overlay.request
       IN  overlay' = CASE e.kind = "signal" ->
                             IF current.tile # None /\ current.generation = e.generation
                             THEN Asks(rest) ELSE rest
                        [] e.kind = "flyout" ->
                             IF \/ e.request.generation < current.generation
                                \/ /\ e.request.generation = current.generation
                                   /\ current.tile # e.request.tile
                             THEN rest
                             ELSE [rest EXCEPT !.request = e.request, !.shown = e.content]
                        [] e.kind \in {"added", "removed"} ->
                             [rest EXCEPT !.shown = Recorded(@, e)]
                        [] e.kind = "closed" ->
                             IF e.generation < current.generation THEN rest
                             ELSE [rest EXCEPT !.shown = NoRenders,
                                     !.request = [generation |-> e.generation, tile |-> None]]
    /\ UNCHANGED <<busVars, joined, readerVars, shell, deliveryVars, flyoutVars, bar,
                   overtaken, spent>>

\* take_plugin_ui for the overlay: the pending renders of the opened flyout.
OverlayTakes ==
    /\ overlay.pull = "asked"
    /\ LET taken == {k \in Held(latest) : /\ active # NoFlyout
                                          /\ opened = active.generation
                                          /\ Shows(active, k) /\ ~latest[k].overlaySent}
       IN  /\ latest' = [k \in Key |-> IF k \in taken
                                       THEN [latest[k] EXCEPT !.overlaySent = TRUE] ELSE latest[k]]
           /\ overlay' = [overlay EXCEPT !.pull = "answered", !.for = opened,
                            !.answer = [k \in Key |-> IF k \in taken THEN latest[k].html ELSE None]]
    /\ UNCHANGED <<busVars, joined, readerVars, shell, opened, flyoutVars, bar,
                   overtaken, spent>>

\* The answer is kept only by the page of the generation it was taken for.
OverlayApplies ==
    /\ overlay.pull = "answered"
    /\ LET kept == overlay.request.tile # None /\ overlay.request.generation = overlay.for
       IN  /\ overlay' = [Answered(overlay) EXCEPT
                            !.for = 0,
                            !.shown = IF kept THEN Merged(@, overlay.answer) ELSE @]
           /\ overtaken' = IF \/ /\ overlay.answer # NoRenders
                                /\ overlay.for > overlay.request.generation
                             \/ Drops(overlay)
                          THEN overtaken \cup {"overlay"} ELSE overtaken
    /\ UNCHANGED <<busVars, joined, readerVars, shell, deliveryVars, flyoutVars, bar, spent>>

--------------------------------------------------------------------------------
EventsInit ==
    /\ scene \in Scene /\ joined = FALSE
    /\ recent = <<>> /\ unread = [r \in Reader |-> 0]
    /\ ui = NoRenders /\ told = None /\ statuses = None /\ missed = FALSE
    /\ watch = "off" /\ shell = Idle
    /\ latest = [k \in Key |-> Empty] /\ opened = 0
    /\ active = NoFlyout /\ generation = 0 /\ staged = {}
    /\ bar = [inbox |-> <<>>, shown |-> NoRenders, pull |-> "starting",
              again |-> FALSE, answer |-> NoRenders]
    /\ overlay = [inbox |-> <<>>, shown |-> NoRenders, pull |-> "idle", again |-> FALSE,
                  answer |-> NoRenders, for |-> 0, request |-> NoFlyout]
    /\ overtaken = {}
    /\ spent = [events |-> 0, opens |-> 0, reloads |-> 0]

ShellStep == \/ ShellJoins \/ ShellReceive \/ ShellCollect \/ ShellDeliver \/ ShellForward
             \/ ShellResync \/ ShellForwardPending \/ ShellReplay
BarStep     == BarReads \/ BarTakes \/ BarApplies
OverlayStep == OverlayReads \/ OverlayTakes \/ OverlayApplies

EventsNext ==
    \/ \E e \in Event : Publish(e)
    \/ Track \/ StartWatch \/ Settle \/ SettleWithFallback
    \/ ShellStep
    \/ (\E t \in Tile : OpenFlyout(t)) \/ DeliverFlyout \/ CloseFlyout
    \/ BarStep \/ BarReload \/ OverlayStep

EventsFairness == /\ WF_eventsVars(Track) /\ WF_eventsVars(ShellStep)
                  /\ WF_eventsVars(BarStep) /\ WF_eventsVars(OverlayStep)

EventsSpec == EventsInit /\ [][EventsNext]_eventsVars /\ EventsFairness

--------------------------------------------------------------------------------
(***************************************************************************)
(* Properties                                                              *)
(***************************************************************************)

Signals  == {[kind |-> "signal"]} \cup [kind : {"signal"}, generation : Nat]
Lifecycles == {Added(ts) : ts \in SUBSET Tile} \cup {Removed}
Flyouts  == [kind : {"flyout"}, request : Flyout, content : [Key -> Html \cup {None}]]
            \cup [kind : {"closed"}, generation : Nat]

\* Every variable keeps its type; a queue never outgrows the events that fill it.
EventsTypeOK ==
    /\ scene \in Scene /\ joined \in BOOLEAN
    /\ recent \in Seq(Event) /\ Len(recent) <= Cap
    /\ unread \in [Reader -> 0..(Cap + 1)]
    /\ ui \in [Key -> Html \cup {None}]
    /\ {told, statuses} \subseteq Status \cup {None} /\ missed \in BOOLEAN
    /\ watch \in Status \cup {"off", "waiting", "unsettled"}
    /\ shell \in [phase : {"idle", "run", "tail", "lagged", "resync"}, run : Seq(Event),
                  todo : Seq(Event), snapshot : [Key -> Html \cup {None}]]
    /\ latest \in [Key -> Slot] /\ opened \in Nat
    /\ active \in Flyout \cup {NoFlyout} /\ generation \in Nat /\ staged \subseteq Flyout
    /\ bar.inbox \in Seq(Signals \cup Lifecycles) /\ bar.shown \in [Key -> Html \cup {None}]
    /\ overlay.inbox \in Seq(Signals \cup Lifecycles \cup Flyouts) /\ overlay.shown \in [Key -> Html \cup {None}]
    /\ overtaken \subseteq {"bar", "overlay"}

\* events.rs, "a snapshot plus receiver must place every render on exactly one
\* side of its boundary": as long as the forwarder is not behind the channel,
\* what delivery holds (or the snapshot that will replace it), with the events
\* on the way applied in order, is what the cache holds.
Picture == IF shell.phase = "resync" THEN shell.snapshot
           ELSE [k \in Key |-> latest[k].html]
OnTheWay == (IF shell.phase = "resync" THEN <<>> ELSE shell.run) \o Unread("shell")
StreamMeetsCache ==
    joined /\ ~Lagging("shell") /\ shell.phase # "lagged" =>
        FoldLeft(Recorded, Picture, OnTheWay) = ui

\* plugin_delivery.rs: a render the cache keeps reaches the bar's page, through
\* batches, lag and reloads of the page, unless an answer overtook an older
\* lifecycle event that then drops it.
BarShows(k) == ~joined \/ ui[k] = None \/ bar.shown[k] = ui[k]
BarCatchesUp ==
    \A k \in Key : ForBar(k) => []<>(BarShows(k) \/ "bar" \in overtaken)

\* bridge.ts:137: "startup cannot lose or overwrite a newer event".
StartupLosesNothing == \A k \in Key : ForBar(k) => []<>BarShows(k)

\* An open flyout whose page has nothing left to read shows every render that
\* delivery holds for its tile, and nothing of another tile, unless an answer
\* overtook the message that opened it.
OverlayQuiet == overlay.inbox = <<>> /\ overlay.pull = "idle"
FlyoutIsCurrent ==
    OverlayQuiet /\ active # NoFlyout /\ opened = active.generation /\ "overlay" \notin overtaken =>
        \A k \in Key : /\ ~Shows(active, k) => overlay.shown[k] = None
                       /\ Shows(active, k) /\ latest[k].html # None =>
                             overlay.shown[k] = latest[k].html

\* status.rs: a tracker that read everything and never lagged has filed the
\* last status published.
StatusIsFiled == scene = "tracker" /\ unread["tracker"] = 0 /\ ~missed => statuses = told
================================================================================
