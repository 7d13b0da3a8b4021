------------------------------- MODULE Shortcuts -------------------------------
(***************************************************************************)
(* Pinned shortcuts (shortcuts/, commands/shortcuts.rs), the download of   *)
(* website icons (smabar/src/icons.rs) and the page that shows the pins    *)
(* (bridge.ts, ShortcutZone.tsx).                                          *)
(*                                                                         *)
(* Pins change under the lock of the settings.  Every change reaches a     *)
(* loop that notifies the page and starts a download of the icons that are *)
(* missing; downloads overlap.  The page asks for the pins whenever it is  *)
(* notified, and writes the whole list back when the user reorders it.     *)
(***************************************************************************)
EXTENDS Naturals, Sequences, FiniteSets, SequencesExt

CONSTANTS Pin,        \* what can be pinned; an id stands for its source
          Website,    \* the pins among them that are websites
          Installed,  \* and those that are applications found on this system
          Fetcher,    \* downloads that may run at the same time
          PinBudgets  \* bounds: what may happen, per kind of event

PinEvents == {"pin", "unpin", "reorder", "reject", "missing"}
ASSUME PinAssumption == Website \cup Installed \subseteq Pin /\ PinBudgets \subseteq [PinEvents -> Nat]

VARIABLES
    pins,      \* config.shortcuts.pinned
    changed,   \* changes broadcast to the config loop: the new pins
    notices,   \* shortcuts-changed events on their way to the page
    icons,     \* cached icon files
    part,      \* their temporary files
    fetchers,  \* the downloads: pins left, the step at the first, whether one was cached
    dock,      \* the page: pins and icons it shows, generation of its last request; history:
               \* a rejected write took back more than itself
    asked,     \* requests of the page under way, with the answer once it was computed
    reorders,  \* lists the page writes back; last: the page has shown nothing else since
    pinLeft    \* bounds: the events that may still happen

pinVars == <<pins, changed, notices, icons, part, fetchers, dock, asked, reorders, pinLeft>>

--------------------------------------------------------------------------------
NoFetch  == [todo |-> <<>>, step |-> "idle", got |-> FALSE]
NoAnswer == [pins |-> <<>>, icons |-> {}]
SpendPin(event) == pinLeft[event] > 0 /\ pinLeft' = [pinLeft EXCEPT ![event] = @ - 1]

\* cached_icon: what the file holds, however it got there
Cached   == {w \in Website : icons[w] # "none"}
Resolved == [pins |-> pins, icons |-> {<<w, icons[w]>> : w \in Cached \cap ToSet(pins)}]

Sites(shown) == {i[1] : i \in shown}

PinInit ==
    /\ pins \in {<<>>} \cup {<<p>> : p \in Pin} \cup {<<p, q>> : p \in Pin \ Website, q \in Website}
    /\ changed = <<>> /\ notices = 0
    /\ icons = [w \in Website |-> IF w \in ToSet(pins) THEN "full" ELSE "none"]
    /\ part = [w \in Website |-> "none"]
    /\ fetchers = [f \in Fetcher |-> NoFetch]
    /\ dock = [pins |-> pins, icons |-> Resolved.icons, gen |-> 0, rolledBack |-> FALSE]
    /\ asked = {} /\ reorders = {}
    /\ pinLeft \in PinBudgets

--------------------------------------------------------------------------------
(* The settings. *)

SetPins(list) == /\ pins' = list
                 /\ changed' = IF list = pins THEN changed ELSE Append(changed, list)

\* What can be pinned now; a pin whose application was removed since stays in the list.
ValidEntry(p) == p \in Website \cup Installed
\* apply_pin, shortcut_add: a source is pinned once; the index is cut to the list.
PinShortcut(p, index) ==
    /\ SpendPin("pin")
    /\ ValidEntry(p) /\ p \notin ToSet(pins)
    /\ SetPins(InsertAt(pins, IF index > Len(pins) THEN Len(pins) + 1 ELSE index + 1, p))
    /\ UNCHANGED <<notices, icons, part, fetchers, dock, asked, reorders>>

Unpin(p) ==
    /\ SpendPin("unpin")
    /\ p \in ToSet(pins)
    /\ SetPins(SelectSeq(pins, LAMBDA q : q # p))
    /\ UNCHANGED <<notices, icons, part, fetchers, dock, asked, reorders>>

\* The loop notifies the page and starts a download of what the new pins need.
Websites(list) == SelectSeq(list, LAMBDA p : p \in Website)
LoopTells(f) ==
    LET missing == SelectSeq(Websites(Head(changed)), LAMBDA w : w \notin Cached)
    IN /\ changed # <<>> /\ fetchers[f] = NoFetch
       /\ changed' = Tail(changed) /\ notices' = notices + 1
       /\ fetchers' = [fetchers EXCEPT ![f] = [todo |-> missing, got |-> FALSE,
                          step |-> IF missing = <<>> THEN "idle" ELSE "download"]]
       /\ UNCHANGED <<pins, icons, part, dock, asked, reorders, pinLeft>>

--------------------------------------------------------------------------------
(* fetch_missing and write_atomically. *)

Working(f, step) == fetchers[f].step = step
First(f)         == Head(fetchers[f].todo)
\* On to the next pin, or the end.
Advanced(fetch, cached) ==
    [todo |-> Tail(fetch.todo), got |-> fetch.got \/ cached,
     step |-> IF Len(fetch.todo) = 1 THEN "emit" ELSE "download"]

\* No candidate of the site is an image.
NoIcon(f) ==
    /\ Working(f, "download") /\ SpendPin("missing")
    /\ fetchers' = [fetchers EXCEPT ![f] = Advanced(@, FALSE)]
    /\ UNCHANGED <<pins, changed, notices, icons, part, dock, asked, reorders>>

\* fs::write truncates the temporary file and then fills it.
Truncate(f) ==
    /\ Working(f, "download")
    /\ part' = [part EXCEPT ![First(f)] = "partial"]
    /\ fetchers' = [fetchers EXCEPT ![f].step = "fill"]
    /\ UNCHANGED <<pins, changed, notices, icons, dock, asked, reorders, pinLeft>>

\* A file that was renamed meanwhile is filled under its new name.
Fill(f) ==
    /\ Working(f, "fill")
    /\ IF part[First(f)] # "none" THEN part' = [part EXCEPT ![First(f)] = "full"] /\ UNCHANGED icons
       ELSE icons' = [icons EXCEPT ![First(f)] = "full"] /\ UNCHANGED part
    /\ fetchers' = [fetchers EXCEPT ![f].step = "rename"]
    /\ UNCHANGED <<pins, changed, notices, dock, asked, reorders, pinLeft>>

Rename(f) ==
    LET w == First(f)
    IN /\ Working(f, "rename")
       /\ icons' = [icons EXCEPT ![w] = IF part[w] = "none" THEN @ ELSE part[w]]
       /\ part' = [part EXCEPT ![w] = "none"]
       /\ fetchers' = [fetchers EXCEPT ![f] = Advanced(@, part[w] # "none")]
       /\ UNCHANGED <<pins, changed, notices, dock, asked, reorders, pinLeft>>

EmitIcons(f) ==
    /\ Working(f, "emit")
    /\ notices' = notices + (IF fetchers[f].got THEN 1 ELSE 0)
    /\ fetchers' = [fetchers EXCEPT ![f] = NoFetch]
    /\ UNCHANGED <<pins, changed, icons, part, dock, asked, reorders, pinLeft>>

--------------------------------------------------------------------------------
(* The page. *)

Hear ==
    /\ notices > 0 /\ notices' = notices - 1
    /\ dock' = [dock EXCEPT !.gen = @ + 1]
    /\ asked' = asked \cup {[gen |-> dock.gen + 1, done |-> FALSE, answer |-> NoAnswer]}
    /\ UNCHANGED <<pins, changed, icons, part, fetchers, reorders, pinLeft>>

\* get_shortcuts runs off the main thread; requests overlap.
GetShortcuts(r) ==
    /\ ~r.done
    /\ asked' = (asked \ {r}) \cup {[r EXCEPT !.done = TRUE, !.answer = Resolved]}
    /\ UNCHANGED <<pins, changed, notices, icons, part, fetchers, dock, reorders, pinLeft>>

Superseded(writes) == {[w EXCEPT !.last = FALSE] : w \in writes}
Show(answer) ==
    /\ dock' = [dock EXCEPT !.pins = answer.pins, !.icons = answer.icons, !.rolledBack = FALSE]
    /\ reorders' = Superseded(reorders)

\* MUTANT: an answer is shown whatever was asked since.
Deliver_Any(r) ==
    /\ r.done
    /\ asked' = asked \ {r}
    /\ Show(r.answer)
    /\ UNCHANGED <<pins, changed, notices, icons, part, fetchers, pinLeft>>

Deliver(r) ==
    /\ r.done
    /\ asked' = asked \ {r}
    /\ IF r.gen = dock.gen THEN Show(r.answer) ELSE UNCHANGED <<dock, reorders>>
    /\ UNCHANGED <<pins, changed, notices, icons, part, fetchers, pinLeft>>

\* persistOrder: the page shows the new order at once and sends the whole list.
Reorder(from, to) ==
    LET list == InsertAt(RemoveAt(dock.pins, from), to, dock.pins[from])
    IN /\ SpendPin("reorder") /\ list # dock.pins
       /\ dock' = [dock EXCEPT !.pins = list]
       /\ reorders' = Superseded(reorders) \cup {[list |-> list, previous |-> dock, last |-> TRUE]}
       /\ UNCHANGED <<pins, changed, notices, icons, part, fetchers, asked>>

\* update_config takes the list as it is.
UpdateConfig(w) ==
    /\ SetPins(w.list)
    /\ reorders' = reorders \ {w}
    /\ UNCHANGED <<notices, icons, part, fetchers, dock, asked, pinLeft>>

\* The write is rejected: the page shows what it showed before, whatever it was given since.
Rejected(w) ==
    /\ SpendPin("reject")
    /\ reorders' = Superseded(reorders \ {w})
    /\ dock' = [dock EXCEPT !.pins = w.previous.pins, !.icons = w.previous.icons,
                            !.rolledBack = @ \/ ~w.last]
    /\ UNCHANGED <<pins, changed, notices, icons, part, fetchers, asked>>

--------------------------------------------------------------------------------
PinNext ==
    \/ \E p \in Pin : Unpin(p) \/ \E index \in 0 .. Len(pins) : PinShortcut(p, index)
    \/ \E f \in Fetcher : LoopTells(f) \/ NoIcon(f) \/ Truncate(f) \/ Fill(f) \/ Rename(f)
                            \/ EmitIcons(f)
    \/ Hear
    \/ \E r \in asked : GetShortcuts(r) \/ Deliver(r)
    \/ \E from, to \in DOMAIN dock.pins : Reorder(from, to)
    \/ \E w \in reorders : UpdateConfig(w) \/ Rejected(w)

PinSpec == PinInit /\ [][PinNext]_pinVars

--------------------------------------------------------------------------------
(* Properties. *)

PinTypeOK ==
    /\ pins \in Seq(Pin) /\ dock.pins \in Seq(Pin)
    /\ icons \in [Website -> {"none", "partial", "full"}] /\ part \in [Website -> {"none", "partial", "full"}]
    /\ \A f \in Fetcher : fetchers[f].step \in {"idle", "download", "fill", "rename", "emit"}

PinsSettled ==
    /\ changed = <<>> /\ notices = 0 /\ asked = {} /\ reorders = {}
    /\ \A f \in Fetcher : fetchers[f] = NoFetch

\* When nothing is under way, the page shows the pins that are set, in their order, with
\* an icon wherever one is cached, however notices, answers, downloads and reorders
\* overlapped (bridge.ts:199; icons.rs:42), unless a rejected reorder took back more than itself.
PageShowsPins ==
    PinsSettled /\ ~dock.rolledBack => dock.pins = pins /\ Sites(dock.icons) = Sites(Resolved.icons)

\* A reorder that is rejected leaves the page as the settings are (ShortcutZone.tsx:33).  It does
\* not: it restores the list of before the drag over the answer that came since.
RejectionRestores == PinsSettled => dock.pins = pins

\* A cached icon is a whole file (icons.rs:225).  It is not: two downloads of one site
\* share the temporary file.
IconsAreWhole == \A w \in Website : icons[w] # "partial"

\* A reorder changes the order and nothing else: what was pinned or unpinned meanwhile
\* stays so (config/watcher.rs:213).  It does not hold: the page sends the list it knew.
ReorderKeepsPins ==
    [][\A w \in reorders : w \notin reorders' /\ pins' # pins => ToSet(pins') = ToSet(pins)]_pinVars
================================================================================
