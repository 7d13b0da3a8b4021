----------------------------- MODULE Notifications -----------------------------
(***************************************************************************)
(* Popups of plugins (desktop.rs) and the window that shows them           *)
(* (surfaces/notifications.rs, mod.rs; the page is NotificationSurface.tsx *)
(* with managedPopups.ts).                                                 *)
(*                                                                         *)
(* One task of the host accepts and dismisses managed popups and sweeps    *)
(* them; the page pulls the records whenever it hears that they changed,   *)
(* reports what becomes of them, measures itself, and closes its window    *)
(* when it shows nothing.  Popups of the older protocol are sent to the    *)
(* page directly, or held until a page is ready.                           *)
(***************************************************************************)
EXTENDS Naturals, Sequences, FiniteSets

CONSTANTS Session,     \* plugin sessions
          PopupKey,    \* names a plugin gives its popups
          Legacy,      \* popups of the older protocol
          MaxPopups,   \* MAX_POPUPS
          PopupBudgets \* bounds: what may happen, per kind of event

PopupEvents == {"shows", "dismisses", "stops", "toggles", "ends", "olds"}
ASSUME PopupAssumption ==
    MaxPopups \in Nat \ {0} /\ PopupBudgets \subseteq [PopupEvents -> Nat]

VARIABLES
    service,    \* DesktopServices: the records (in the order of their ids), the last
                \* instance, the sessions that stopped; whether popups are enabled
    host,       \* the host's task: its step, and the instances whose end it tells
    legacy,     \* where each popup of the older protocol is
    native,     \* the window: exists, ready, measure, mapped, opaque, paint generation
    toast,      \* the page: listens, what it shows, its refresh
    calls,      \* commands of the page that are under way
    popupLog,   \* history: how often the end of an instance was told to its plugin
    popupLeft   \* bounds: the events that may still happen

popupVars == <<service, host, legacy, native, toast, calls, popupLog, popupLeft>>

--------------------------------------------------------------------------------
Idle    == [step |-> "idle", told |-> {}]
NoPage  == [listens |-> FALSE, items |-> {}, had |-> FALSE, dirty |-> FALSE,
            refresh |-> "idle", snap |-> {}, measures |-> <<>>]
Spend(event) == popupLeft[event] > 0 /\ popupLeft' = [popupLeft EXCEPT ![event] = @ - 1]

Ids(records)  == {r.id : r \in records}
Of(s, k)      == {r \in service.records : r.session = s /\ r.key = k}
Stopped(r)    == r.session \in service.stopped
LiveRecords   == {[id |-> r.id, version |-> r.version] :
                     r \in {r \in service.records : ~Stopped(r)}}
\* What ended is off the records; the plugins are to be told.
Announces(ended) == host' = [step |-> "announce", told |-> Ids(ended)]

\* The page hears that the records changed.
Hears(t) == IF t.listens THEN [t EXCEPT !.dirty = TRUE] ELSE t
\* A window is there for the popup that is about to be accepted.
Ensured == [native EXCEPT !.exists = TRUE]
\* stage_transient_update
Staged(n) == [n EXCEPT !.paint = @ + 1, !.opaque = FALSE]
\* The page's content changed: it measures itself; its measures arrive in order.
Rendered(t, full) == [t EXCEPT !.measures = Append(@, full), !.had = @ \/ full]
Call(step, id)    == [step |-> step, id |-> id, token |-> 0]
OldShown(old)     == \E l \in Legacy : old[l] = "shown"
Content           == toast.items # {} \/ OldShown(legacy)

--------------------------------------------------------------------------------
\* show, up to the records: a request whose session stopped was skipped.
ShowPopup(s, k) ==
    /\ host.step = "idle" /\ s \notin service.stopped /\ Spend("shows")
    /\ service.enabled  \* otherwise the plugin is told "suppressed"
    /\ native' = Ensured
    /\ host' = [step |-> "record", told |-> {}, session |-> s, key |-> k]
    /\ UNCHANGED <<service, legacy, toast, calls, popupLog>>

\* At the limit the first record that was not shown makes room, or the first one.
First(records) == CHOOSE r \in records : \A other \in records : r.id <= other.id
Overflow(records) ==
    LET unseen == {r \in records : ~r.shown}
    IN  IF Cardinality(records) < MaxPopups THEN {}
        ELSE {First(IF unseen # {} THEN unseen ELSE records)}

\* Mutant: the popup that makes room is forgotten.
RecordPopup_Silent ==
    /\ host.step = "record"
    /\ service' = [service EXCEPT !.next = @ + 1,
           !.records = (@ \ Overflow(@)) \cup {[id |-> service.next + 1, session |-> host.session,
                                               key |-> host.key, version |-> 1, shown |-> FALSE]}]
    /\ Announces({})
    /\ UNCHANGED <<legacy, native, toast, calls, popupLog, popupLeft>>

\* A popup of the same name is changed in place.
RecordPopup ==
    /\ host.step = "record"
    /\ LET same == Of(host.session, host.key)
           out  == Overflow(service.records)
           new  == [id |-> service.next + 1, session |-> host.session, key |-> host.key,
                    version |-> 1, shown |-> FALSE]
       IN  \/ /\ same # {}
              /\ service' = [service EXCEPT
                     !.records = (@ \ same) \cup {[r EXCEPT !.version = 3 - @] : r \in same}]
              /\ Announces({})
           \/ /\ same = {}
              /\ service' = [service EXCEPT !.next = @ + 1, !.records = (@ \ out) \cup {new}]
              /\ Announces(out)
    /\ UNCHANGED <<legacy, native, toast, calls, popupLog, popupLeft>>

\* What leaves the records is told of.
Removes(ended) == service' = [service EXCEPT !.records = @ \ ended] /\ Announces(ended)
\* ui.popup.dismiss
DismissPopup(s, k) ==
    /\ host.step = "idle" /\ s \notin service.stopped /\ Spend("dismisses")
    /\ Of(s, k) # {} /\ Removes(Of(s, k))
    /\ UNCHANGED <<legacy, native, toast, calls, popupLog>>

\* cleanup, every 100 ms
Cleanup ==
    /\ host.step = "idle"
    /\ LET gone == {r \in service.records : ~service.enabled \/ Stopped(r)}
       IN  gone # {} /\ Removes(gone)
    /\ UNCHANGED <<legacy, native, toast, calls, popupLog, popupLeft>>

\* The plugins are told what ended, one after the other, and then the page.
TellEnd ==
    /\ host.step = "announce"
    /\ \E id \in host.told :
        /\ \A other \in host.told : id <= other
        /\ popupLog' = [popupLog EXCEPT ![id] = @ + 1]
        /\ host' = [host EXCEPT !.told = @ \ {id}]
    /\ UNCHANGED <<service, legacy, native, toast, calls, popupLeft>>
Announce ==
    /\ host.step = "announce" /\ host.told = {}
    /\ toast' = Hears(toast)
    /\ host' = Idle
    /\ UNCHANGED <<service, legacy, native, calls, popupLog, popupLeft>>

StopSession(s) ==
    /\ s \notin service.stopped /\ Spend("stops")
    /\ service' = [service EXCEPT !.stopped = @ \cup {s}]
    /\ UNCHANGED <<host, legacy, native, toast, calls, popupLog>>
\* Switched off, the page empties its stack; they are not switched on again before
\* the next sweep, 100 ms later.
TogglePopups ==
    /\ Spend("toggles")
    /\ service.enabled \/ service.records = {}
    /\ service' = [service EXCEPT !.enabled = ~@]
    /\ IF service.enabled /\ Content
       THEN /\ toast' = Rendered([toast EXCEPT !.items = {}], FALSE)
            /\ legacy' = [l \in Legacy |-> IF legacy[l] = "shown" THEN "gone" ELSE legacy[l]]
       ELSE UNCHANGED <<toast, legacy>>
    /\ UNCHANGED <<host, native, calls, popupLog>>

--------------------------------------------------------------------------------
\* enqueue_popup: what the older protocol sends is delivered or held by what the
\* flag said before the window was ensured.
EnqueueLegacy(l) ==
    /\ legacy[l] = "new" /\ Spend("olds")
    /\ legacy' = [legacy EXCEPT ![l] = IF native.ready THEN "sending" ELSE "holding"]
    /\ native' = Ensured
    /\ UNCHANGED <<service, host, toast, calls, popupLog>>
SendLegacy(l) ==
    /\ legacy[l] = "sending"
    /\ IF toast.listens
       THEN /\ legacy' = [legacy EXCEPT ![l] = IF service.enabled THEN "shown" ELSE "gone"]
            /\ native' = Staged(native)
            /\ toast' = Rendered(toast, toast.items # {} \/ OldShown(legacy'))
       ELSE /\ legacy' = [legacy EXCEPT ![l] = "lost"]
            /\ UNCHANGED <<native, toast>>
    /\ UNCHANGED <<service, host, calls, popupLog, popupLeft>>
HoldLegacy(l) ==
    /\ legacy[l] = "holding"
    /\ legacy' = [legacy EXCEPT ![l] = "pending"]
    /\ UNCHANGED <<service, host, native, toast, calls, popupLog, popupLeft>>

\* mark_ready, after the page's listeners: it is given what was held.
ReadyNotifications ==
    /\ toast.listens /\ ~native.ready
    /\ native' = [native EXCEPT !.ready = TRUE]
    /\ LET held == {l \in Legacy : legacy[l] = "pending"}
       IN  /\ legacy' = [l \in Legacy |-> IF l \in held THEN "shown" ELSE legacy[l]]
           /\ toast' = IF held = {} THEN toast ELSE Rendered(toast, TRUE)
    /\ UNCHANGED <<service, host, calls, popupLog, popupLeft>>
--------------------------------------------------------------------------------
\* A page mounts and measures itself; initManagedPopups listens, then refreshes.
PageStarts ==
    /\ native.exists /\ ~toast.listens
    /\ toast' = Rendered([NoPage EXCEPT !.listens = TRUE, !.dirty = TRUE], FALSE)
    /\ UNCHANGED <<service, host, legacy, native, calls, popupLog, popupLeft>>

Fetch ==
    /\ toast.refresh = "idle" /\ toast.dirty
    /\ toast' = [toast EXCEPT !.refresh = "asked", !.dirty = FALSE]
    /\ UNCHANGED <<service, host, legacy, native, calls, popupLog, popupLeft>>
\* get_managed_popups
Answer ==
    /\ toast.refresh = "asked"
    /\ toast' = [toast EXCEPT !.refresh = "answered", !.snap = LiveRecords]
    /\ UNCHANGED <<service, host, legacy, native, calls, popupLog, popupLeft>>
\* applySnapshot: an answer that was overtaken, or changes nothing, is dropped;
\* otherwise the window is concealed first.
Compare ==
    /\ toast.refresh = "answered"
    /\ IF toast.dirty \/ toast.snap = toast.items
       THEN /\ toast' = [toast EXCEPT !.refresh = "idle"] /\ UNCHANGED native
       ELSE /\ toast' = [toast EXCEPT !.refresh = "staged"] /\ native' = Staged(native)
    /\ UNCHANGED <<service, host, legacy, calls, popupLog, popupLeft>>
ApplySnapshot ==
    /\ toast.refresh = "staged"
    /\ LET items == IF service.enabled THEN toast.snap ELSE {}
           next  == [toast EXCEPT !.refresh = "idle", !.items = items]
       IN  toast' = IF items = {} /\ toast.items = {} THEN next
                    ELSE Rendered(next, items # {} \/ OldShown(legacy))
    /\ UNCHANGED <<service, host, legacy, native, calls, popupLog, popupLeft>>

\* A popup expires or its X is clicked: conceal, report, and then remove it.
EndItem(item) ==
    /\ item \in toast.items /\ Call("end", item.id) \notin calls /\ Spend("ends")
    /\ native' = Staged(native)
    /\ calls' = calls \cup {Call("end", item.id)}
    /\ UNCHANGED <<service, host, legacy, toast, popupLog>>
EndLegacy(l) ==
    /\ legacy[l] = "shown"
    /\ legacy' = [legacy EXCEPT ![l] = "gone"]
    /\ native' = Staged(native)
    /\ toast' = Rendered(toast, toast.items # {} \/ OldShown(legacy'))
    /\ UNCHANGED <<service, host, calls, popupLog, popupLeft>>

\* popup_event_report
ReportEnd(c) ==
    /\ c.step = "end"
    /\ LET ended == {r \in service.records : r.id = c.id}
           items == {item \in toast.items : item.id # c.id}
           heard == IF ended = {} THEN toast ELSE Hears(toast)
       IN  /\ IF ended = {} THEN UNCHANGED <<service, popupLog>>
              ELSE /\ service' = [service EXCEPT !.records = @ \ ended]
                   /\ popupLog' = [popupLog EXCEPT ![c.id] = @ + 1]
           /\ toast' = IF items = toast.items THEN heard
                       ELSE Rendered([heard EXCEPT !.items = items], items # {} \/ OldShown(legacy))
    /\ calls' = calls \ {c}
    /\ UNCHANGED <<host, legacy, native, popupLeft>>
ReportShown(c) ==
    /\ c.step = "shown"
    /\ service' = [service EXCEPT !.records =
           {IF r.id = c.id /\ ~Stopped(r) THEN [r EXCEPT !.shown = TRUE] ELSE r : r \in @}]
    /\ calls' = calls \ {c}
    /\ UNCHANGED <<host, legacy, native, toast, popupLog, popupLeft>>

--------------------------------------------------------------------------------
\* set_notification_measure
SetMeasure ==
    /\ toast.measures # <<>>
    /\ native' = [native EXCEPT !.measure = IF Head(toast.measures) THEN "full" ELSE "empty"]
    /\ toast' = [toast EXCEPT !.measures = Tail(@)]
    /\ calls' = calls \cup {Call("reposition", 0)}
    /\ UNCHANGED <<service, host, legacy, popupLog, popupLeft>>
\* reposition_notifications reads the newest measure: nothing to show hides the
\* window, anything else is staged and placed.
Reposition(c) ==
    /\ c.step = "reposition"
    /\ LET places == native.exists /\ native.measure = "full"
       IN  /\ native' = IF places THEN Staged(native)
                        ELSE IF native.measure = "empty" THEN [native EXCEPT !.mapped = FALSE]
                        ELSE native
           /\ calls' = (calls \ {c}) \cup IF places THEN {[c EXCEPT !.step = "token"]} ELSE {}
    /\ UNCHANGED <<service, host, legacy, toast, popupLog, popupLeft>>
\* The token is captured after the own stage; then place_surface.
TokenAfterStage(c) ==
    /\ c.step = "token"
    /\ calls' = (calls \ {c}) \cup {[c EXCEPT !.step = "present", !.token = native.paint]}
    /\ UNCHANGED <<service, host, legacy, native, toast, popupLog, popupLeft>>
\* The page is told the placement and reports what it shows; present_transient.
PresentNotifications(c) ==
    /\ c.step = "present"
    /\ native' = [native EXCEPT !.mapped = TRUE]
    /\ calls' = (calls \ {c}) \cup {[c EXCEPT !.step = "reveal"]}
           \cup {Call("shown", item.id) : item \in toast.items}
    /\ UNCHANGED <<service, host, legacy, toast, popupLog, popupLeft>>
RevealNotifications(c) ==
    /\ c.step = "reveal"
    /\ native' = IF c.token = native.paint THEN [native EXCEPT !.opaque = TRUE] ELSE native
    /\ calls' = calls \ {c}
    /\ UNCHANGED <<service, host, legacy, toast, popupLog, popupLeft>>

\* The page shows nothing any more: close_surface, in its two parts.
CloseSurface ==
    /\ toast.listens /\ toast.had /\ ~Content
    /\ \A c \in calls : c.step \notin {"close", "destroy"}
    /\ calls' = calls \cup {Call("close", 0)}
    /\ toast' = [toast EXCEPT !.had = FALSE]
    /\ UNCHANGED <<service, host, legacy, native, popupLog, popupLeft>>
CloseForgets(c) ==
    /\ c.step = "close"
    /\ native' = [native EXCEPT !.ready = FALSE, !.measure = "none"]
    /\ legacy' = [l \in Legacy |-> IF legacy[l] = "pending" THEN "lost" ELSE legacy[l]]
    /\ calls' = (calls \ {c}) \cup {[c EXCEPT !.step = "destroy"]}
    /\ UNCHANGED <<service, host, toast, popupLog, popupLeft>>
\* The window goes, and what the page and its placements were doing with it;
\* window_destroyed.
CloseDestroys(c) ==
    /\ c.step = "destroy"
    /\ native' = [native EXCEPT !.exists = FALSE, !.ready = FALSE, !.measure = "none",
                                !.mapped = FALSE, !.opaque = FALSE]
    /\ toast' = NoPage
    /\ legacy' = [l \in Legacy |-> IF legacy[l] = "shown" THEN "lost" ELSE legacy[l]]
    /\ calls' = {d \in calls : d.step \in {"end", "shown"}}
    /\ UNCHANGED <<service, host, popupLog, popupLeft>>

--------------------------------------------------------------------------------
PopupInit ==
    /\ service = [records |-> {}, next |-> 0, stopped |-> {}, enabled |-> TRUE]
    /\ host = Idle
    /\ legacy = [l \in Legacy |-> "new"]
    /\ native = [exists |-> FALSE, ready |-> FALSE, measure |-> "none", mapped |-> FALSE,
                 opaque |-> FALSE, paint |-> 0]
    /\ toast = NoPage /\ calls = {}
    /\ popupLeft \in PopupBudgets
    /\ popupLog = [i \in 1..popupLeft["shows"] |-> 0]

PopupNext ==
    \/ \E s \in Session, k \in PopupKey : ShowPopup(s, k) \/ DismissPopup(s, k)
    \/ \E s \in Session : StopSession(s)
    \/ RecordPopup \/ Cleanup \/ TellEnd \/ Announce \/ TogglePopups
    \/ \E l \in Legacy : \/ EnqueueLegacy(l) \/ SendLegacy(l) \/ HoldLegacy(l) \/ EndLegacy(l)
    \/ ReadyNotifications \/ PageStarts \/ Fetch \/ Answer \/ Compare \/ ApplySnapshot
    \/ CloseSurface \/ SetMeasure
    \/ \E item \in toast.items : EndItem(item)
    \/ \E c \in calls :
           \/ ReportEnd(c) \/ ReportShown(c) \/ Reposition(c)
           \/ TokenAfterStage(c) \/ PresentNotifications(c) \/ RevealNotifications(c)
           \/ CloseForgets(c) \/ CloseDestroys(c)

PopupSpec == PopupInit /\ [][PopupNext]_popupVars

--------------------------------------------------------------------------------
(***************************************************************************)
(* Properties                                                              *)
(***************************************************************************)

PopupTypeOK ==
    /\ Cardinality(service.records) <= MaxPopups
    /\ \A s \in Session, k \in PopupKey : Cardinality(Of(s, k)) <= 1
    /\ native.opaque => native.exists
    /\ toast.listens => native.exists

\* desktop.rs, cleanup, show and popup_event_report: a popup that was accepted is
\* on record, or its plugin was told once how it ended, or is about to be.
EndsAreTold ==
    \A i \in 1..service.next :
        LET count(S) == IF i \in S THEN 1 ELSE 0
        IN  count(Ids(service.records)) + count(host.told) + popupLog[i] = 1

PopupQuiet ==
    /\ host.step = "idle" /\ ~\E r \in service.records : Stopped(r)
    /\ calls = {} /\ toast.measures = <<>> /\ toast.refresh = "idle" /\ ~toast.dirty
    /\ toast.had => Content

\* managedPopups.ts:24, "Snapshot reconciliation makes startup, missed events and
\* upserts recoverable": a page that came to rest shows the records there are, in
\* a window that is opaque exactly when there is something in it.
PageShowsRecords ==
    PopupQuiet /\ toast.listens /\ service.enabled =>
        /\ toast.items = LiveRecords
        /\ (native.mapped /\ native.opaque) <=> Content

\* desktop.rs:171, "Build the native surface before accepting": a popup that was
\* accepted has a window that shows it, or will.
AcceptedHasWindow ==
    PopupQuiet /\ service.enabled /\ LiveRecords # {} => native.exists

\* notifications.rs: what is held until a page is ready is not held any more once
\* one is.
NothingHeldBack == native.ready => \A l \in Legacy : legacy[l] # "pending"
================================================================================
