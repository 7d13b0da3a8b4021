------------------------------ MODULE ClickThrough ------------------------------
(***************************************************************************)
(* Which clicks the bar takes on Windows (smabar/src/platform/windows:     *)
(* hit_test.rs, hit_test/hook.rs, watchdog.rs).                            *)
(*                                                                         *)
(* The window lets clicks through wherever the bar has nothing.  A mouse   *)
(* hook on a thread of its own follows the pointer and asks the thread     *)
(* that owns the window to change its style; the system may drop the hook  *)
(* without a word, so a watchdog on the same thread compares what it saw   *)
(* with the pointer and installs it again.  The system asks the hook       *)
(* before it moves the pointer, and waits for the answer; a hook that lets *)
(* it wait too long is dropped.                                            *)
(***************************************************************************)
EXTENDS Integers

CONSTANTS Spot,         \* places the pointer may be at
          MaxRetry,     \* most polls between two attempts to install the hook
          ClickBudgets  \* bounds: what may happen, per kind of event

ClickEvents == {"move", "key", "shape", "kill", "deny", "stuck", "fail", "poll", "leave"}
ASSUME ClickAssumption == MaxRetry \in Nat \ {0, 1} /\ ClickBudgets \subseteq [ClickEvents -> Nat]

VARIABLES
    pointer,   \* where the pointer is, and the tick of the last input
    mark,      \* HOOK_GENERATION: how many moves the hook reported
    hook,      \* the installed hook, and whether the system still calls it
    shape,     \* InputState.rects: the places that belong to the bar
    routing,   \* the rest of InputState
    through,   \* WS_EX_TRANSPARENT: the window lets clicks through
    hooker,    \* what the hook's thread is doing
    owner,     \* what the window's thread is doing
    dog,       \* Watchdog: previous observation and phase
    silent,    \* history: polls that saw the pointer move and the hook not, since the last attempt
    clickLeft  \* bounds: the events that may still happen

clickVars == <<pointer, mark, hook, shape, routing, through, hooker, owner, dog, silent, clickLeft>>

--------------------------------------------------------------------------------
Idle      == [step |-> "idle"]
NoMark    == -1
NoRequest == [kind |-> "none"]
SpendClick(event) == clickLeft[event] > 0 /\ clickLeft' = [clickLeft EXCEPT ![event] = @ - 1]

Observation == [tick |-> pointer.tick, at |-> pointer.at, mark |-> mark]
Healthy(suspect) == [name |-> "healthy", suspect |-> suspect]

ClickInit ==
    /\ pointer \in [at : Spot, tick : {0}] /\ mark = 0
    /\ hook = [installed |-> TRUE, called |-> TRUE]
    /\ shape = {} /\ through = TRUE
    /\ routing = [attached |-> TRUE, available |-> TRUE, gen |-> 0, pending |-> NoRequest]
    /\ hooker = Idle /\ owner = "idle"
    /\ dog = [previous |-> Observation, phase |-> Healthy(NoMark)]
    /\ silent = 0
    /\ clickLeft \in ClickBudgets

\* Whatever changes the routing makes older requests void.
Renewed(state) == [state EXCEPT !.gen = @ + 1, !.pending = NoRequest]

--------------------------------------------------------------------------------
(* The hook's thread: apply_hook_point, send_owner_request. *)

HookerAt(step) == hooker.step = step
ByHooker == UNCHANGED <<owner, silent>>

MouseMoves(p) ==
    /\ p # pointer.at /\ SpendClick("move")
    /\ IF hook.installed /\ hook.called
       THEN /\ HookerAt("idle")
            /\ hooker' = [step |-> "point", to |-> p, after |-> "pass"] /\ mark' = mark + 1
            /\ UNCHANGED pointer
       ELSE pointer' = [at |-> p, tick |-> pointer.tick + 1] /\ UNCHANGED <<mark, hooker>>
    /\ UNCHANGED <<hook, shape, routing, through, dog>> /\ ByHooker

KeyPressed ==
    /\ SpendClick("key")
    /\ pointer' = [pointer EXCEPT !.tick = @ + 1]
    /\ UNCHANGED <<mark, hook, shape, routing, through, hooker, dog>> /\ ByHooker

GoOn == hooker' = [step |-> hooker.after, to |-> hooker.to]
\* A failed update is logged; it ends an attempt to install the hook again.
Fail == /\ SpendClick("fail")
        /\ hooker' = [step |-> IF hooker.after = "finish" THEN "abandon" ELSE hooker.after, to |-> hooker.to]

\* The style is compared first: only a change is sent.
PointHook ==
    /\ HookerAt("point")
    /\ \/ /\ IF /\ routing.available /\ routing.attached
                /\ through # (hooker.to \notin shape)
             THEN hooker' = [step |-> "send", after |-> hooker.after, to |-> hooker.to,
                             request |-> [kind |-> "point", at |-> hooker.to, gen |-> routing.gen]]
             ELSE GoOn
          /\ UNCHANGED clickLeft
       \/ routing.available /\ routing.attached /\ Fail
    /\ UNCHANGED <<pointer, mark, hook, shape, routing, through, dog>> /\ ByHooker

SendRequest ==
    /\ HookerAt("send")
    /\ IF routing.attached /\ routing.gen = hooker.request.gen
       THEN /\ routing' = [routing EXCEPT !.pending = hooker.request]
            /\ hooker' = [step |-> "sent", after |-> hooker.after, to |-> hooker.to]
       ELSE GoOn /\ UNCHANGED routing
    /\ UNCHANGED <<pointer, mark, hook, shape, through, dog, clickLeft>> /\ ByHooker

\* CallNextHookEx: the system moves the pointer, unless it did not wait for that.
PassOn ==
    /\ hooker.step \in {"pass", "late"}
    /\ pointer' = IF HookerAt("pass") THEN [at |-> hooker.to, tick |-> pointer.tick + 1] ELSE pointer
    /\ hooker' = Idle
    /\ UNCHANGED <<mark, hook, shape, routing, through, dog, clickLeft>> /\ ByHooker

--------------------------------------------------------------------------------
(* The window's thread. *)

Styled(at) == routing.available /\ at \notin shape

\* window_message: while it waits for the hook's thread it takes messages, too.  The style
\* may be refused.
TakeRequest ==
    LET request == routing.pending
        void    == request.kind = "none" \/ ~routing.attached \/ request.gen # routing.gen
    IN /\ HookerAt("sent") /\ owner \in {"idle", "join"}
       /\ routing' = [routing EXCEPT !.pending = NoRequest]
       /\ \/ /\ through' = IF void THEN through ELSE request.kind = "point" /\ Styled(request.at)
             /\ GoOn /\ UNCHANGED clickLeft
          \/ ~void /\ Fail /\ UNCHANGED through
       /\ UNCHANGED <<pointer, mark, hook, shape, owner, dog, silent>>

\* set_rects: a new shape; refresh_cursor: the window is somewhere else.
SetRects ==
    /\ owner = "idle" /\ routing.attached /\ SpendClick("shape")
    /\ shape' \in SUBSET Spot
    /\ routing' = Renewed(routing) /\ owner' = "refresh"
    /\ UNCHANGED <<pointer, mark, hook, through, hooker, dog, silent>>

\* apply_current_cursor: when it fails, hold_fully_interactive.
ApplyCursor ==
    /\ owner = "refresh" /\ owner' = "idle"
    /\ \/ through' = Styled(pointer.at) /\ UNCHANGED clickLeft
       \/ through' \in {FALSE, through} /\ SpendClick("fail")
    /\ UNCHANGED <<pointer, mark, hook, shape, routing, hooker, dog, silent>>

\* uninstall: first the window is detached, then the thread is waited for, then the style
\* is what it was before.
Uninstall ==
    /\ owner = "idle" /\ routing.attached /\ SpendClick("leave")
    /\ routing' = [Renewed(routing) EXCEPT !.attached = FALSE, !.available = FALSE]
    /\ shape' = {} /\ owner' = "join"
    /\ UNCHANGED <<pointer, mark, hook, through, hooker, dog, silent>>

\* hook_thread: WM_QUIT ends its loop.
HookQuits ==
    /\ owner = "join" /\ HookerAt("idle")
    /\ hooker' = [step |-> "gone"] /\ hook' = [installed |-> FALSE, called |-> FALSE]
    /\ UNCHANGED <<pointer, mark, shape, routing, through, owner, dog, silent, clickLeft>>

\* The style stays when the thread cannot be stopped, or the style not be written.
RestoreStyle ==
    /\ owner = "join" /\ owner' = "gone"
    /\ \/ HookerAt("gone") /\ through' = FALSE /\ UNCHANGED clickLeft
       \/ SpendClick("fail") /\ UNCHANGED through
    /\ UNCHANGED <<pointer, mark, hook, shape, routing, hooker, dog, silent>>

--------------------------------------------------------------------------------
(* The watchdog. *)

InCallback ==
    \/ HookerAt("pass")
    \/ hooker.step \in {"point", "send", "sent"} /\ hooker.after = "pass"

\* Antivirus software, or a hook that took too long: the system stops calling it, and
\* waits no longer for the answer.
HookLost ==
    /\ hook.installed /\ hook.called /\ SpendClick("kill")
    /\ hook' = [hook EXCEPT !.called = FALSE]
    /\ IF InCallback
       THEN /\ pointer' = [at |-> hooker.to, tick |-> pointer.tick + 1]
            /\ hooker' = IF HookerAt("pass") THEN [step |-> "late"] ELSE [hooker EXCEPT !.after = "late"]
       ELSE UNCHANGED <<pointer, hooker>>
    /\ UNCHANGED <<mark, shape, routing, through, dog>> /\ ByHooker

Missed == /\ pointer.tick # dog.previous.tick /\ pointer.at # dog.previous.at
          /\ mark = dog.previous.mark
Attempting(ticks) == [name |-> "attempting", retry |-> ticks]

\* MUTANT: a move renews the suspicion instead of confirming it.
ObserveHealthy_Renewing(phase) ==
    IF ~Missed /\ phase.suspect = mark THEN Attempting(2)
    ELSE Healthy(IF Missed THEN mark ELSE NoMark)
\* observe_healthy: a move the hook did not report is a suspicion, and a loss if the hook
\* is as silent at the next poll.
ObserveHealthy(phase) ==
    IF phase.suspect = mark THEN Attempting(2) ELSE Healthy(IF Missed THEN mark ELSE NoMark)

ObserveLost(phase) ==
    LET missed == phase.missed \/ Missed
        retries == phase.installed = NoMark \/ missed
    IN IF phase.installed # NoMark /\ phase.installed # mark THEN Healthy(NoMark)
       ELSE IF retries /\ phase.retry <= 1 THEN Attempting(phase.next)
       ELSE [phase EXCEPT !.missed = missed, !.retry = IF retries THEN @ - 1 ELSE @]

Poll ==
    LET phase == dog.phase
        next  == IF phase.name = "healthy" THEN ObserveHealthy(phase)
                 ELSE IF phase.name = "lost" THEN ObserveLost(phase) ELSE phase
        reinstall == next.name = "attempting" /\ phase.name # "attempting"
    IN /\ HookerAt("idle") /\ SpendClick("poll")
       /\ dog' = [previous |-> Observation, phase |-> next]
       /\ hooker' = IF reinstall THEN [step |-> "lost"] ELSE Idle
       /\ silent' = IF reinstall \/ mark # dog.previous.mark THEN 0
                    ELSE IF Missed THEN silent + 1 ELSE silent
       /\ UNCHANGED <<pointer, mark, hook, shape, routing, through, owner>>

\* mark_hook_lost: the whole window takes clicks until there is a hook again.
Disown(after) ==
    /\ routing' = [Renewed(routing) EXCEPT !.available = FALSE]
    /\ hooker' = [step |-> "send", after |-> after, to |-> pointer.at,
                  request |-> [kind |-> "interactive", gen |-> routing.gen + 1]]

MarkLost ==
    /\ HookerAt("lost")
    /\ IF routing.attached THEN Disown("release") ELSE hooker' = Idle /\ UNCHANGED routing
    /\ UNCHANGED <<pointer, mark, hook, shape, through, dog, clickLeft>> /\ ByHooker

Doubled(ticks) == IF 2 * ticks > MaxRetry THEN MaxRetry ELSE 2 * ticks
FinishAttempt(installed) ==
    LET ticks == dog.phase.retry
    IN dog' = [dog EXCEPT !.phase = [name |-> "lost", installed |-> IF installed THEN dog.previous.mark ELSE NoMark,
                                     missed |-> ~installed, retry |-> ticks, next |-> Doubled(ticks)]]

NoHook == [installed |-> FALSE, called |-> FALSE]

\* release_hook and install_hook: either may be refused.
ReinstallHook ==
    /\ HookerAt("release")
    /\ \/ /\ ~routing.attached
          /\ hooker' = Idle /\ UNCHANGED <<hook, dog, clickLeft>>
       \/ /\ routing.attached /\ SpendClick("stuck")
          /\ FinishAttempt(FALSE) /\ hooker' = Idle /\ UNCHANGED hook
       \/ /\ routing.attached /\ SpendClick("deny")
          /\ hook' = NoHook
          /\ FinishAttempt(FALSE) /\ hooker' = Idle
       \/ /\ routing.attached
          /\ hook' = [installed |-> TRUE, called |-> TRUE]
          /\ hooker' = [step |-> "restore"] /\ UNCHANGED <<dog, clickLeft>>
    /\ UNCHANGED <<pointer, mark, shape, routing, through>> /\ ByHooker

\* mark_hook_reinstalled: the pointer may be out of reach.
MarkReinstalled ==
    /\ HookerAt("restore")
    /\ IF routing.attached
       THEN /\ routing' = [Renewed(routing) EXCEPT !.available = TRUE]
            /\ \/ /\ hooker' = [step |-> "point", to |-> pointer.at, after |-> "finish"]
                  /\ UNCHANGED clickLeft
               \/ SpendClick("fail") /\ hooker' = [step |-> "abandon"]
            /\ UNCHANGED hook
       ELSE hook' = NoHook /\ hooker' = Idle /\ UNCHANGED <<routing, clickLeft>>
    /\ UNCHANGED <<pointer, mark, shape, through, dog>> /\ ByHooker

FinishReinstall ==
    /\ HookerAt("finish")
    /\ IF routing.attached THEN FinishAttempt(TRUE) /\ UNCHANGED hook
       ELSE hook' = NoHook /\ UNCHANGED dog
    /\ hooker' = Idle
    /\ UNCHANGED <<pointer, mark, shape, routing, through, clickLeft>> /\ ByHooker

\* Failing to route by the new hook loses it at once.
AbandonHook ==
    /\ HookerAt("abandon")
    /\ IF routing.attached THEN Disown("drop") ELSE hooker' = [step |-> "drop"] /\ UNCHANGED routing
    /\ UNCHANGED <<pointer, mark, hook, shape, through, dog, clickLeft>> /\ ByHooker

DropHook ==
    /\ HookerAt("drop")
    /\ hook' = NoHook \/ UNCHANGED hook
    /\ FinishAttempt(FALSE) /\ hooker' = Idle
    /\ UNCHANGED <<pointer, mark, shape, routing, through, clickLeft>> /\ ByHooker

--------------------------------------------------------------------------------
ClickNext ==
    \/ \E p \in Spot : MouseMoves(p)
    \/ KeyPressed \/ PointHook \/ SendRequest \/ PassOn
    \/ TakeRequest \/ SetRects \/ ApplyCursor \/ Uninstall \/ HookQuits \/ RestoreStyle
    \/ HookLost \/ Poll \/ MarkLost \/ ReinstallHook \/ MarkReinstalled \/ FinishReinstall
    \/ AbandonHook \/ DropHook

ClickSpec == ClickInit /\ [][ClickNext]_clickVars

--------------------------------------------------------------------------------
ClickTypeOK ==
    /\ pointer \in [at : Spot, tick : Nat] /\ mark \in Nat /\ silent \in Nat
    /\ hook \in [installed : BOOLEAN, called : BOOLEAN] /\ shape \subseteq Spot /\ through \in BOOLEAN
    /\ owner \in {"idle", "refresh", "join", "gone"}
    /\ dog.phase.name \in {"healthy", "attempting", "lost"}

Quiet == hooker.step \in {"idle", "gone"} /\ owner \in {"idle", "gone"}

\* The window lets clicks through only as long as there is a hook that can take that back:
\* not while the hook could not be installed, and not once the window was released, however
\* moves, new shapes, lost hooks and the release overlap, as long as Windows takes the style
\* (hit_test.rs:169, 326).
ClickThroughNeedsHook ==
    (Quiet /\ through) => routing.attached /\ routing.available /\ hook.installed

\* As long as the window is attached, a hook that the system no longer calls is replaced by
\* the second poll after a move it missed, and after an attempt that did not help within the
\* longest pause (watchdog.rs:68-141).
LossIsNoticed ==
    routing.attached => silent <= (IF dog.phase.name = "healthy" THEN 1 ELSE MaxRetry)

\* While the hook is not called the whole bar takes clicks (hook.rs:372: "smabar falls back
\* to a fully interactive bar whenever the hook is unavailable").  It does not: a hook that
\* was installed again counts as available before it has reported anything.
DeadHookIsInteractive == (Quiet /\ ~hook.called /\ silent >= 2) => ~through

\* At rest the style fits the place of the pointer.  A new shape that overlaps a move is
\* applied to the place before it, and voids the request for the place after it.
RoutingIsCurrent ==
    (Quiet /\ routing.attached /\ routing.available /\ hook.called)
        => through = (pointer.at \notin shape)
================================================================================
