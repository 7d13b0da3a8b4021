------------------------------ MODULE Desk_proofs ------------------------------
(* What smabar agrees with the desktop and its agents: the strip, the mouse hook, the login entry, pictures, offers and reloads. *)
EXTENDS ClickThrough, AppBar, AppShell, SettingsCapture, StoreShelf, ReloadReport, LayerShellBar,
        MacReservation, SequenceTheorems, FiniteSetTheorems, WellFoundedInduction, TLAPS

--------------------------------------------------------------------------------
(****************************************************************************)
(* ClickThrough.  The owner of the window learns of a lost hook: misses      *)
(* are counted until it is reinstalled or the loss is reported.              *)
(****************************************************************************)

Asked == [kind : {"none"}] \cup [kind : {"point"}, at : Spot, gen : Nat]
           \cup [kind : {"interactive"}, gen : Nat]
After == {"pass", "late", "release", "finish", "drop"}
HookerSteps ==
    [step : {"idle", "gone", "lost", "restore", "late", "abandon", "drop"}]
    \cup [step : After, to : Spot] \cup [step : {"abandon"}, to : Spot]
    \cup [step : {"point", "sent"}, to : Spot, after : After]
    \cup [step : {"send"}, to : Spot, after : After, request : Asked]
Phases ==
    [name : {"healthy"}, suspect : Nat \cup {NoMark}]
    \cup [name : {"attempting"}, retry : 1 .. MaxRetry]
    \cup [name : {"lost"}, installed : Nat \cup {NoMark}, missed : BOOLEAN,
          retry : 1 .. MaxRetry, next : 1 .. MaxRetry]

ClickTypes ==
    /\ pointer \in [at : Spot, tick : Nat] /\ mark \in Nat /\ silent \in Nat
    /\ hook \in [installed : BOOLEAN, called : BOOLEAN] /\ shape \subseteq Spot
    /\ through \in BOOLEAN /\ owner \in {"idle", "refresh", "join", "gone"}
    /\ routing \in [attached : BOOLEAN, available : BOOLEAN, gen : Nat, pending : Asked]
    /\ hooker \in HookerSteps
    /\ dog \in [previous : [tick : Nat, at : Spot, mark : Nat], phase : Phases]

\* The hook's thread is on its way through an attempt to install the hook.
Installing ==
    \/ hooker.step \in {"lost", "release", "restore", "finish", "abandon", "drop"}
    \/ hooker.step \in {"point", "sent", "send"} /\ hooker.after \in {"release", "finish", "drop"}

\* Only an attempt is such a way, and as long as the window is attached an attempt is
\* never left before it is finished.
AttemptsEnd ==
    /\ Installing => dog.phase.name = "attempting"
    /\ routing.attached /\ dog.phase.name = "attempting" => Installing /\ silent = 0

\* What was missed since the last attempt: at most the move that is suspected, or one for
\* each poll that was waited.
MissesAreCounted ==
    routing.attached =>
        /\ dog.phase.name = "healthy" =>
               silent = 0 \/ (silent = 1 /\ dog.phase.suspect = dog.previous.mark)
        /\ dog.phase.name = "lost" => silent + dog.phase.retry <= MaxRetry
\* A hook that was installed again has reported nothing since.
NothingReported ==
    dog.phase.name = "lost" /\ dog.phase.installed # NoMark
        => dog.previous.mark = dog.phase.installed

ClickInv == ClickTypes /\ AttemptsEnd /\ MissesAreCounted /\ NothingReported

LEMMA ClickInvInit == ClickInit => ClickInv
  BY ClickAssumption, SMT DEF ClickInit, ClickInv, ClickTypes, AttemptsEnd, MissesAreCounted, NothingReported,
     Installing, HookerSteps, Phases, Asked, Idle, NoRequest, Observation, Healthy, NoMark

\* A step that leaves the phase, the count and whether the window is attached alone.
LEMMA HookerKeeps ==
  ASSUME ClickInv, ClickTypes', UNCHANGED <<silent>>, dog'.phase = dog.phase, dog'.previous = dog.previous,
         routing'.attached = routing.attached \/ ~routing'.attached,
         Installing' => Installing,
         routing'.attached => (Installing' <=> Installing)
  PROVE  ClickInv'
  BY DEF ClickInv, AttemptsEnd, MissesAreCounted, NothingReported, Installing

Routings == [attached : BOOLEAN, available : BOOLEAN, gen : Nat, pending : Asked]
Hooks == [installed : BOOLEAN, called : BOOLEAN]
LEMMA RenewedRouting ==
  ASSUME NEW r \in Routings
  PROVE  /\ Renewed(r) \in Routings /\ Renewed(r).attached = r.attached
         /\ \A b \in BOOLEAN : /\ [Renewed(r) EXCEPT !.available = b] \in Routings
                            /\ [Renewed(r) EXCEPT !.available = b].attached = r.attached
<1>1. NoRequest \in Asked
  BY DEF Asked, NoRequest
<1>2. Renewed(r) \in Routings /\ Renewed(r).attached = r.attached
  <2>1. r.gen + 1 \in Nat
    BY DEF Routings
  <2>2. ASSUME NEW g \in Nat, NEW q \in Asked
        PROVE  /\ [r EXCEPT !.gen = g, !.pending = q] \in Routings
               /\ [r EXCEPT !.gen = g, !.pending = q].attached = r.attached
    BY DEF Routings
  <2> QED
    BY <1>1, <2>1, <2>2 DEF Renewed
<1>3. ASSUME NEW b \in BOOLEAN
      PROVE  /\ [Renewed(r) EXCEPT !.available = b] \in Routings
             /\ [Renewed(r) EXCEPT !.available = b].attached = r.attached
  BY <1>2 DEF Routings
<1> QED
  BY <1>2, <1>3

LEMMA IdleHooker == Idle \in HookerSteps /\ NoHook \in Hooks
  BY DEF Idle, HookerSteps, NoHook, Hooks

\* The steps of the hook's thread that route a move.
LEMMA MoveKeeps == ASSUME ClickInv, NEW p \in Spot, MouseMoves(p) PROVE ClickInv'
<1>1. ClickTypes'
  BY DEF ClickInv, ClickTypes, MouseMoves, ByHooker, HookerAt, HookerSteps, After
<1> QED
  BY <1>1, HookerKeeps DEF MouseMoves, ByHooker, HookerAt, Installing

LEMMA KeyKeeps == ASSUME ClickInv, KeyPressed PROVE ClickInv'
<1>1. ClickTypes'
  BY DEF ClickInv, ClickTypes, KeyPressed, ByHooker
<1> QED
  BY <1>1, HookerKeeps DEF KeyPressed, ByHooker, Installing

LEMMA PointKeeps == ASSUME ClickInv, PointHook PROVE ClickInv'
<1>0. hooker \in [step : {"point", "sent"}, to : Spot, after : After]
  BY DEF ClickInv, ClickTypes, PointHook, HookerAt, HookerSteps, After
<1>1. hooker' \in HookerSteps /\ (Installing' <=> Installing)
  BY <1>0 DEF ClickInv, ClickTypes, PointHook, HookerAt, HookerSteps, After, GoOn, Fail, Installing, Asked
<1>2. ClickTypes'
  BY <1>1 DEF ClickInv, ClickTypes, PointHook, ByHooker
<1> QED
  BY <1>1, <1>2, HookerKeeps DEF PointHook, ByHooker

LEMMA SendKeeps == ASSUME ClickInv, SendRequest PROVE ClickInv'
<1>0. hooker \in [step : {"send"}, to : Spot, after : After, request : Asked]
  BY DEF ClickInv, ClickTypes, SendRequest, HookerAt, HookerSteps, After
<1>1. hooker' \in HookerSteps /\ (Installing' <=> Installing)
  BY <1>0 DEF SendRequest, HookerAt, HookerSteps, After, GoOn, Installing
<1>2. ClickTypes' /\ routing'.attached = routing.attached
  BY <1>0, <1>1 DEF ClickInv, ClickTypes, SendRequest, ByHooker
<1> QED
  BY <1>1, <1>2, HookerKeeps DEF SendRequest, ByHooker

LEMMA PassKeeps == ASSUME ClickInv, PassOn PROVE ClickInv'
<1>1. ClickTypes'
  BY DEF ClickInv, ClickTypes, PassOn, ByHooker, HookerAt, HookerSteps, After, Idle
<1> QED
  BY <1>1, HookerKeeps DEF PassOn, ByHooker, HookerAt, Installing, Idle

LEMMA TakeKeeps == ASSUME ClickInv, TakeRequest PROVE ClickInv'
<1>0. hooker \in [step : {"point", "sent"}, to : Spot, after : After]
  BY DEF ClickInv, ClickTypes, TakeRequest, HookerAt, HookerSteps, After
<1>1. hooker' \in HookerSteps /\ (Installing' <=> Installing)
  BY <1>0 DEF TakeRequest, HookerAt, HookerSteps, After, GoOn, Fail, Installing
<1>2. through' \in BOOLEAN
  BY DEF ClickInv, ClickTypes, TakeRequest, Styled
<1>3. ClickTypes' /\ routing'.attached = routing.attached
  BY <1>1, <1>2 DEF ClickInv, ClickTypes, TakeRequest, Asked, NoRequest
<1> QED
  BY <1>1, <1>3, HookerKeeps DEF TakeRequest

\* The steps of the window's thread.
LEMMA OwnerKeeps ==
  ASSUME ClickInv, SetRects \/ ApplyCursor \/ Uninstall \/ HookQuits \/ RestoreStyle
  PROVE  ClickInv'
<1>1. hooker' \in HookerSteps /\ (Installing' <=> Installing) /\ UNCHANGED <<silent, dog, mark>>
  <2>1. CASE HookQuits
    BY <2>1 DEF HookQuits, HookerAt, HookerSteps, Installing
  <2>2. CASE UNCHANGED <<hooker, silent, dog, mark>>
    BY <2>2 DEF ClickInv, ClickTypes, Installing
  <2> QED
    BY <2>1, <2>2 DEF SetRects, ApplyCursor, Uninstall, RestoreStyle
<1>2. routing' \in Routings /\ (routing'.attached = routing.attached \/ ~routing'.attached)
  <2>0. routing \in Routings
    BY DEF Routings, ClickInv, ClickTypes
  <2>1. CASE SetRects
    BY <2>0, <2>1, RenewedRouting DEF SetRects
  <2>2. CASE Uninstall
    <3>1. Renewed(routing) \in Routings
      BY <2>0, RenewedRouting
    <3> QED
      BY <2>2, <3>1 DEF Uninstall, Routings
  <2>3. CASE UNCHANGED routing
    BY <2>0, <2>3
  <2> QED
    BY <2>1, <2>2, <2>3 DEF ApplyCursor, HookQuits, RestoreStyle
<1>4. through' \in BOOLEAN /\ shape' \subseteq Spot /\ pointer' = pointer
  BY DEF ClickInv, ClickTypes, SetRects, ApplyCursor, Uninstall, HookQuits, RestoreStyle, Styled
<1>5. hook' \in Hooks /\ owner' \in {"idle", "refresh", "join", "gone"}
  BY IdleHooker DEF NoHook, ClickInv, ClickTypes, SetRects, ApplyCursor, Uninstall, HookQuits, RestoreStyle, Hooks
<1>3. ClickTypes'
  BY <1>1, <1>2, <1>4, <1>5 DEF ClickInv, ClickTypes, Routings, Hooks
<1> QED
  BY <1>1, <1>2, <1>3, HookerKeeps

\* The watchdog and its attempts.
LEMMA LostHookKeeps == ASSUME ClickInv, HookLost PROVE ClickInv'
<1>1. hooker' \in HookerSteps /\ (Installing' <=> Installing) /\ pointer' \in [at : Spot, tick : Nat]
  <2>1. CASE InCallback /\ HookerAt("pass")
    BY <2>1 DEF ClickInv, ClickTypes, HookLost, HookerAt, HookerSteps, After, Installing
  <2>2. CASE InCallback /\ hooker.step \in {"point", "sent"}
    <3>1. hooker \in [step : {"point", "sent"}, to : Spot, after : After]
      BY <2>2 DEF ClickInv, ClickTypes, HookerSteps, After
    <3> QED
      BY <2>2, <3>1 DEF ClickInv, ClickTypes, HookLost, InCallback, HookerAt, HookerSteps, After, Installing
  <2>3. CASE InCallback /\ hooker.step = "send"
    <3>1. hooker \in [step : {"send"}, to : Spot, after : After, request : Asked]
      BY <2>3 DEF ClickInv, ClickTypes, HookerSteps, After
    <3> QED
      BY <2>3, <3>1 DEF ClickInv, ClickTypes, HookLost, InCallback, HookerAt, HookerSteps, After, Installing
  <2>4. CASE ~InCallback
    BY <2>4 DEF ClickInv, ClickTypes, HookLost, Installing
  <2> QED
    BY <2>1, <2>2, <2>3, <2>4 DEF InCallback, HookerAt
<1>2. ClickTypes'
  BY <1>1 DEF ClickInv, ClickTypes, HookLost, ByHooker
<1> QED
  BY <1>1, <1>2, HookerKeeps DEF HookLost, ByHooker

LEMMA PollKeeps == ASSUME ClickInv, Poll PROVE ClickInv'
<1> DEFINE phase == dog.phase
           next  == IF phase.name = "healthy" THEN ObserveHealthy(phase)
                    ELSE IF phase.name = "lost" THEN ObserveLost(phase) ELSE phase
           reinstall == next.name = "attempting" /\ phase.name # "attempting"
<1>1. dog'.previous = Observation /\ dog'.phase = next
      /\ hooker' = (IF reinstall THEN [step |-> "lost"] ELSE Idle)
      /\ silent' = IF reinstall \/ mark # dog.previous.mark THEN 0
                   ELSE IF Missed THEN silent + 1 ELSE silent
  BY DEF Poll
<1>2. Observation \in [tick : Nat, at : Spot, mark : Nat] /\ Observation.mark = mark
  BY DEF ClickInv, ClickTypes, Observation
<1>3. ~Installing
  BY DEF Poll, HookerAt, Installing
<1>4. CASE phase.name = "healthy"
  <2>1. phase \in [name : {"healthy"}, suspect : Nat \cup {NoMark}]
    BY <1>4 DEF ClickInv, ClickTypes, Phases
  <2>2. next = ObserveHealthy(phase)
    BY <1>4
  <2>3. next \in Phases /\ next.name \in {"healthy", "attempting"}
        /\ (next.name = "attempting" <=> phase.suspect = mark)
        /\ (next.name = "healthy" => next.suspect = IF Missed THEN mark ELSE NoMark)
    <3> HIDE DEF phase, next
    <3> QED BY <2>1, <2>2, ClickAssumption DEF ObserveHealthy, Healthy, Attempting, Phases, ClickInv, ClickTypes
  <2>4. routing.attached => silent = 0 \/ (silent = 1 /\ phase.suspect = dog.previous.mark)
    BY <1>4 DEF ClickInv, MissesAreCounted
  <2> HIDE DEF phase, next
  <2>5. ClickTypes'
    BY <1>1, <1>2, <2>3, <1>4 DEF ClickInv, ClickTypes, Poll, HookerSteps, Idle
  <2>6. AttemptsEnd' /\ NothingReported'
    BY <1>1, <2>3, <1>4 DEF AttemptsEnd, NothingReported, Installing, Idle
  <2>7. MissesAreCounted'
    BY <1>1, <1>2, <2>3, <2>4, <1>4 DEF MissesAreCounted, Poll, ClickInv, ClickTypes
  <2> QED
    BY <2>5, <2>6, <2>7 DEF ClickInv
<1>5. CASE phase.name = "lost"
  <2>1. phase \in [name : {"lost"}, installed : Nat \cup {NoMark}, missed : BOOLEAN,
                   retry : 1 .. MaxRetry, next : 1 .. MaxRetry]
    BY <1>5 DEF ClickInv, ClickTypes, Phases
  <2>2. next = ObserveLost(phase)
    BY <1>5
  <2>3. routing.attached => silent + phase.retry <= MaxRetry
    BY <1>5 DEF ClickInv, MissesAreCounted
  <2>4. phase.installed # NoMark => dog.previous.mark = phase.installed
    BY <1>5 DEF ClickInv, NothingReported
  <2> HIDE DEF phase, next
  <2> DEFINE misses == phase.missed \/ Missed
             retries == phase.installed = NoMark \/ misses
  <2>5. CASE phase.installed # NoMark /\ phase.installed # mark
    <3>1. next = [name |-> "healthy", suspect |-> NoMark]
      BY <2>2, <2>5 DEF ObserveLost, Healthy
    <3>2. ClickTypes' /\ AttemptsEnd' /\ NothingReported' /\ MissesAreCounted'
      BY <1>1, <1>2, <3>1, <1>5, <2>4, <2>5 DEF ClickInv, ClickTypes, Poll, HookerSteps, Idle, Phases,
         AttemptsEnd, NothingReported, MissesAreCounted, Installing
    <3> QED BY <3>2 DEF ClickInv
  <2>6. CASE ~(phase.installed # NoMark /\ phase.installed # mark) /\ retries /\ phase.retry <= 1
    <3>1. next = [name |-> "attempting", retry |-> phase.next]
      BY <2>2, <2>6 DEF ObserveLost, Attempting
    <3>2. ClickTypes' /\ AttemptsEnd' /\ NothingReported' /\ MissesAreCounted'
      BY <1>1, <1>2, <3>1, <1>5, <2>1 DEF ClickInv, ClickTypes, Poll, HookerSteps, Idle, Phases,
         AttemptsEnd, NothingReported, MissesAreCounted, Installing
    <3> QED BY <3>2 DEF ClickInv
  <2>7. CASE ~(phase.installed # NoMark /\ phase.installed # mark) /\ ~(retries /\ phase.retry <= 1)
    <3>1. next = [phase EXCEPT !.missed = misses, !.retry = IF retries THEN @ - 1 ELSE @]
      BY <2>2, <2>7 DEF ObserveLost
    <3>2. /\ next \in Phases /\ next.name = "lost" /\ next.installed = phase.installed
          /\ next.retry = IF retries THEN phase.retry - 1 ELSE phase.retry
      <4>0. misses \in BOOLEAN /\ retries \in BOOLEAN
        BY <2>1 DEF Missed
      <4>1. (IF retries THEN phase.retry - 1 ELSE phase.retry) \in 1 .. MaxRetry
        BY <2>1, <2>7, ClickAssumption
      <4> HIDE DEF misses, retries
      <4> QED
        BY <3>1, <2>1, <4>0, <4>1 DEF Phases
    <3>3. ClickTypes' /\ AttemptsEnd'
      BY <1>1, <1>2, <3>2, <1>5 DEF ClickInv, ClickTypes, Poll, HookerSteps, Idle,
         AttemptsEnd, Installing
    <3>4. NothingReported'
      BY <1>1, <1>2, <3>2, <2>7 DEF NothingReported
    <3>5. MissesAreCounted'
      <4>1. routing'.attached = routing.attached /\ silent \in Nat
        BY DEF Poll, ClickInv, ClickTypes
      <4>2. Missed => retries
        OBVIOUS
      <4>3. silent' = IF mark # dog.previous.mark THEN 0
                      ELSE IF Missed THEN silent + 1 ELSE silent
        BY <1>1, <3>2
      <4> HIDE DEF retries, misses
      <4> QED
        BY <1>1, <4>1, <4>2, <4>3, <3>2, <2>3, <2>1, ClickAssumption DEF MissesAreCounted
    <3> QED BY <3>3, <3>4, <3>5 DEF ClickInv
  <2> QED
    BY <2>5, <2>6, <2>7
<1>6. CASE phase.name = "attempting"
  <2>1. next = phase /\ ~reinstall /\ ~routing.attached
    BY <1>3, <1>6 DEF ClickInv, AttemptsEnd
  <2>2. ClickTypes' /\ AttemptsEnd' /\ NothingReported' /\ MissesAreCounted'
    BY <1>1, <1>2, <1>6, <2>1 DEF ClickInv, ClickTypes, Poll, HookerSteps, Idle, AttemptsEnd, NothingReported,
       MissesAreCounted, Installing
  <2> QED BY <2>2 DEF ClickInv
<1> QED
  BY <1>4, <1>5, <1>6 DEF ClickInv, ClickTypes, Phases

LEMMA DisownGoesOn ==
  ASSUME ClickInv, NEW after \in {"release", "drop"}, Disown(after)
  PROVE  /\ hooker' \in HookerSteps /\ Installing'
         /\ routing' \in [attached : BOOLEAN, available : BOOLEAN, gen : Nat, pending : Asked]
         /\ routing'.attached = routing.attached
<1>0. routing \in Routings
  BY DEF Routings, ClickInv, ClickTypes
<1>1. [kind |-> "interactive", gen |-> routing.gen + 1] \in Asked /\ pointer.at \in Spot
  BY <1>0 DEF Asked, Routings, ClickInv, ClickTypes
<1>2. hooker' \in HookerSteps /\ Installing'
  BY <1>1 DEF Disown, HookerSteps, After, Installing
<1> QED
  BY <1>0, <1>2, RenewedRouting DEF Disown, Routings

\* The end of an attempt: what is missed is counted from here.
LEMMA FinishKeeps ==
  ASSUME ClickInv, NEW installed \in BOOLEAN, FinishAttempt(installed), hooker' = Idle, Installing,
         UNCHANGED <<silent, routing, pointer, mark, shape, through, owner>>,
         hook' \in [installed : BOOLEAN, called : BOOLEAN]
  PROVE  ClickInv'
<1>1. dog.phase \in [name : {"attempting"}, retry : 1 .. MaxRetry] /\ (routing.attached => silent = 0)
  BY DEF ClickInv, ClickTypes, AttemptsEnd, Phases
<1>2. dog'.previous = dog.previous
      /\ dog'.phase = [name |-> "lost", installed |-> IF installed THEN dog.previous.mark ELSE NoMark,
                       missed |-> ~installed, retry |-> dog.phase.retry, next |-> Doubled(dog.phase.retry)]
      /\ dog' \in [previous : {dog.previous}, phase : {dog'.phase}]
  BY DEF FinishAttempt, ClickInv, ClickTypes
<1>3. Doubled(dog.phase.retry) \in 1 .. MaxRetry
  BY <1>1, ClickAssumption DEF Doubled
<1>7. dog'.phase \in Phases
  BY <1>1, <1>2, <1>3 DEF ClickInv, ClickTypes, Phases
<1>4. ClickTypes'
  BY <1>2, <1>7, IdleHooker DEF ClickInv, ClickTypes
<1>5. AttemptsEnd' /\ NothingReported'
  BY <1>2 DEF AttemptsEnd, NothingReported, Installing, Idle, ClickInv, ClickTypes
<1>6. MissesAreCounted'
  BY <1>1, <1>2 DEF MissesAreCounted, ClickInv, ClickTypes
<1> QED
  BY <1>4, <1>5, <1>6 DEF ClickInv

LEMMA MarkLostKeeps == ASSUME ClickInv, MarkLost PROVE ClickInv'
<1>1. CASE routing.attached
  <2>1. ClickTypes' /\ Installing' /\ routing'.attached = routing.attached
    BY <1>1, DisownGoesOn DEF MarkLost, ByHooker, ClickInv, ClickTypes
  <2> QED
    BY <2>1, HookerKeeps DEF MarkLost, ByHooker, HookerAt, Installing
<1>2. CASE ~routing.attached
  <2>1. ClickTypes'
    BY <1>2 DEF MarkLost, ByHooker, ClickInv, ClickTypes, HookerSteps, Idle
  <2> QED
    BY <1>2, <2>1, HookerKeeps DEF MarkLost, ByHooker, HookerAt, Installing, Idle
<1> QED
  BY <1>1, <1>2

LEMMA ReinstallKeeps == ASSUME ClickInv, ReinstallHook PROVE ClickInv'
<1>0. Installing /\ UNCHANGED <<pointer, mark, shape, routing, through, owner, silent>>
  BY DEF ReinstallHook, HookerAt, Installing, ByHooker
<1>1. CASE ~routing.attached /\ hooker' = Idle /\ UNCHANGED <<hook, dog>>
  <2>1. ClickTypes'
    BY <1>0, <1>1 DEF ClickInv, ClickTypes, HookerSteps, Idle
  <2> QED
    BY <1>0, <1>1, <2>1, HookerKeeps DEF Installing, Idle
<1>2. CASE FinishAttempt(FALSE) /\ hooker' = Idle /\ hook' \in {hook, NoHook}
  BY <1>0, <1>2, FinishKeeps, IdleHooker DEF ClickInv, ClickTypes, Hooks
<1>3. CASE hook' = [installed |-> TRUE, called |-> TRUE] /\ hooker' = [step |-> "restore"] /\ UNCHANGED dog
  <2>1. ClickTypes' /\ Installing'
    BY <1>0, <1>3 DEF ClickInv, ClickTypes, HookerSteps, Installing
  <2> QED
    BY <1>0, <1>3, <2>1, HookerKeeps
<1> QED
  BY <1>1, <1>2, <1>3 DEF ReinstallHook

LEMMA RestoreKeeps == ASSUME ClickInv, MarkReinstalled PROVE ClickInv'
<1>0. Installing /\ UNCHANGED <<pointer, mark, shape, through, owner, silent, dog>>
  BY DEF MarkReinstalled, HookerAt, Installing, ByHooker
<1>1. CASE routing.attached
  <2>1. hooker' \in HookerSteps /\ Installing' /\ hook' = hook
    BY <1>0, <1>1 DEF MarkReinstalled, ClickInv, ClickTypes, HookerSteps, After, Installing
  <2>2. routing \in Routings /\ routing' = [Renewed(routing) EXCEPT !.available = TRUE]
    BY <1>1 DEF MarkReinstalled, ClickInv, ClickTypes, Routings
  <2>3. routing' \in Routings /\ routing'.attached = routing.attached
    BY <2>2, RenewedRouting
  <2>4. ClickTypes'
    BY <1>0, <2>1, <2>3 DEF ClickInv, ClickTypes, Routings
  <2> QED
    BY <1>0, <2>1, <2>3, <2>4, HookerKeeps
<1>2. CASE ~routing.attached
  <2>1. ClickTypes' /\ UNCHANGED routing
    BY <1>0, <1>2, IdleHooker DEF MarkReinstalled, ClickInv, ClickTypes, Hooks
  <2> QED
    BY <1>0, <1>2, <2>1, HookerKeeps
<1> QED
  BY <1>1, <1>2

LEMMA EndKeeps == ASSUME ClickInv, FinishReinstall \/ AbandonHook \/ DropHook PROVE ClickInv'
<1>0. Installing
  BY DEF FinishReinstall, AbandonHook, DropHook, HookerAt, Installing
<1>1. CASE FinishReinstall /\ routing.attached
  BY <1>0, <1>1, FinishKeeps DEF FinishReinstall, ByHooker, ClickInv, ClickTypes
<1>2. CASE FinishReinstall /\ ~routing.attached
  <2>1. ClickTypes'
    BY <1>2, IdleHooker DEF FinishReinstall, ByHooker, ClickInv, ClickTypes, Hooks
  <2> QED
    BY <1>0, <1>2, <2>1, HookerKeeps DEF FinishReinstall, ByHooker
<1>3. CASE AbandonHook /\ routing.attached
  <2>1. ClickTypes' /\ Installing' /\ routing'.attached = routing.attached
    BY <1>3, DisownGoesOn DEF AbandonHook, ByHooker, ClickInv, ClickTypes
  <2> QED
    BY <1>0, <1>3, <2>1, HookerKeeps DEF AbandonHook, ByHooker
<1>4. CASE AbandonHook /\ ~routing.attached
  <2>1. ClickTypes' /\ Installing'
    BY <1>4 DEF AbandonHook, ByHooker, ClickInv, ClickTypes, HookerSteps, Installing
  <2> QED
    BY <1>0, <1>4, <2>1, HookerKeeps DEF AbandonHook, ByHooker
<1>5. CASE DropHook
  BY <1>0, <1>5, FinishKeeps, IdleHooker DEF DropHook, ByHooker, ClickInv, ClickTypes, Hooks
<1> QED
  BY <1>1, <1>2, <1>3, <1>4, <1>5

LEMMA ClickInvNext == ClickInv /\ [ClickNext]_clickVars => ClickInv'
<1> SUFFICES ASSUME ClickInv, [ClickNext]_clickVars PROVE ClickInv'
  OBVIOUS
<1>1. CASE UNCHANGED clickVars
  BY <1>1 DEF clickVars, ClickInv, ClickTypes, AttemptsEnd, MissesAreCounted, NothingReported, Installing
<1>2. CASE ClickNext
  BY <1>2, MoveKeeps, KeyKeeps, PointKeeps, SendKeeps, PassKeeps, TakeKeeps, OwnerKeeps, LostHookKeeps,
     PollKeeps, MarkLostKeeps, ReinstallKeeps, RestoreKeeps, EndKeeps DEF ClickNext
<1> QED
  BY <1>1, <1>2

LEMMA ClickInvHolds == ClickSpec => []ClickInv
<1> QED
  BY ClickInvInit, ClickInvNext, PTL DEF ClickSpec

\* As long as the window is attached, a hook that Windows dropped is replaced by the second
\* poll after a move it missed, and after an attempt that did not help within the longest
\* pause, for every longest pause and any number of moves (watchdog.rs:68-141).
THEOREM LossesAreNoticed == ClickSpec => []LossIsNoticed
<1>1. ClickInv => LossIsNoticed
  BY ClickAssumption DEF ClickInv, ClickTypes, Phases, AttemptsEnd, MissesAreCounted, LossIsNoticed
<1> QED
  BY <1>1, ClickInvHolds, PTL

--------------------------------------------------------------------------------
(****************************************************************************)
(* AppBar.  A strip is reserved only while the bar wants that strip,         *)
(* whatever Explorer does in between.                                        *)
(****************************************************************************)

Strips == [dock : Dock \cup {None}, above : {0, 1}, size : Int]
Natives == [proxy : BOOLEAN, registered : BOOLEAN, reservation : Dock \cup {None},
            applied : [strip : Strips, scale : Int]]
Explorers == [up : BOOLEAN, registered : BOOLEAN, strip : Strips]
CallsUnderway == [step : {"none", "undo", "again", "reassert"}]
         \cup [step : {"register", "query", "remove", "forget"}, dock : Dock \cup {None},
               new : BOOLEAN, size : Int]
         \cup [step : {"commit"}, new : BOOLEAN, strip : Strips]

AppBarTypes ==
    /\ explorer \in Explorers /\ native \in Natives /\ call \in CallsUnderway
    /\ screen \in [others : {0, 1}, scale : {0, 1}]
    /\ placed \in [recorded : BOOLEAN, there : BOOLEAN]
    /\ messages \subseteq {"taskbar", "position", "reconcile"}
    /\ wanted \in Dock \cup {None} /\ kept \in {"yes", "restarted", "no"}

\* Explorer keeps no strip free for a window it does not know.
StripNeedsRegistration == ~explorer.registered => explorer.strip = NoStrip

\* The call under way is about the strip that is wanted, and about the registration there is.
CallFits ==
    CASE call.step = "none"     -> /\ explorer.strip.dock = wanted
                                   /\ native.registered => native.reservation = wanted
      [] call.step = "register" -> ~native.registered /\ call.dock = wanted
      [] call.step = "query"    -> native.registered /\ call.dock = wanted
      [] call.step = "commit"   -> native.registered /\ call.strip.dock = wanted
      [] call.step = "remove"   -> native.registered /\ wanted = None
      [] call.step = "forget"   -> ~native.registered /\ wanted = None
      [] OTHER                  -> FALSE

\* As long as every call was granted, the bar and Explorer agree.
GrantedCallsFit == kept = "yes" => InStep /\ CallFits

\* A window that is not where it belongs is put back by a message or by the call under way.
WindowComesBack ==
    native.proxy /\ placed.recorded /\ ~placed.there
        => \/ "reconcile" \in messages
           \/ call.step \in {"register", "query", "commit", "undo", "remove", "forget"}

AppBarInv == AppBarTypes /\ StripNeedsRegistration /\ GrantedCallsFit /\ WindowComesBack

LEMMA Constants == NoStrip \in Strips /\ Unapplied \in [strip : Strips, scale : Int] /\ NoCall \in CallsUnderway
                   /\ NoStrip.dock = None /\ NoCall.step = "none"
  BY DEF NoStrip, Strips, None, Unapplied, NoCall, CallsUnderway

LEMMA AppBarInvInit == AppBarInit => AppBarInv
<1> SUFFICES ASSUME AppBarInit PROVE AppBarInv
  OBVIOUS
<1>1. AppBarTypes
  BY Constants DEF AppBarInit, AppBarTypes, Explorers, Natives
<1>2. StripNeedsRegistration /\ GrantedCallsFit /\ WindowComesBack
  BY Constants DEF AppBarInit, StripNeedsRegistration, GrantedCallsFit, WindowComesBack, InStep, CallFits
<1> QED
  BY <1>1, <1>2 DEF AppBarInv

LEMMA UnregisteredExplorer ==
  ASSUME explorer \in Explorers
  PROVE  /\ Unregistered \in Explorers /\ Unregistered.registered = FALSE /\ Unregistered.strip = NoStrip
         /\ Unregistered.up = explorer.up
         /\ [Unregistered EXCEPT !.up = FALSE] \in Explorers
         /\ [Unregistered EXCEPT !.up = FALSE].strip = NoStrip
         /\ ~[Unregistered EXCEPT !.up = FALSE].registered
  BY Constants DEF Explorers, Unregistered

LEMMA ReleasedNative ==
  ASSUME native \in Natives
  PROVE  /\ Released \in Natives /\ Released.registered = FALSE /\ Released.reservation = None
         /\ Released.proxy = native.proxy
  BY Constants DEF Natives, Released

\* What happens to Explorer, to the screen and to the window.
LEMMA OutsideKeeps ==
  ASSUME AppBarInv,
         ExplorerDies \/ ExplorerStarts \/ PrimaryRescaled \/ Neighbours \/ PushBar \/ Reconcile
  PROVE  AppBarInv'
<1>0. AppBarTypes /\ StripNeedsRegistration /\ GrantedCallsFit /\ WindowComesBack
  BY DEF AppBarInv
<1>1. CASE ExplorerDies
  <2>1. AppBarTypes' /\ kept' # "yes" /\ StripNeedsRegistration'
    BY <1>0, <1>1, UnregisteredExplorer DEF ExplorerDies, AppBarTypes, StripNeedsRegistration
  <2> QED
    BY <1>0, <1>1, <2>1 DEF ExplorerDies, AppBarInv, GrantedCallsFit, WindowComesBack
<1>2. CASE ExplorerStarts
  <2>1. kept # "yes" /\ kept' = kept
    BY <1>0, <1>2 DEF ExplorerStarts, GrantedCallsFit, InStep
  <2>2. AppBarTypes' /\ StripNeedsRegistration' /\ messages \subseteq messages'
    BY <1>0, <1>2 DEF ExplorerStarts, Broadcast, AppBarTypes, Explorers, StripNeedsRegistration
  <2> QED
    BY <1>0, <1>2, <2>1, <2>2 DEF ExplorerStarts, AppBarInv, GrantedCallsFit, WindowComesBack
<1>3. CASE PrimaryRescaled
  <2>1. kept' # "yes" /\ AppBarTypes' /\ messages \subseteq messages'
    BY <1>0, <1>3 DEF PrimaryRescaled, Broadcast, AppBarTypes
  <2> QED
    BY <1>0, <1>3, <2>1 DEF PrimaryRescaled, AppBarInv, StripNeedsRegistration, GrantedCallsFit, WindowComesBack
<1>4. CASE Neighbours
  <2>1. AppBarTypes'
    BY <1>0, <1>4 DEF Neighbours, AppBarTypes
  <2> QED
    BY <1>0, <1>4, <2>1 DEF Neighbours, AppBarInv, StripNeedsRegistration, GrantedCallsFit, WindowComesBack,
       InStep, CallFits
<1>5. CASE PushBar
  <2>1. AppBarTypes' /\ WindowComesBack'
    BY <1>0, <1>5 DEF PushBar, AppBarTypes, WindowComesBack
  <2> QED
    BY <1>0, <1>5, <2>1 DEF PushBar, AppBarInv, StripNeedsRegistration, GrantedCallsFit, InStep, CallFits
<1>6. CASE Reconcile
  <2>1. AppBarTypes' /\ WindowComesBack'
    BY <1>0, <1>6 DEF Reconcile, Settled, Back, AppBarTypes, WindowComesBack
  <2> QED
    BY <1>0, <1>6, <2>1 DEF Reconcile, AppBarInv, StripNeedsRegistration, GrantedCallsFit, InStep, CallFits
<1> QED
  BY <1>1, <1>2, <1>3, <1>4, <1>5, <1>6

\* A request for a strip, or for none.
LEMMA RequestKeeps ==
  ASSUME AppBarInv, NEW dock \in Dock \cup {None}, NEW moved \in BOOLEAN, SetReservation(dock, moved)
  PROVE  AppBarInv'
<1>0. AppBarTypes /\ StripNeedsRegistration /\ GrantedCallsFit /\ WindowComesBack
  BY DEF AppBarInv
<1>1. call' \in [step : {"register", "query", "remove", "forget"}, dock : {dock}, new : BOOLEAN, size : Int]
      /\ call'.step = IF dock # None THEN IF native.registered THEN "query" ELSE "register"
                      ELSE IF native.registered THEN "remove" ELSE "forget"
  BY <1>0 DEF SetReservation, AppBarTypes, Natives
<1>2. AppBarTypes' /\ WindowComesBack'
  BY <1>0, <1>1 DEF SetReservation, Recorded, AppBarTypes, CallsUnderway, WindowComesBack
<1>3. kept' = "yes" => CallFits'
  BY <1>1 DEF SetReservation, CallFits
<1>4. kept' = "yes" => InStep'
  BY <1>0 DEF SetReservation, InStep, GrantedCallsFit
<1> QED
  BY <1>0, <1>2, <1>3, <1>4 DEF SetReservation, AppBarInv, StripNeedsRegistration, GrantedCallsFit

LEMMA DeferKeeps ==
  ASSUME AppBarInv, NEW moved \in BOOLEAN, DeferReservation(moved)
  PROVE  AppBarInv'
<1>1. placed' \in [recorded : BOOLEAN, there : BOOLEAN] /\ (placed'.recorded => placed'.there)
  BY DEF DeferReservation, Recorded, Back, AppBarInv, AppBarTypes
<1> QED
  BY <1>1 DEF DeferReservation, AppBarInv, AppBarTypes, StripNeedsRegistration, GrantedCallsFit, InStep, CallFits,
     WindowComesBack

\* A step that ends a call puts the window back.
LEMMA SettledWindow ==
  ASSUME AppBarInv, Settled
  PROVE  placed' \in [recorded : BOOLEAN, there : BOOLEAN] /\ (placed'.recorded => placed'.there)
  BY DEF Settled, Back, AppBarInv, AppBarTypes

LEMMA GiveUpKeeps ==
  ASSUME AppBarInv, Refused, GiveUp, UNCHANGED <<screen, messages, wanted, native>>,
         call.step \in {"query", "commit"},
         explorer' \in Explorers, StripNeedsRegistration'
  PROVE  AppBarInv'
<1>1. CASE call' = [step |-> "undo"] /\ UNCHANGED placed
  BY <1>1 DEF Refused, AppBarInv, AppBarTypes, CallsUnderway, GrantedCallsFit, WindowComesBack
<1>2. CASE End /\ Settled
  BY <1>2, SettledWindow, Constants DEF Refused, End, AppBarInv, AppBarTypes, GrantedCallsFit, WindowComesBack
<1> QED
  BY <1>1, <1>2 DEF GiveUp

LEMMA RegisterWithExplorerKeeps == ASSUME AppBarInv, Register PROVE AppBarInv'
<1>0. AppBarTypes /\ StripNeedsRegistration /\ GrantedCallsFit /\ WindowComesBack
  BY DEF AppBarInv
<1>c. call \in [step : {"register", "query", "remove", "forget"}, dock : Dock \cup {None},
               new : BOOLEAN, size : Int] /\ call.step = "register"
  BY <1>0 DEF Register, Calling, AppBarTypes, CallsUnderway
<1>1. CASE /\ explorer.up
           /\ explorer' = [explorer EXCEPT !.registered = TRUE]
           /\ native' = [native EXCEPT !.registered = TRUE]
           /\ call' = [call EXCEPT !.step = "query"]
           /\ UNCHANGED <<placed, kept>>
  <2>1. call' \in CallsUnderway /\ call'.step = "query" /\ call'.dock = call.dock
    BY <1>1, <1>c DEF CallsUnderway
  <2>2. /\ explorer' \in Explorers /\ explorer'.registered /\ explorer'.up = explorer.up
        /\ native' \in Natives /\ native'.registered /\ native'.proxy = native.proxy
    BY <1>0, <1>1 DEF AppBarTypes, Explorers, Natives
  <2> QED
    BY <1>0, <1>1, <1>c, <2>1, <2>2 DEF Register, AppBarInv, AppBarTypes, StripNeedsRegistration, GrantedCallsFit,
       InStep, CallFits, WindowComesBack
<1>2. CASE Refused /\ End /\ Settled /\ UNCHANGED <<explorer, native>>
  BY <1>0, <1>2, SettledWindow, Constants DEF Register, Refused, End, AppBarInv, AppBarTypes, StripNeedsRegistration,
     GrantedCallsFit, WindowComesBack
<1> QED
  BY <1>1, <1>2 DEF Register

LEMMA FitIsStrip ==
  ASSUME AppBarTypes, NEW dock \in Dock \cup {None}, NEW size \in Int
  PROVE  Fit(dock, size) \in Strips /\ Fit(dock, size).dock = dock
  BY DEF Fit, AppBarTypes, Strips

LEMMA QueryKeeps == ASSUME AppBarInv, Query PROVE AppBarInv'
<1>0. AppBarTypes /\ StripNeedsRegistration /\ GrantedCallsFit /\ WindowComesBack
  BY DEF AppBarInv
<1>c. call \in [step : {"register", "query", "remove", "forget"}, dock : Dock \cup {None},
               new : BOOLEAN, size : Int] /\ call.step = "query"
  BY <1>0 DEF Query, Calling, AppBarTypes, CallsUnderway
<1>1. CASE /\ explorer.up
           /\ call' = [step |-> "commit", new |-> call.new, strip |-> Fit(call.dock, call.size)]
           /\ UNCHANGED <<placed, kept>>
  <2>1. Fit(call.dock, call.size) \in Strips /\ Fit(call.dock, call.size).dock = call.dock
    BY <1>0, <1>c, FitIsStrip
  <2>2. call' \in CallsUnderway /\ call'.step = "commit" /\ call'.strip.dock = call.dock
    BY <1>1, <1>c, <2>1 DEF CallsUnderway
  <2> QED
    BY <1>0, <1>1, <1>c, <2>2 DEF Query, AppBarInv, AppBarTypes, StripNeedsRegistration, GrantedCallsFit,
       InStep, CallFits, WindowComesBack
<1>2. CASE Refused /\ GiveUp
  BY <1>0, <1>2, <1>c, GiveUpKeeps DEF Query, AppBarTypes, StripNeedsRegistration
<1> QED
  BY <1>1, <1>2 DEF Query

LEMMA CommitStripFits ==
  ASSUME AppBarInv, NEW strip \in Strips, CommitStrip(strip)
  PROVE  /\ explorer' \in Explorers /\ explorer'.up = explorer.up
         /\ explorer'.registered = explorer.registered
         /\ explorer'.strip = IF explorer.registered THEN strip ELSE explorer.strip
         /\ StripNeedsRegistration'
  BY DEF CommitStrip, AppBarInv, AppBarTypes, Explorers, StripNeedsRegistration

LEMMA RememberFits ==
  ASSUME AppBarInv, NEW strip \in Strips, NEW scale \in Int
  PROVE  /\ Remember(strip, scale) \in Natives /\ Remember(strip, scale).reservation = strip.dock
         /\ Remember(strip, scale).proxy = native.proxy
         /\ Remember(strip, scale).registered = native.registered
  BY DEF Remember, AppBarInv, AppBarTypes, Natives, Strips

LEMMA CommitKeeps == ASSUME AppBarInv, Commit PROVE AppBarInv'
<1>0. AppBarTypes /\ StripNeedsRegistration /\ GrantedCallsFit /\ WindowComesBack
  BY DEF AppBarInv
<1>c. call \in [step : {"commit"}, new : BOOLEAN, strip : Strips] /\ screen.scale \in Int
  BY <1>0 DEF Commit, Calling, AppBarTypes, CallsUnderway
<1>1. CASE CommitStrip(call.strip) /\ native' = Remember(call.strip, screen.scale) /\ End /\ Settled /\ UNCHANGED kept
  <2>1. GrantedCallsFit'
    BY <1>0, <1>1, <1>c, CommitStripFits, RememberFits, Constants
       DEF Commit, End, GrantedCallsFit, InStep, CallFits
  <2> QED
    BY <1>0, <1>1, <1>c, <2>1, CommitStripFits, RememberFits, SettledWindow, Constants
       DEF Commit, End, AppBarInv, AppBarTypes, WindowComesBack
<1>2. CASE (CommitStrip(call.strip) \/ UNCHANGED explorer) /\ Refused /\ GiveUp /\ UNCHANGED native
  <2>1. explorer' \in Explorers /\ StripNeedsRegistration'
    BY <1>0, <1>2, <1>c, CommitStripFits DEF AppBarTypes, StripNeedsRegistration
  <2> QED
    BY <1>2, <1>c, <2>1, GiveUpKeeps DEF Commit
<1> QED
  BY <1>1, <1>2 DEF Commit

LEMMA UndoKeeps == ASSUME AppBarInv, Undo PROVE AppBarInv'
<1>0. AppBarTypes /\ StripNeedsRegistration /\ GrantedCallsFit /\ WindowComesBack
  BY DEF AppBarInv
<1>1. kept' # "yes"
  BY <1>0 DEF Undo, Calling, GrantedCallsFit, CallFits
<1>2. explorer' \in Explorers /\ native' \in Natives /\ StripNeedsRegistration'
  <2>1. CASE explorer' = Unregistered /\ native' = [native EXCEPT !.registered = FALSE]
    BY <1>0, <2>1, UnregisteredExplorer DEF AppBarTypes, Natives, StripNeedsRegistration
  <2>2. CASE UNCHANGED <<explorer, native>>
    BY <1>0, <2>2 DEF AppBarTypes, StripNeedsRegistration
  <2> QED
    BY <2>1, <2>2 DEF Undo
<1> QED
  BY <1>0, <1>1, <1>2, SettledWindow, Constants
     DEF Undo, End, AppBarInv, AppBarTypes, GrantedCallsFit, WindowComesBack

LEMMA RemoveKeeps == ASSUME AppBarInv, Remove \/ Forget PROVE AppBarInv'
<1>0. AppBarTypes /\ StripNeedsRegistration /\ GrantedCallsFit /\ WindowComesBack
  BY DEF AppBarInv
<1>1. Settled /\ End /\ UNCHANGED <<screen, messages, wanted>>
  BY DEF Remove, Forget
<1>2. CASE Remove /\ explorer' = Unregistered /\ native' = Released /\ UNCHANGED kept
  <2>1. /\ explorer' \in Explorers /\ explorer'.up = explorer.up /\ explorer'.registered = FALSE
        /\ explorer'.strip = NoStrip
        /\ native' \in Natives /\ native'.registered = FALSE /\ call'.step = "none"
    BY <1>0, <1>1, <1>2, UnregisteredExplorer, ReleasedNative, Constants DEF AppBarTypes, End
  <2>2. AppBarTypes' /\ WindowComesBack'
    BY <1>0, <1>1, <1>2, <2>1, SettledWindow, Constants DEF AppBarTypes, WindowComesBack, End
  <2>3. kept = "yes" => wanted = None
    BY <1>0, <1>2 DEF Remove, Calling, GrantedCallsFit, CallFits
  <2>4. StripNeedsRegistration' /\ GrantedCallsFit'
    BY <1>0, <1>1, <1>2, <2>1, <2>3, Constants DEF StripNeedsRegistration, GrantedCallsFit, InStep, CallFits
  <2> QED
    BY <2>2, <2>4 DEF AppBarInv
<1>3. CASE Refused /\ UNCHANGED <<explorer, native>>
  BY <1>0, <1>1, <1>3, SettledWindow, Constants
     DEF Refused, End, AppBarInv, AppBarTypes, StripNeedsRegistration, GrantedCallsFit, WindowComesBack
<1>4. CASE Forget
  <2>1. native' \in Natives /\ native'.registered = FALSE /\ call'.step = "none" /\ UNCHANGED <<explorer, kept>>
    BY <1>0, <1>1, <1>4, ReleasedNative, Constants DEF Forget, AppBarTypes, End
  <2>2. AppBarTypes' /\ WindowComesBack'
    BY <1>0, <1>1, <2>1, SettledWindow, Constants DEF AppBarTypes, WindowComesBack, End
  <2>3. kept = "yes" => wanted = None /\ native.registered = FALSE /\ InStep
    BY <1>0, <1>4 DEF Forget, Calling, GrantedCallsFit, CallFits, AppBarTypes, Natives
  <2>4. StripNeedsRegistration' /\ GrantedCallsFit'
    BY <1>0, <1>1, <2>1, <2>3, Constants DEF StripNeedsRegistration, GrantedCallsFit, InStep, CallFits
  <2> QED
    BY <2>2, <2>4 DEF AppBarInv
<1> QED
  BY <1>2, <1>3, <1>4 DEF Remove

\* A strip that is asked for again is for the same edge and thickness.
LEMMA ReassertFits ==
  ASSUME AppBarInv, NEW scale \in Int, Reassert(scale)
  PROVE  /\ explorer' \in Explorers /\ native' \in Natives /\ StripNeedsRegistration'
         /\ explorer'.up = explorer.up /\ explorer'.registered = explorer.registered
         /\ native'.registered = native.registered /\ native'.proxy = native.proxy
         /\ native'.reservation = native.reservation
         /\ explorer'.strip = explorer.strip
            \/ (native.registered /\ explorer'.strip.dock = native.reservation)
<1> DEFINE strip == Fit(native.reservation, native.applied.strip.size - native.applied.scale + scale)
<1>0. AppBarTypes /\ StripNeedsRegistration
  BY DEF AppBarInv
<1>1. strip \in Strips /\ strip.dock = native.reservation
  <2>1. native.applied.strip.size - native.applied.scale + scale \in Int /\ native.reservation \in Dock \cup {None}
    BY <1>0 DEF AppBarTypes, Natives, Strips
  <2> QED
    BY <1>0, <2>1, FitIsStrip
<1>2. CASE UNCHANGED <<explorer, native>>
  BY <1>0, <1>2 DEF AppBarTypes, StripNeedsRegistration
<1>3. CASE native.registered /\ CommitStrip(strip) /\ native' \in {Remember(strip, scale), native}
  <2> HIDE DEF strip
  <2>1. /\ explorer' \in Explorers /\ explorer'.up = explorer.up
        /\ explorer'.registered = explorer.registered
        /\ explorer'.strip = IF explorer.registered THEN strip ELSE explorer.strip
        /\ StripNeedsRegistration'
    BY <1>1, <1>3, CommitStripFits
  <2>2. /\ Remember(strip, scale) \in Natives /\ Remember(strip, scale).reservation = strip.dock
        /\ Remember(strip, scale).proxy = native.proxy
        /\ Remember(strip, scale).registered = native.registered
    BY <1>1, RememberFits
  <2> QED
    BY <1>0, <1>1, <1>3, <2>1, <2>2 DEF AppBarTypes
<1>4. CASE native.registered /\ UNCHANGED explorer /\ native' = native
  BY <1>2, <1>4
<1> QED
  BY <1>2, <1>3, <1>4 DEF Reassert

LEMMA HandlerKeeps == ASSUME AppBarInv, PositionChanged \/ DpiChanged PROVE AppBarInv'
<1>0. AppBarTypes /\ StripNeedsRegistration /\ GrantedCallsFit /\ WindowComesBack
  BY DEF AppBarInv
<1>1. PICK scale \in Int : TryReassert(scale)
  <2>1. screen.scale \in Int /\ 1 - screen.scale \in Int
    BY <1>0 DEF AppBarTypes
  <2> QED
    BY <2>1 DEF PositionChanged, DpiChanged
<1>2. /\ UNCHANGED <<placed, call, wanted, kept>>
      /\ messages' \subseteq messages /\ ("reconcile" \in messages => "reconcile" \in messages')
      /\ screen' \in [others : {0, 1}, scale : {0, 1}]
  BY <1>0 DEF PositionChanged, DpiChanged, AppBarTypes
<1>3. CASE call = NoCall
  <2>1. Reassert(scale)
    BY <1>1, <1>3 DEF TryReassert
  <2>2. GrantedCallsFit'
    BY <1>0, <1>2, <1>3, <2>1, ReassertFits, Constants DEF GrantedCallsFit, InStep, CallFits
  <2> QED
    BY <1>0, <1>2, <1>3, <2>1, <2>2, ReassertFits DEF AppBarInv, AppBarTypes, WindowComesBack
<1>4. CASE UNCHANGED <<explorer, native>>
  BY <1>0, <1>2, <1>4 DEF AppBarInv, AppBarTypes, StripNeedsRegistration, GrantedCallsFit, InStep, CallFits,
     WindowComesBack
<1> QED
  BY <1>1, <1>3, <1>4 DEF TryReassert

\* The recovery after a restart of Explorer.
LEMMA RecoveryKeeps ==
  ASSUME AppBarInv, TaskbarCreated \/ RecoveryLost \/ RegisterAgain \/ ReassertAgain
  PROVE  AppBarInv'
<1>0. AppBarTypes /\ StripNeedsRegistration /\ GrantedCallsFit /\ WindowComesBack
  BY DEF AppBarInv
<1>1. kept' # "yes" /\ kept' \in {"yes", "restarted", "no"}
  BY <1>0 DEF TaskbarCreated, RecoveryLost, RegisterAgain, ReassertAgain, Refused, Calling, GrantedCallsFit, InStep,
     CallFits, AppBarTypes
<1>2. CASE TaskbarCreated
  <2>1. explorer' \in {Unregistered, explorer} /\ native' \in {[native EXCEPT !.registered = FALSE], native}
        /\ call' \in {[step |-> "again"], call}
    BY <1>2 DEF TaskbarCreated
  <2>2. explorer' \in Explorers /\ StripNeedsRegistration'
    BY <1>0, <2>1, UnregisteredExplorer DEF AppBarTypes, StripNeedsRegistration
  <2>3. native' \in Natives /\ native'.proxy = native.proxy
    BY <1>0, <2>1 DEF AppBarTypes, Natives
  <2>4. call' \in CallsUnderway
    BY <1>0, <2>1 DEF AppBarTypes, CallsUnderway
  <2> QED
    BY <1>0, <1>1, <1>2, <2>1, <2>2, <2>3, <2>4, Constants DEF TaskbarCreated, AppBarInv, AppBarTypes, GrantedCallsFit,
       WindowComesBack
<1>3. CASE RecoveryLost
  <2>1. native' \in Natives /\ native'.proxy = native.proxy
    BY <1>0, <1>3 DEF RecoveryLost, AppBarTypes, Natives
  <2> QED
    BY <1>0, <1>1, <1>3, <2>1 DEF RecoveryLost, AppBarInv, AppBarTypes, StripNeedsRegistration, GrantedCallsFit,
       WindowComesBack
<1>4. CASE RegisterAgain
  <2>1. /\ native' \in Natives /\ native'.proxy = native.proxy /\ explorer' \in Explorers
        /\ StripNeedsRegistration'
    BY <1>0, <1>4 DEF RegisterAgain, AppBarTypes, Natives, Explorers, StripNeedsRegistration
  <2>2. call' \in CallsUnderway
    <3>1. [step |-> "reassert"] \in CallsUnderway
      BY DEF CallsUnderway
    <3> QED
      BY <1>4, <3>1, Constants DEF RegisterAgain, End
  <2> QED
    BY <1>0, <1>1, <1>4, <2>1, <2>2 DEF RegisterAgain, Calling, AppBarInv, AppBarTypes, GrantedCallsFit,
       WindowComesBack
<1>5. CASE ReassertAgain
  <2>1. screen.scale \in Int
    BY <1>0 DEF AppBarTypes
  <2> QED
    BY <1>0, <1>1, <1>5, <2>1, ReassertFits, Constants DEF ReassertAgain, Calling, End, AppBarInv, AppBarTypes,
       GrantedCallsFit, WindowComesBack
<1> QED
  BY <1>2, <1>3, <1>4, <1>5

LEMMA CloseKeeps == ASSUME AppBarInv, Shutdown \/ CloseBar PROVE AppBarInv'
<1>0. AppBarTypes /\ StripNeedsRegistration /\ GrantedCallsFit /\ WindowComesBack
  BY DEF AppBarInv
<1>1. call = NoCall /\ UNCHANGED <<screen, placed, call, kept>> /\ explorer' = Unregistered /\ wanted' = None
      /\ messages' \subseteq messages
  BY DEF Shutdown, CloseBar, Dismissed
<1>2. native' \in Natives /\ ~native'.proxy /\ native'.registered = FALSE
  <2>1. [Released EXCEPT !.proxy = FALSE] \in Natives /\ ~[Released EXCEPT !.proxy = FALSE].proxy
        /\ [Released EXCEPT !.proxy = FALSE].registered = FALSE
    BY <1>0, ReleasedNative DEF AppBarTypes, Natives
  <2>2. [native EXCEPT !.proxy = FALSE, !.registered = FALSE] \in Natives
        /\ ~[native EXCEPT !.proxy = FALSE, !.registered = FALSE].proxy
        /\ [native EXCEPT !.proxy = FALSE, !.registered = FALSE].registered = FALSE
    BY <1>0 DEF AppBarTypes, Natives
  <2> QED
    BY <2>1, <2>2 DEF Shutdown, CloseBar
<1>3. /\ explorer' \in Explorers /\ explorer'.up = explorer.up /\ explorer'.registered = FALSE
      /\ explorer'.strip = NoStrip
  BY <1>0, <1>1, UnregisteredExplorer DEF AppBarTypes
<1>4. AppBarTypes' /\ WindowComesBack' /\ StripNeedsRegistration'
  BY <1>0, <1>1, <1>2, <1>3 DEF AppBarTypes, WindowComesBack, StripNeedsRegistration
<1>5. GrantedCallsFit'
  BY <1>0, <1>1, <1>2, <1>3, Constants DEF GrantedCallsFit, InStep, CallFits
<1> QED
  BY <1>4, <1>5 DEF AppBarInv

LEMMA AppBarInvNext == AppBarInv /\ [AppBarNext]_appBarVars => AppBarInv'
<1> SUFFICES ASSUME AppBarInv, [AppBarNext]_appBarVars PROVE AppBarInv'
  OBVIOUS
<1>1. CASE UNCHANGED appBarVars
  BY <1>1 DEF appBarVars, AppBarInv, AppBarTypes, StripNeedsRegistration, GrantedCallsFit, InStep, CallFits,
     WindowComesBack
<1>2. CASE AppBarNext
  BY <1>2, OutsideKeeps, RequestKeeps, DeferKeeps, RegisterWithExplorerKeeps, QueryKeeps, CommitKeeps, UndoKeeps,
     RemoveKeeps, HandlerKeeps, RecoveryKeeps, CloseKeeps DEF AppBarNext
<1> QED
  BY <1>1, <1>2

\* Whenever the bar is at rest, Explorer keeps the strip free that was asked for last, if it
\* granted every call since and did not restart, and the bar's window is where it belongs:
\* for all strips, however messages overlap calls (native.rs:38, placement.rs:1).
THEOREM StripsAreWanted == AppBarSpec => []StripIsWanted
<1>1. AppBarInv => StripIsWanted
  BY Constants DEF AppBarInv, GrantedCallsFit, InStep, CallFits, WindowComesBack, StripIsWanted, AppBarQuiet
<1> QED
  BY <1>1, AppBarInvInit, AppBarInvNext, PTL DEF AppBarSpec

--------------------------------------------------------------------------------
(****************************************************************************)
(* AppShell.  Smabar's own registration writes the login entry once: it      *)
(* runs only in the start that found no marker, and a marker is saved        *)
(* before any choice of the user is carried out.  So at the moment it        *)
(* writes, nobody has decided anything, provided no worker of this process   *)
(* is at work yet.                                                           *)
(****************************************************************************)

LoginStatus == [state : {"ready", "failed"}, registered : {"on", "off", "none"}]
OpSteps == {"idle", "waiting", "status", "mark", "apply", "confirm", "done", "failed"}
Operation == [step : OpSteps, action : {"read", "set", "toggle"}, want : {"on", "off"}, version : Nat]
ShellPhases == {"down", "mark", "enable", "tray", "up", "exit"}

LoginTypes ==
    /\ entry \in {"on", "off", "broken"} /\ choice \in {"none", "on", "off"} /\ marker \in BOOLEAN
    /\ app \in [phase : ShellPhases, again : BOOLEAN, ended : {"never", "exit", "killed", "installer"}]
    /\ ops \in [Caller -> Operation]
    /\ pane \in [open : BOOLEAN, status : LoginStatus, revision : Nat, gated : BOOLEAN]
    /\ mail.events \in Seq(LoginStatus) /\ \A answer \in mail.replies : answer.status \in LoginStatus
    /\ DOMAIN mail = {"events", "replies"} /\ mail = [events |-> mail.events, replies |-> mail.replies]

\* Worker threads run only between the tray's setup and the end of the process.
StartsAlone == app.phase \in {"down", "mark", "enable", "tray"} => \A c \in Caller : ops[c] = Unasked
\* A decision about the entry is preceded by the marker.
DecidedAfterMarker ==
    /\ ~marker => choice = "none"
    /\ app.phase = "enable" => marker /\ choice = "none"
    /\ \A c \in Caller : ops[c].step = "apply" => marker

ShellInv == LoginTypes /\ StartsAlone /\ DecidedAfterMarker /\ StartsRespectTheUser

LEMMA ShellInvInit == ShellInit => ShellInv
<1> SUFFICES ASSUME ShellInit PROVE ShellInv
  OBVIOUS
<1>1. Unasked \in Operation
  BY DEF Unasked, Operation, OpSteps
<1>2. /\ entry \in {"on", "off", "broken"} /\ choice \in {"none", "on", "off"} /\ marker \in BOOLEAN
      /\ app \in [phase : ShellPhases, again : BOOLEAN, ended : {"never", "exit", "killed", "installer"}]
      /\ pane \in [open : BOOLEAN, status : LoginStatus, revision : Nat, gated : BOOLEAN]
  BY DEF ShellInit, ShellPhases, NoPage, Failed, LoginStatus
<1>3. mail = [events |-> <<>>, replies |-> {}] /\ ops \in [Caller -> Operation]
  BY <1>1 DEF ShellInit
<1>4. LoginTypes
  BY <1>2, <1>3 DEF LoginTypes
<1> QED
  BY <1>4 DEF ShellInit, ShellInv, StartsAlone, DecidedAfterMarker, StartsRespectTheUser, Unasked

LEMMA StatusTyped == ASSUME LoginTypes, NEW failed \in BOOLEAN PROVE ReadStatus(failed) \in LoginStatus
  BY DEF LoginTypes, ReadStatus, Read, Ready, Failed, LoginStatus

\* What a start does: only Enable decides, and it does so before any worker.
LEMMA Waiting ==
    ASSUME NEW o \in Operation
    PROVE  [o EXCEPT !.step = "waiting"] \in Operation /\ [o EXCEPT !.step = "waiting"].step = "waiting"
  BY DEF Operation, OpSteps

LEMMA OneOperation ==
    ASSUME NEW f \in [Caller -> Operation], NEW c \in Caller, NEW o \in Operation, o.step # "apply"
    PROVE  /\ [f EXCEPT ![c] = o] \in [Caller -> Operation]
           /\ \A d \in Caller : [f EXCEPT ![c] = o][d].step = "apply" => f[d].step = "apply"
  OBVIOUS

LEMMA LoginStartKeeps ==
    ASSUME ShellInv, StartApp \/ Initialize \/ Enable \/ SetupTray
    PROVE  ShellInv'
<1> USE DEF ShellInv, LoginTypes, StartsAlone, DecidedAfterMarker, StartsRespectTheUser, ShellPhases
<1>1. CASE StartApp
  BY <1>1 DEF StartApp, loginVars
<1>2. CASE Initialize
  <2>1. app' \in [phase : ShellPhases, again : BOOLEAN, ended : {"never", "exit", "killed", "installer"}]
    BY <1>2 DEF Initialize
  <2>2. marker' \in BOOLEAN /\ (marker => marker')
    BY <1>2 DEF Initialize, Marked
  <2>3. app'.phase = "enable" => marker' /\ choice = "none"
    BY <1>2 DEF Initialize, Marked
  <2>4. app'.phase \in {"tray", "enable"} /\ app.phase = "mark"
    BY <1>2 DEF Initialize
  <2>5. UNCHANGED <<entry, choice, ops, pane, mail>>
    BY <1>2 DEF Initialize
  <2> QED
    BY <2>1, <2>2, <2>3, <2>4, <2>5
<1>3. CASE Enable
  <2>1. choice = "none" /\ choice' = "on" /\ marker /\ app'.phase = "tray" /\ entry' \in {"on", "off", "broken"}
    BY <1>3 DEF Enable
  <2>2. app' \in [phase : ShellPhases, again : BOOLEAN, ended : {"never", "exit", "killed", "installer"}]
    BY <1>3 DEF Enable
  <2>3. UNCHANGED <<marker, ops, pane, mail>> /\ app.phase = "enable"
    BY <1>3 DEF Enable
  <2> QED
    BY <2>1, <2>2, <2>3
<1>4. CASE SetupTray
  <2>1. app'.phase = "up" /\ UNCHANGED <<entry, choice, marker, pane, mail>>
    BY <1>4 DEF SetupTray
  <2>2. app' \in [phase : ShellPhases, again : BOOLEAN, ended : {"never", "exit", "killed", "installer"}]
    BY <1>4 DEF SetupTray
  <2>3. ops' = [ops EXCEPT !["timer"] = [ops["timer"] EXCEPT !.step = "waiting"]]
    BY <1>4 DEF SetupTray
  <2>4. ops' \in [Caller -> Operation] /\ \A c \in Caller : ops'[c].step = "apply" => ops[c].step = "apply"
    <3> DEFINE waits == [ops["timer"] EXCEPT !.step = "waiting"]
    <3>1. "timer" \in Caller /\ ops \in [Caller -> Operation] /\ ops["timer"] \in Operation
      BY DEF Caller
    <3>2. waits \in Operation /\ waits.step = "waiting"
      BY ONLY <3>1, Waiting
    <3>3. ops' = [ops EXCEPT !["timer"] = waits]
      BY <2>3
    <3> HIDE DEF waits
    <3> QED
      BY ONLY <3>1, <3>2, <3>3, OneOperation
  <2> QED
    BY <2>1, <2>2, <2>4
<1> QED
  BY <1>1, <1>2, <1>3, <1>4

\* Whatever queues or answers a call decides nothing.
LEMMA LoginCallKeeps ==
    ASSUME ShellInv, Up, UNCHANGED <<entry, choice, marker, app>>,
           NEW c \in Caller, NEW op \in Operation, ops' = [ops EXCEPT ![c] = op], op.step # "apply",
           pane' \in [open : BOOLEAN, status : LoginStatus, revision : Nat, gated : BOOLEAN],
           UNCHANGED mail
    PROVE  ShellInv'
<1>1. ops' \in [Caller -> Operation] /\ \A d \in Caller : ops'[d].step = "apply" => ops[d].step = "apply"
  BY DEF ShellInv, LoginTypes
<1>2. LoginTypes'
  BY <1>1 DEF ShellInv, LoginTypes
<1> QED
  BY <1>1, <1>2 DEF ShellInv, StartsAlone, DecidedAfterMarker, StartsRespectTheUser, Up

LEMMA AskKeepsLogin ==
    ASSUME ShellInv, OpenPage \/ PageRefreshes \/ PageSets \/ TrayToggles \/ TimerTicks
    PROVE  ShellInv'
<1> DEFINE Panes == [open : BOOLEAN, status : LoginStatus, revision : Nat, gated : BOOLEAN]
<1>0. pane \in Panes /\ "page" \in Caller /\ "tray" \in Caller /\ "timer" \in Caller
  BY DEF ShellInv, LoginTypes, Caller
<1>1. ASSUME NEW action \in {"read", "set"}, NEW want \in {"on", "off"}, PageAsks(action, want) PROVE ShellInv'
  <2> DEFINE op == [step |-> "waiting", action |-> action, want |-> want, version |-> pane.revision + 1]
  <2>1. op \in Operation /\ op.step # "apply"
    BY <1>0 DEF Operation, OpSteps
  <2>2. pane' \in Panes /\ ops' = [ops EXCEPT !["page"] = op]
    BY <1>0, <1>1 DEF PageAsks, Queue
  <2>3. Up /\ UNCHANGED <<entry, choice, marker, app, mail>>
    BY <1>1 DEF PageAsks, exitVars
  <2> HIDE DEF op
  <2> QED
    BY <1>0, <2>1, <2>2, <2>3, LoginCallKeeps
<1>2. CASE OpenPage
  <2> DEFINE op == [step |-> "waiting", action |-> "read", want |-> "off", version |-> 1]
  <2>1. op \in Operation /\ op.step # "apply"
    BY DEF Operation, OpSteps
  <2>2. ops' = [ops EXCEPT !["page"] = op]
    BY <1>2 DEF OpenPage, Queue
  <2>3. pane' = [NoPage EXCEPT !.open = TRUE, !.revision = 1, !.gated = build.accepted < build.terms]
    BY <1>2 DEF OpenPage
  <2>4. ASSUME NEW gated \in BOOLEAN PROVE [NoPage EXCEPT !.open = TRUE, !.revision = 1, !.gated = gated] \in Panes
    BY DEF NoPage, Failed, LoginStatus
  <2>5. (build.accepted < build.terms) \in BOOLEAN
    OBVIOUS
  <2>6. pane' \in Panes
    BY <2>3, <2>4, <2>5
  <2>7. Up /\ UNCHANGED <<entry, choice, marker, app, mail>>
    BY <1>2 DEF OpenPage, exitVars
  <2> HIDE DEF op
  <2> QED
    BY <1>0, <2>1, <2>2, <2>6, <2>7, LoginCallKeeps
<1>3. CASE TrayToggles
  <2> DEFINE op == [step |-> "waiting", action |-> "toggle", want |-> "off", version |-> 0]
  <2>1. op \in Operation /\ op.step # "apply"
    BY DEF Operation, OpSteps
  <2>2. pane' \in Panes /\ ops' = [ops EXCEPT !["tray"] = op]
    BY <1>0, <1>3 DEF TrayToggles, Queue
  <2>3. Up /\ UNCHANGED <<entry, choice, marker, app, mail>>
    BY <1>3 DEF TrayToggles, exitVars
  <2> HIDE DEF op
  <2> QED
    BY <1>0, <2>1, <2>2, <2>3, LoginCallKeeps
<1>4. CASE TimerTicks
  <2> DEFINE op == [step |-> "waiting", action |-> "read", want |-> "off", version |-> 0]
  <2>1. op \in Operation /\ op.step # "apply"
    BY DEF Operation, OpSteps
  <2>2. pane' \in Panes /\ ops' = [ops EXCEPT !["timer"] = op]
    BY <1>0, <1>4 DEF TimerTicks, Queue
  <2>3. Up /\ UNCHANGED <<entry, choice, marker, app, mail>>
    BY <1>4 DEF TimerTicks, exitVars
  <2> HIDE DEF op
  <2> QED
    BY <1>0, <2>1, <2>2, <2>3, LoginCallKeeps
<1> QED
  BY <1>1, <1>2, <1>3, <1>4 DEF PageRefreshes, PageSets

\* A worker at work means that the tray was set up.
LEMMA WorkerFits ==
    ASSUME ShellInv, NEW c \in Caller, ops[c].step # "idle"
    PROVE  app.phase \notin {"down", "mark", "enable", "tray"}
  BY DEF ShellInv, StartsAlone, Unasked

LEMMA WorkerKeeps ==
    ASSUME ShellInv, NEW c \in Caller, TakeLock(c) \/ Mark(c) \/ Apply(c) \/ Confirm(c)
    PROVE  ShellInv'
<1>0. LoginTypes /\ StartsAlone /\ DecidedAfterMarker /\ StartsRespectTheUser /\ ops[c] \in Operation
  BY DEF ShellInv, LoginTypes
<1>1. ops[c].step # "idle" /\ UNCHANGED <<app, pane, mail>>
  BY DEF TakeLock, Mark, Apply, Confirm, exitVars
<1>2. app.phase \notin {"down", "mark", "enable", "tray"}
  BY <1>1, WorkerFits
<1>3. PICK op \in Operation : ops' = [ops EXCEPT ![c] = op] /\ (op.step = "apply" => Mark(c) /\ marker')
  <2>1. CASE TakeLock(c)
    <3> DEFINE step == IF ops[c].action = "read" THEN "status"
                       ELSE IF ops[c].action = "toggle" /\ Read = "none" THEN "failed" ELSE "mark"
               want == IF ops[c].action # "toggle" THEN ops[c].want ELSE IF Read = "on" THEN "off" ELSE "on"
               op == [ops[c] EXCEPT !.step = step, !.want = want]
    <3>1. ops' = [ops EXCEPT ![c] = op]
      BY <1>0, <2>1 DEF TakeLock, LoginTypes
    <3>2. step \in {"status", "failed", "mark"} /\ want \in {"on", "off"}
      BY <1>0 DEF Operation
    <3> HIDE DEF step, want
    <3>3. op \in Operation /\ op.step # "apply"
      BY <1>0, <3>2 DEF Operation, OpSteps
    <3> QED
      BY <3>1, <3>3
  <2>2. ASSUME NEW s \in OpSteps, To(c, s) PROVE /\ [ops[c] EXCEPT !.step = s] \in Operation
                                                 /\ [ops[c] EXCEPT !.step = s].step = s
                                                 /\ ops' = [ops EXCEPT ![c] = [ops[c] EXCEPT !.step = s]]
    BY <1>0, <2>2 DEF To, Operation, LoginTypes
  <2>3. CASE Mark(c)
    BY <2>2, <2>3 DEF Mark, OpSteps
  <2>4. CASE Apply(c)
    BY <2>2, <2>4 DEF Apply, OpSteps
  <2>5. CASE Confirm(c)
    BY <2>2, <2>5 DEF Confirm, OpSteps
  <2> QED
    BY <2>1, <2>3, <2>4, <2>5
<1>4. /\ entry' \in {"on", "off", "broken"} /\ choice' \in {"none", "on", "off"} /\ marker' \in BOOLEAN
      /\ choice' = "off" => entry' # "on"
      /\ marker => marker'
      /\ ~marker' => choice' = "none"
  <2>1. CASE Apply(c)
    <3>1. marker /\ marker' = marker /\ ops[c].want \in {"on", "off"}
      BY <1>0, <2>1 DEF Apply, DecidedAfterMarker, Operation
    <3>2. \/ entry' = ops[c].want /\ choice' = ops[c].want
          \/ entry' = entry /\ choice' = choice
      BY <2>1 DEF Apply
    <3> QED
      BY <1>0, <3>1, <3>2 DEF LoginTypes, StartsRespectTheUser
  <2>2. CASE Mark(c)
    BY <1>0, <2>2 DEF Mark, LoginTypes, StartsRespectTheUser, DecidedAfterMarker
  <2>3. CASE TakeLock(c) \/ Confirm(c)
    BY <1>0, <2>3 DEF TakeLock, Confirm, LoginTypes, StartsRespectTheUser, DecidedAfterMarker
  <2> QED
    BY <2>1, <2>2, <2>3
<1>5. ops' \in [Caller -> Operation]
  BY <1>0, <1>3 DEF LoginTypes
<1>6. LoginTypes'
  BY <1>0, <1>1, <1>4, <1>5 DEF LoginTypes
<1>7. \A d \in Caller : ops'[d].step = "apply" => marker'
  BY <1>0, <1>3, <1>4 DEF DecidedAfterMarker, LoginTypes
<1> QED
  BY <1>1, <1>2, <1>4, <1>6, <1>7 DEF ShellInv, StartsAlone, DecidedAfterMarker, StartsRespectTheUser

LEMMA LoginReportKeeps ==
    ASSUME ShellInv, NEW c \in Caller, Report(c)
    PROVE  ShellInv'
<1>0. LoginTypes
  BY DEF ShellInv
<1> DEFINE failed == ops[c].step = "failed" \/ (ops[c].step = "status" /\ known.failed)
           status == ReadStatus(failed)
<1>1. status \in LoginStatus
  <2>1. ReadStatus(TRUE) \in LoginStatus /\ ReadStatus(FALSE) \in LoginStatus
    BY <1>0, StatusTyped
  <2>2. CASE failed
    BY <1>0, <2>2 DEF LoginTypes, ReadStatus, Read, Ready, Failed, LoginStatus
  <2>3. CASE ~failed
    BY <1>0, <2>3 DEF LoginTypes, ReadStatus, Read, Ready, Failed, LoginStatus
  <2> QED
    BY <2>2, <2>3
<1>2. /\ mail' = [events |-> mail'.events, replies |-> mail'.replies]
      /\ mail'.events \in {mail.events, Append(mail.events, status)}
      /\ \A answer \in mail'.replies : answer \in mail.replies \/ answer.status = status
  BY DEF Report
<1>3. mail'.events \in Seq(LoginStatus) /\ \A answer \in mail'.replies : answer.status \in LoginStatus
  <2> HIDE DEF status
  <2> QED
    BY <1>0, <1>1, <1>2 DEF LoginTypes
<1>4. DOMAIN mail' = {"events", "replies"}
  BY <1>2
<1>5. ops' = [ops EXCEPT ![c] = Unasked] /\ UNCHANGED <<entry, choice, marker, pane, app>> /\ ops[c].step # "idle"
  BY DEF Report, exitVars
<1>6. Unasked \in Operation /\ Unasked.step = "idle"
  BY DEF Unasked, Operation, OpSteps
<1>7. ops' \in [Caller -> Operation] /\ \A d \in Caller : ops'[d].step = "apply" => ops[d].step = "apply"
  BY <1>0, <1>5, <1>6 DEF LoginTypes
<1>8. LoginTypes'
  BY <1>0, <1>2, <1>3, <1>4, <1>5, <1>7 DEF LoginTypes
<1>9. app'.phase \notin {"down", "mark", "enable", "tray"}
  BY <1>5, WorkerFits
<1> QED
  BY <1>5, <1>7, <1>8, <1>9 DEF ShellInv, StartsAlone, DecidedAfterMarker, StartsRespectTheUser

LEMMA LoginPageKeeps ==
    ASSUME ShellInv, HearChange \/ HearReply \/ EditEntry \/ Accept
    PROVE  ShellInv'
<1>0. LoginTypes
  BY DEF ShellInv
<1>1. CASE HearChange
  <2>1. Head(mail.events) \in LoginStatus /\ Tail(mail.events) \in Seq(LoginStatus)
    BY <1>0, <1>1 DEF HearChange, LoginTypes
  <2>2. mail' = [events |-> Tail(mail.events), replies |-> mail.replies]
    BY <1>0, <1>1 DEF HearChange, LoginTypes
  <2>6. pane \in [open : BOOLEAN, status : LoginStatus, revision : Nat, gated : BOOLEAN] /\ pane.revision + 1 \in Nat
    BY <1>0 DEF LoginTypes
  <2>5. ASSUME NEW status \in LoginStatus, NEW revision \in Nat
        PROVE  [pane EXCEPT !.status = status, !.revision = revision]
                   \in [open : BOOLEAN, status : LoginStatus, revision : Nat, gated : BOOLEAN]
    BY <2>6
  <2>3. pane' \in [open : BOOLEAN, status : LoginStatus, revision : Nat, gated : BOOLEAN]
    BY <1>1, <2>1, <2>5, <2>6 DEF HearChange
  <2>4. UNCHANGED <<entry, choice, marker, ops, app>>
    BY <1>1 DEF HearChange, exitVars
  <2> QED
    BY <1>0, <2>1, <2>2, <2>3, <2>4 DEF ShellInv, LoginTypes, StartsAlone, DecidedAfterMarker, StartsRespectTheUser
<1>2. CASE HearReply
  <2>1. mail' = [events |-> mail.events, replies |-> {}]
    BY <1>0, <1>2 DEF HearReply, LoginTypes
  <2>2. pane' \in [open : BOOLEAN, status : LoginStatus, revision : Nat, gated : BOOLEAN]
    BY <1>0, <1>2 DEF HearReply, LoginTypes
  <2>3. UNCHANGED <<entry, choice, marker, ops, app>>
    BY <1>2 DEF HearReply, exitVars
  <2> QED
    BY <1>0, <2>1, <2>2, <2>3 DEF ShellInv, LoginTypes, StartsAlone, DecidedAfterMarker, StartsRespectTheUser
<1>3. CASE EditEntry
  <2>1. UNCHANGED <<marker, ops, app, pane, mail>>
    BY <1>3 DEF EditEntry, exitVars
  <2>2. /\ entry' \in {"on", "off", "broken"} /\ choice' \in {"none", "on", "off"}
        /\ (choice = "none" => choice' = "none") /\ (choice' = "off" => entry' # "on")
    BY <1>0, <1>3 DEF EditEntry, LoginTypes
  <2> QED
    BY <1>0, <2>1, <2>2 DEF ShellInv, LoginTypes, StartsAlone, DecidedAfterMarker, StartsRespectTheUser
<1>4. CASE Accept
  <2>1. UNCHANGED <<entry, choice, marker, ops, app, mail>>
    BY <1>4 DEF Accept
  <2>2. pane' \in [open : BOOLEAN, status : LoginStatus, revision : Nat, gated : BOOLEAN]
    BY <1>0, <1>4 DEF Accept, LoginTypes
  <2> QED
    BY <1>0, <2>1, <2>2 DEF ShellInv, LoginTypes, StartsAlone, DecidedAfterMarker, StartsRespectTheUser
<1> QED
  BY <1>1, <1>2, <1>3, <1>4

\* The end of a process takes its workers with it, and what they had in hand.
LEMMA LoginEndKeeps ==
    ASSUME ShellInv, NEW how \in {"exit", "killed", "installer"}, NEW again \in BOOLEAN, Ends(how, again)
    PROVE  ShellInv'
<1>1. Unasked \in Operation /\ Unasked.step = "idle"
  BY DEF Unasked, Operation, OpSteps
<1>2. /\ ops' = [c \in Caller |-> Unasked] /\ pane' = NoPage /\ mail' = [events |-> <<>>, replies |-> {}]
      /\ app' = [phase |-> "down", again |-> again, ended |-> how] /\ UNCHANGED <<entry, choice, marker>>
  BY DEF Ends, Volatile
<1>3. LoginTypes'
  BY <1>1, <1>2 DEF ShellInv, LoginTypes, ShellPhases, NoPage, Failed, LoginStatus
<1>4. \A c \in Caller : ops'[c] = Unasked
  BY <1>2
<1> QED
  BY <1>1, <1>2, <1>3, <1>4 DEF ShellInv, StartsAlone, DecidedAfterMarker, StartsRespectTheUser

LEMMA LeaveKeeps ==
    ASSUME ShellInv, \/ ReportPlace \/ Quit \/ Exit \/ Gone \/ Deadline \/ KillApp \/ Reaped
                     \/ \E name \in {"quit", "exit", "update"} : StopPlugins(name) \/ ReleaseStrip(name)
                     \/ Offer \/ InstallUpdate \/ UpdateFails \/ Downloaded \/ OpenPackage \/ Install \/ InstallFails
    PROVE  ShellInv'
<1>0. LoginTypes /\ app.again \in BOOLEAN
  BY DEF ShellInv, LoginTypes
<1>1. ASSUME UNCHANGED loginVars,
             app' \in [phase : ShellPhases, again : BOOLEAN, ended : {"never", "exit", "killed", "installer"}],
             app'.phase \in {app.phase, "exit"}
      PROVE  ShellInv'
  BY <1>0, <1>1 DEF loginVars, ShellInv, LoginTypes, StartsAlone, DecidedAfterMarker, StartsRespectTheUser
<1>2. CASE ReportPlace \/ Reaped \/ Offer \/ InstallUpdate \/ UpdateFails \/ InstallFails
  <2>1. UNCHANGED <<loginVars, app>>
    BY <1>2 DEF ReportPlace, Reaped, Offer, InstallUpdate, UpdateFails, InstallFails
  <2> QED
    BY <1>0, <1>1, <2>1 DEF LoginTypes
<1>3. CASE Downloaded \/ OpenPackage \/ \E name \in {"quit", "exit", "update"} : StopPlugins(name) \/ ReleaseStrip(name)
  <2>1. UNCHANGED <<loginVars, app>>
    BY <1>3 DEF Downloaded, OpenPackage, StopPlugins, ReleaseStrip, Leaving
  <2> QED
    BY <1>0, <1>1, <2>1 DEF LoginTypes
<1>4. CASE Quit \/ Exit
  <2>1. UNCHANGED loginVars
    BY <1>4 DEF Quit, Exit, Leaving
  <2>2. \/ \E again \in BOOLEAN : app' = [app EXCEPT !.again = again]
        \/ app' = [app EXCEPT !.phase = "exit"]
    BY <1>4 DEF Quit, Exit
  <2> QED
    BY <1>0, <1>1, <2>1, <2>2 DEF LoginTypes, ShellPhases
<1>5. CASE Gone \/ Deadline \/ KillApp
  BY <1>0, <1>5, LoginEndKeeps DEF Gone, Deadline, KillApp
<1>6. CASE Install
  <2>1. CASE Ends("installer", TRUE)
    BY <2>1, LoginEndKeeps
  <2>2. CASE app' = [app EXCEPT !.again = TRUE] /\ UNCHANGED loginVars
    BY <1>0, <1>1, <2>2 DEF LoginTypes, ShellPhases
  <2> QED
    BY <1>6, <2>1, <2>2 DEF Install
<1> QED
  BY <1>2, <1>3, <1>4, <1>5, <1>6

LEMMA ShellInvNext == ShellInv /\ [ShellNext]_shellVars => ShellInv'
<1> SUFFICES ASSUME ShellInv, [ShellNext]_shellVars PROVE ShellInv'
  OBVIOUS
<1>1. CASE ShellNext
  BY <1>1, LoginStartKeeps, AskKeepsLogin, WorkerKeeps, LoginReportKeeps, LoginPageKeeps, LeaveKeeps DEF ShellNext
<1>2. CASE UNCHANGED shellVars
  BY <1>2 DEF shellVars, loginVars, exitVars, ShellInv, LoginTypes, StartsAlone, DecidedAfterMarker, StartsRespectTheUser
<1> QED
  BY <1>1, <1>2

\* A start registers smabar once: whoever took the entry away is not overruled by the next
\* start, whatever crashed or failed in between (autostart.rs, initialize).
THEOREM UsersChoiceStands == ShellSpec => []StartsRespectTheUser
<1>1. ShellInv => StartsRespectTheUser
  BY DEF ShellInv
<1> QED
  BY ShellInvInit, ShellInvNext, <1>1, PTL DEF ShellSpec

--------------------------------------------------------------------------------
(****************************************************************************)
(* SettingsCapture.  Ids are given out in order and the page gets its        *)
(* events in the order they were sent: while the core waits for a reply      *)
(* the request under way is the last event there is, so nothing is staged    *)
(* after it.                                                                 *)
(****************************************************************************)

ShotSteps == {"idle", "picture", "open", "wake", "emit", "await", "render", "release", "restore", "commanded"}
PageEvents == [event : {"capture", "release"}, id : Nat]
CaptureTypes ==
    /\ shot \in [step : ShotSteps, id : Nat, attempt : Nat]
    /\ queue \in Seq([from : Request, kind : {"picture", "open"}])
    /\ inbox \in Seq(PageEvents)
    /\ painting \in [active : SUBSET Nat, cancelled : SUBSET Nat]
    /\ shot.step # "idle" => queue # <<>>

\* The page knows no id that was not given out; the core awaits the newest alone.
IdsAreGiven ==
    /\ \A id \in pending : id = shot.id
    /\ \A id \in painting.active : id <= shot.id
    /\ \A i \in DOMAIN inbox : inbox[i].id <= shot.id
\* A reply ends the waiting; between two requests nobody waits.
OneIsAwaited ==
    /\ shot.step \in {"idle", "picture", "open", "restore"} => pending = {}
    /\ shot.step = "commanded" /\ reply # "none" => pending = {}
\* Before it is sent, nothing of the request is on the page.
NotYetSent ==
    shot.step \in {"wake", "emit"} =>
        /\ reply # "measured"
        /\ \A id \in painting.active : id < shot.id
        /\ \A i \in DOMAIN inbox : inbox[i].id < shot.id
\* Once it is sent it is the last event, and it is staged from then on.
LastOfAll ==
    shot.step = "await" =>
        /\ \A i \in DOMAIN inbox : inbox[i].id = shot.id => i = Len(inbox)
        /\ shot.id \in painting.active \/ reply = "measured" => inbox = <<>> /\ staged = shot.id
StagedAlone == shot.step = "render" => inbox = <<>> /\ staged = shot.id

CaptureInv == CaptureTypes /\ IdsAreGiven /\ OneIsAwaited /\ NotYetSent /\ LastOfAll /\ StagedAlone

LEMMA CaptureInvInit == SettingsInit => CaptureInv
<1> SUFFICES ASSUME SettingsInit PROVE CaptureInv
  OBVIOUS
<1>1. CaptureTypes
  BY DEF SettingsInit, CaptureTypes, NoShot, ShotSteps
<1> QED
  BY <1>1 DEF SettingsInit, CaptureInv, IdsAreGiven, OneIsAwaited, NotYetSent, LastOfAll, StagedAlone, NoShot

\* The window's threads leave the pictures alone, but for the reply to a request to open.
LEMMA WindowKeeps ==
    ASSUME CaptureInv, UNCHANGED <<queue, shot, inbox, staged, painting>>,
           pending' \subseteq pending, reply' \in {reply, "done"}, reply' # reply => pending' = {}
    PROVE  CaptureInv'
  BY DEF CaptureInv, CaptureTypes, IdsAreGiven, OneIsAwaited, NotYetSent, LastOfAll, StagedAlone

LEMMA ThreadsKeep ==
    ASSUME CaptureInv,
           \/ CloseSettings \/ MarkReady \/ Requested \/ Conceal
           \/ \E t \in Worker : OpenSettings(t) \/ ToggleSettings(t) \/ OpenCheck(t)
           \/ \E t \in Worker \cup {Main} : RaiseSettings(t) \/ HideSettings(t) \/ ForgetGroup(t) \/ ReadState(t) \/ ReportState(t)
           \/ \E r \in Request : SendTimesOut(r)
    PROVE  CaptureInv'
<1>1. CASE UNCHANGED captureVars
  BY <1>1, WindowKeeps DEF captureVars
<1>2. ASSUME NEW t \in Worker \cup {Main}, ReportState(t) PROVE CaptureInv'
  <2> DEFINE id == tasks[t].for
  <2>1. /\ pending' = pending \ {id} /\ reply' = IF id \in pending THEN "done" ELSE reply
        /\ UNCHANGED <<queue, shot, inbox, staged, painting>>
    BY <1>2 DEF ReportState, Resolve
  <2>2. \A other \in pending : other = shot.id
    BY DEF CaptureInv, IdsAreGiven
  <2> HIDE DEF id
  <2> QED
    BY <2>1, <2>2, WindowKeeps
<1>3. ASSUME NEW r \in Request, SendTimesOut(r) PROVE CaptureInv'
  BY <1>3, WindowKeeps DEF SendTimesOut, Page
<1> QED
  BY <1>1, <1>2, <1>3 DEF CloseSettings, MarkReady, Requested, Conceal, OpenSettings, ToggleSettings, OpenCheck,
     RaiseSettings, HideSettings, ForgetGroup, ReadState

LEMMA FirstOf ==
    ASSUME NEW R, NEW q \in Seq(R), q # <<>>
    PROVE  Head(q) \in R /\ Tail(q) \in Seq(R)
  OBVIOUS

LEMMA ShotParts ==
    ASSUME CaptureInv, NEW s \in ShotSteps, NEW attempt \in Nat
    PROVE  /\ shot = [step |-> shot.step, id |-> shot.id, attempt |-> shot.attempt]
           /\ [shot EXCEPT !.step = s, !.attempt = attempt] = [step |-> s, id |-> shot.id, attempt |-> attempt]
           /\ [shot EXCEPT !.attempt = attempt] = [step |-> shot.step, id |-> shot.id, attempt |-> attempt]
<1> DEFINE R == [step : ShotSteps, id : Nat, attempt : Nat]
<1>1. shot \in R
  BY DEF CaptureInv, CaptureTypes
<1>2. shot = [step |-> shot.step, id |-> shot.id, attempt |-> shot.attempt]
  BY <1>1
<1>3. [shot EXCEPT !.attempt = attempt] = [step |-> shot.step, id |-> shot.id, attempt |-> attempt]
  BY <1>1
<1>4. [shot EXCEPT !.step = s, !.attempt = attempt] \in R
  BY <1>1
<1>5. /\ [shot EXCEPT !.step = s, !.attempt = attempt].step = s
      /\ [shot EXCEPT !.step = s, !.attempt = attempt].id = shot.id
      /\ [shot EXCEPT !.step = s, !.attempt = attempt].attempt = attempt
  BY <1>1
<1>6. ASSUME NEW r \in R PROVE r = [step |-> r.step, id |-> r.id, attempt |-> r.attempt]
  OBVIOUS
<1>7. [shot EXCEPT !.step = s, !.attempt = attempt] = [step |-> s, id |-> shot.id, attempt |-> attempt]
  <2> HIDE DEF R
  <2>1. PICK r \in R : r = [shot EXCEPT !.step = s, !.attempt = attempt]
    BY <1>4
  <2>2. r = [step |-> r.step, id |-> r.id, attempt |-> r.attempt]
    BY <1>6
  <2>3. r.step = s /\ r.id = shot.id /\ r.attempt = attempt
    BY <1>5, <2>1
  <2> QED
    BY <2>1, <2>2, <2>3
<1> QED
  BY <1>2, <1>3, <1>7

LEMMA EndOfQueue ==
    ASSUME CaptureInv, shot.step # "idle"
    PROVE  Tail(queue) \in Seq([from : Request, kind : {"picture", "open"}])
<1> DEFINE R == [from : Request, kind : {"picture", "open"}]
<1>1. queue \in Seq(R) /\ queue # <<>>
  BY DEF CaptureInv, CaptureTypes
<1> HIDE DEF R
<1>2. Tail(queue) \in Seq(R)
  BY <1>1
<1> QED
  BY <1>2 DEF R

\* A step of the core that gives out no id and sends nothing.
LEMMA ServeKeeps ==
    ASSUME CaptureInv, NEW s \in ShotSteps, NEW attempt \in Nat,
           shot' = [shot EXCEPT !.step = s, !.attempt = attempt],
           queue' \in Seq([from : Request, kind : {"picture", "open"}]),
           pending' \subseteq pending, UNCHANGED <<inbox, staged, painting>>,
           s = "emit" => shot.step = "wake" /\ reply' = reply,
           s = "render" => shot.step = "await" /\ reply = "measured",
           s \notin {"wake", "await"}, s \in {"idle", "picture", "open", "restore"} => pending' = {},
           s # "commanded", s # "idle" => queue' # <<>>
    PROVE  CaptureInv'
<1>1. shot' \in [step : ShotSteps, id : Nat, attempt : Nat] /\ shot'.id = shot.id /\ shot'.step = s
  BY DEF CaptureInv, CaptureTypes
<1>2. CaptureTypes' /\ IdsAreGiven'
  BY <1>1 DEF CaptureInv, CaptureTypes, IdsAreGiven
<1>3. NotYetSent' /\ LastOfAll' /\ OneIsAwaited'
  BY <1>1 DEF CaptureInv, NotYetSent, LastOfAll, OneIsAwaited
<1>4. StagedAlone'
  BY <1>1 DEF CaptureInv, LastOfAll, StagedAlone
<1> QED
  BY <1>2, <1>3, <1>4 DEF CaptureInv

\* A new id is known to nobody.
LEMMA ShotBeginKeeps ==
    ASSUME CaptureInv, NEW s \in {"wake", "commanded"}, Begin(s), shot.step \in {"picture", "open"},
           UNCHANGED <<queue, inbox, staged, painting>>
    PROVE  CaptureInv'
<1>1. /\ shot' \in [step : ShotSteps, id : Nat, attempt : Nat] /\ shot'.id = shot.id + 1 /\ shot'.step = s
      /\ shot.id \in Nat
  <2>1. shot \in [step : ShotSteps, id : Nat, attempt : Nat] /\ s \in ShotSteps
    BY DEF CaptureInv, CaptureTypes, ShotSteps
  <2>2. shot' = [shot EXCEPT !.step = s, !.id = shot.id + 1]
    BY DEF Begin
  <2>3. shot.id \in Nat /\ shot.id + 1 \in Nat
    BY <2>1
  <2>4. ASSUME NEW id \in Nat
        PROVE  /\ [shot EXCEPT !.step = s, !.id = id] \in [step : ShotSteps, id : Nat, attempt : Nat]
               /\ [shot EXCEPT !.step = s, !.id = id].id = id /\ [shot EXCEPT !.step = s, !.id = id].step = s
    BY <2>1
  <2> QED
    BY <2>2, <2>3, <2>4
<1>2. CaptureTypes'
  BY <1>1 DEF CaptureInv, CaptureTypes
<1>3. \A id \in painting.active : id < shot'.id /\ id <= shot'.id
  <2>1. painting.active \subseteq Nat
    BY DEF CaptureInv, CaptureTypes
  <2> QED
    BY <1>1, <2>1 DEF CaptureInv, IdsAreGiven
<1>4. ASSUME NEW i \in DOMAIN inbox PROVE inbox[i].id < shot'.id /\ inbox[i].id <= shot'.id
  <2>1. inbox[i] \in PageEvents
    BY DEF CaptureInv, CaptureTypes
  <2>2. inbox[i].id \in Nat /\ inbox[i].id <= shot.id
    BY <2>1 DEF CaptureInv, IdsAreGiven, PageEvents
  <2> QED
    BY <1>1, <2>2
<1>5. reply' = "none" /\ pending' = {shot.id + 1}
  BY DEF Begin, CaptureInv, OneIsAwaited
<1>6. IdsAreGiven' /\ NotYetSent'
  BY <1>1, <1>3, <1>4, <1>5 DEF IdsAreGiven, NotYetSent
<1> QED
  BY <1>1, <1>2, <1>5, <1>6 DEF CaptureInv, OneIsAwaited, LastOfAll, StagedAlone

\* What is sent to the page is sent last.
LEMMA AppendedEvent ==
    ASSUME CaptureInv, NEW kind \in {"capture", "release"},
           inbox' = Append(inbox, [event |-> kind, id |-> shot.id])
    PROVE  /\ inbox' \in Seq(PageEvents) /\ Len(inbox') = Len(inbox) + 1 /\ inbox'[Len(inbox) + 1].id = shot.id
           /\ \A i \in DOMAIN inbox' : i = Len(inbox) + 1 \/ (i \in DOMAIN inbox /\ inbox'[i] = inbox[i])
<1> DEFINE event == [event |-> kind, id |-> shot.id]
<1>1. event \in PageEvents /\ inbox \in Seq(PageEvents) /\ event.id = shot.id
  BY DEF CaptureInv, CaptureTypes, PageEvents
<1> HIDE DEF event
<1>2. inbox' = Append(inbox, event)
  BY DEF event
<1> QED
  BY <1>1, <1>2

LEMMA EmitKeeps ==
    ASSUME CaptureInv, Emit
    PROVE  CaptureInv'
<1>1. /\ shot' = [shot EXCEPT !.step = "await"] /\ shot.step = "emit"
      /\ inbox' = Append(inbox, [event |-> "capture", id |-> shot.id])
      /\ UNCHANGED <<queue, pending, reply, staged, painting>>
  BY DEF Emit, Doing
<1>2. shot' \in [step : ShotSteps, id : Nat, attempt : Nat] /\ shot'.id = shot.id /\ shot'.step = "await" /\ shot.id \in Nat
  BY <1>1 DEF CaptureInv, CaptureTypes, ShotSteps
<1>3. /\ inbox' \in Seq(PageEvents) /\ Len(inbox') = Len(inbox) + 1 /\ inbox'[Len(inbox) + 1].id = shot.id
      /\ \A i \in DOMAIN inbox' : i = Len(inbox) + 1 \/ (i \in DOMAIN inbox /\ inbox'[i] = inbox[i])
  BY <1>1, AppendedEvent
<1>4. CaptureTypes'
  BY <1>1, <1>2, <1>3 DEF CaptureInv, CaptureTypes
<1>5. IdsAreGiven'
  BY <1>1, <1>2, <1>3 DEF CaptureInv, IdsAreGiven
<1>6. \A i \in DOMAIN inbox : inbox[i].id # shot.id
  BY <1>1, <1>2 DEF CaptureInv, NotYetSent
<1>7. shot.id \notin painting.active /\ reply # "measured"
  BY <1>1, <1>2 DEF CaptureInv, NotYetSent
<1>8. LastOfAll'
  BY <1>1, <1>2, <1>3, <1>6, <1>7 DEF LastOfAll
<1> QED
  BY <1>1, <1>2, <1>4, <1>5, <1>8 DEF CaptureInv, OneIsAwaited, NotYetSent, StagedAlone

LEMMA ReleaseKeeps ==
    ASSUME CaptureInv, ReleasePage
    PROVE  CaptureInv'
<1>1. /\ shot' = [shot EXCEPT !.step = "restore"] /\ shot.step = "release" /\ pending' = pending \ {shot.id}
      /\ inbox' = Append(inbox, [event |-> "release", id |-> shot.id])
      /\ UNCHANGED <<queue, reply, staged, painting>>
  BY DEF ReleasePage, Doing
<1>2. shot' \in [step : ShotSteps, id : Nat, attempt : Nat] /\ shot'.id = shot.id /\ shot'.step = "restore" /\ shot.id \in Nat
  BY <1>1 DEF CaptureInv, CaptureTypes, ShotSteps
<1>3. /\ inbox' \in Seq(PageEvents) /\ Len(inbox') = Len(inbox) + 1 /\ inbox'[Len(inbox) + 1].id = shot.id
      /\ \A i \in DOMAIN inbox' : i = Len(inbox) + 1 \/ (i \in DOMAIN inbox /\ inbox'[i] = inbox[i])
  BY <1>1, AppendedEvent
<1>4. CaptureTypes'
  BY <1>1, <1>2, <1>3 DEF CaptureInv, CaptureTypes
<1>5. IdsAreGiven' /\ pending' = {}
  BY <1>1, <1>2, <1>3 DEF CaptureInv, IdsAreGiven
<1> QED
  BY <1>2, <1>4, <1>5 DEF CaptureInv, OneIsAwaited, NotYetSent, LastOfAll, StagedAlone

LEMMA RequestsKeep ==
    ASSUME CaptureInv, \/ \E r \in Request, kind \in {"picture", "open"} : SendShot(r, kind)
                       \/ Receive \/ Screenshot \/ \E t \in Worker : UiState(t)
    PROVE  CaptureInv'
<1> DEFINE Queues == Seq([from : Request, kind : {"picture", "open"}])
<1>0. queue \in Queues /\ shot \in [step : ShotSteps, id : Nat, attempt : Nat]
  BY DEF CaptureInv, CaptureTypes
<1>1. ASSUME NEW r \in Request, NEW kind \in {"picture", "open"}, SendShot(r, kind) PROVE CaptureInv'
  <2>1. queue' = Append(queue, [from |-> r, kind |-> kind]) /\ UNCHANGED <<shot, pending, reply, inbox, staged, painting>>
    BY <1>1 DEF SendShot, Page
  <2>2. queue' \in Queues /\ queue' # <<>>
    BY <1>0, <2>1
  <2> QED
    BY <2>1, <2>2 DEF CaptureInv, CaptureTypes, IdsAreGiven, OneIsAwaited, NotYetSent, LastOfAll, StagedAlone
<1>2. CASE Receive
  <2> DEFINE s == Head(queue).kind
  <2>1. s \in {"picture", "open"}
    <3> DEFINE R == [from : Request, kind : {"picture", "open"}]
    <3>1. queue \in Seq(R) /\ queue # <<>>
      BY <1>0, <1>2 DEF Receive
    <3>2. Head(queue) \in R
      BY <3>1, FirstOf
    <3> QED
      BY <3>2
  <2>2. shot' = [step |-> s, id |-> shot.id, attempt |-> 0] /\ UNCHANGED <<queue, pending, reply, inbox, staged, painting>>
    BY <1>2 DEF Receive, Page
  <2> HIDE DEF s
  <2>3. shot' = [shot EXCEPT !.step = s, !.attempt = 0] /\ s \in ShotSteps
    <3>1. s \in ShotSteps /\ 0 \in Nat
      BY <2>1 DEF ShotSteps
    <3>2. [shot EXCEPT !.step = s, !.attempt = 0] = [step |-> s, id |-> shot.id, attempt |-> 0]
      BY <3>1, ShotParts
    <3> QED
      BY <2>2, <3>1, <3>2
  <2>4. pending' = {} /\ queue' # <<>>
    BY <1>2, <2>2 DEF Receive, CaptureInv, OneIsAwaited
  <2> QED
    BY <1>0, <2>1, <2>2, <2>3, <2>4, ServeKeeps
<1>3. CASE Screenshot
  <2>0. shot.step = "picture" /\ pending = {} /\ queue # <<>> /\ UNCHANGED <<inbox, staged, painting>>
    BY <1>3 DEF Screenshot, CaptureInv, CaptureTypes, OneIsAwaited, Page
  <2>1. CASE Respond("failed") /\ UNCHANGED <<pending, reply>>
    <3>1. shot' = [shot EXCEPT !.step = "idle"] /\ queue' = Tail(queue)
      BY <2>1 DEF Respond, Doing
    <3>2. shot' = [shot EXCEPT !.step = "idle", !.attempt = shot.attempt] /\ "idle" \in ShotSteps /\ shot.attempt \in Nat
      BY <1>0, <3>1 DEF ShotSteps
    <3>3. queue' \in Queues
      BY <2>0, <3>1, EndOfQueue
    <3> QED
      BY <2>0, <2>1, <3>2, <3>3, ServeKeeps
  <2>2. CASE shot' = [shot EXCEPT !.attempt = @ + 1] /\ UNCHANGED <<queue, pending, reply>>
    <3>1. shot' = [shot EXCEPT !.step = "picture", !.attempt = shot.attempt + 1] /\ "picture" \in ShotSteps
          /\ shot.attempt + 1 \in Nat
      <4>0. shot.attempt + 1 \in Nat /\ "picture" \in ShotSteps
        BY <1>0 DEF ShotSteps
      <4>1. shot' = [shot EXCEPT !.attempt = shot.attempt + 1]
        BY <2>2
      <4>2. shot' = [step |-> "picture", id |-> shot.id, attempt |-> shot.attempt + 1]
        BY <2>0, <4>0, <4>1, ShotParts
      <4>3. [shot EXCEPT !.step = "picture", !.attempt = shot.attempt + 1]
                = [step |-> "picture", id |-> shot.id, attempt |-> shot.attempt + 1]
        BY <4>0, ShotParts
      <4> QED
        BY <1>0, <4>2, <4>3 DEF ShotSteps
    <3> QED
      BY <1>0, <2>0, <2>2, <3>1, ServeKeeps
  <2>3. CASE Begin("wake") /\ UNCHANGED queue
    BY <2>0, <2>3, ShotBeginKeeps
  <2> QED
    BY <1>3, <2>1, <2>2, <2>3 DEF Screenshot
<1>4. ASSUME NEW t \in Worker, UiState(t) PROVE CaptureInv'
  BY <1>4, ShotBeginKeeps DEF UiState, Page
<1> QED
  BY <1>1, <1>2, <1>3, <1>4

LEMMA ReplyKeeps ==
    ASSUME CaptureInv, Wake \/ Reply \/ ReplyTimesOut \/ TakePicture \/ Restore \/ Commanded
    PROVE  CaptureInv'
<1> DEFINE Queues == Seq([from : Request, kind : {"picture", "open"}])
<1>0. /\ queue \in Queues /\ shot \in [step : ShotSteps, id : Nat, attempt : Nat] /\ shot.attempt \in Nat
      /\ UNCHANGED <<inbox, staged, painting>> /\ shot.step # "idle" /\ queue # <<>>
      /\ \A id \in pending : id = shot.id
  BY DEF CaptureInv, CaptureTypes, Wake, Reply, ReplyTimesOut, TakePicture, Restore, Commanded, Page, IdsAreGiven
<1>1. ASSUME NEW s \in ShotSteps, Doing(s) PROVE shot' = [shot EXCEPT !.step = s, !.attempt = shot.attempt]
  BY <1>0, <1>1 DEF Doing
<1>2. ASSUME NEW answer, Respond(answer), pending' = {} PROVE CaptureInv'
  <2>1. queue' \in Queues
    BY <1>0, <1>2, EndOfQueue DEF Respond
  <2>2. shot' = [shot EXCEPT !.step = "idle", !.attempt = shot.attempt] /\ "idle" \in ShotSteps
    BY <1>1, <1>2 DEF Respond, ShotSteps
  <2> QED
    BY <1>0, <1>2, <2>1, <2>2, ServeKeeps
<1>3. CASE Wake
  <2>1. PICK s \in {"emit", "release"} : Doing(s) /\ UNCHANGED <<queue, pending, reply>> /\ shot.step = "wake"
    BY <1>3 DEF Wake
  <2>2. s \in ShotSteps /\ shot' = [shot EXCEPT !.step = s, !.attempt = shot.attempt]
    BY <1>1, <2>1 DEF ShotSteps
  <2> QED
    BY <1>0, <2>1, <2>2, ServeKeeps
<1>4. CASE Reply
  <2>1. PICK s \in {"render", "release"} : /\ Doing(s) /\ UNCHANGED <<queue, pending, reply>> /\ shot.step = "await"
                                           /\ s = "render" => reply = "measured"
    BY <1>4 DEF Reply
  <2>2. s \in ShotSteps /\ shot' = [shot EXCEPT !.step = s, !.attempt = shot.attempt]
    BY <1>1, <2>1 DEF ShotSteps
  <2> QED
    BY <1>0, <2>1, <2>2, ServeKeeps
<1>5. CASE ReplyTimesOut
  <2>1. pending' = {} /\ pending' \subseteq pending
    BY <1>0, <1>5 DEF ReplyTimesOut, Forgotten
  <2>2. CASE Doing("release") /\ UNCHANGED queue
    BY <1>0, <1>1, <2>1, <2>2, ServeKeeps DEF ShotSteps
  <2> QED
    BY <1>2, <1>5, <2>1, <2>2 DEF ReplyTimesOut
<1>6. CASE TakePicture
  <2>1. Doing("release") /\ UNCHANGED <<queue, pending>> /\ "release" \in ShotSteps
    BY <1>6 DEF TakePicture, ShotSteps
  <2> QED
    BY <1>0, <1>1, <2>1, ServeKeeps
<1>7. CASE Restore
  <2>1. shot.step = "restore" /\ pending = {} /\ UNCHANGED <<pending, reply>>
    BY <1>7 DEF Restore, CaptureInv, OneIsAwaited
  <2>2. CASE shot' = [shot EXCEPT !.step = "picture", !.attempt = @ + 1] /\ UNCHANGED queue
    <3> DEFINE next == shot.attempt + 1
    <3>1. next \in Nat /\ shot' = [shot EXCEPT !.step = "picture", !.attempt = next]
      BY <1>0, <2>2
    <3> HIDE DEF next
    <3>2. "picture" \in ShotSteps /\ pending' = {} /\ pending' \subseteq pending /\ queue' \in Queues /\ queue' # <<>>
      BY <1>0, <2>1, <2>2 DEF ShotSteps
    <3> QED
      BY <1>0, <3>1, <3>2, ServeKeeps
  <2> QED
    BY <1>2, <1>7, <2>1, <2>2 DEF Restore
<1>8. CASE Commanded
  <2>1. Respond("opened") /\ pending' = {}
    BY <1>8 DEF Commanded, CaptureInv, OneIsAwaited
  <2> QED
    BY <1>2, <2>1
<1> QED
  BY <1>3, <1>4, <1>5, <1>6, <1>7, <1>8

\* An event leaves the inbox: those behind it move up.
LEMMA TakenEvent ==
    ASSUME CaptureInv, inbox # <<>>, inbox' = Tail(inbox)
    PROVE  /\ inbox' \in Seq(PageEvents) /\ Len(inbox') = Len(inbox) - 1 /\ Len(inbox) \in Nat \ {0}
           /\ \A i \in DOMAIN inbox' : i + 1 \in DOMAIN inbox /\ inbox'[i] = inbox[i + 1] /\ i \in Nat
           /\ 1 \in DOMAIN inbox /\ Head(inbox) = inbox[1] /\ Head(inbox) \in PageEvents
           /\ Len(inbox) = 1 => inbox' = <<>>
<1>1. inbox \in Seq(PageEvents)
  BY DEF CaptureInv, CaptureTypes
<1> QED
  BY <1>1

LEMMA PageTakes ==
    ASSUME CaptureInv, inbox # <<>>, inbox' = Tail(inbox), UNCHANGED <<queue, shot>>,
           painting' \in [active : SUBSET Nat, cancelled : SUBSET Nat],
           painting'.active \subseteq painting.active \cup {Head(inbox).id},
           pending' \subseteq pending, reply' \in {reply, "unknown"}, reply' # reply => pending' = {},
           Head(inbox).id \in painting'.active \ painting.active => staged' = Head(inbox).id
    PROVE  CaptureInv'
<1>0. /\ inbox' \in Seq(PageEvents) /\ Len(inbox') = Len(inbox) - 1 /\ Len(inbox) \in Nat \ {0}
      /\ \A i \in DOMAIN inbox' : i + 1 \in DOMAIN inbox /\ inbox'[i] = inbox[i + 1] /\ i \in Nat
      /\ 1 \in DOMAIN inbox /\ Head(inbox) = inbox[1] /\ Head(inbox) \in PageEvents
      /\ Len(inbox) = 1 => inbox' = <<>>
  BY TakenEvent
<1>1. CaptureTypes'
  BY <1>0 DEF CaptureInv, CaptureTypes
<1>2. Head(inbox).id <= shot.id
  BY <1>0 DEF CaptureInv, IdsAreGiven
<1>3. IdsAreGiven' /\ OneIsAwaited'
  BY <1>0, <1>2 DEF CaptureInv, IdsAreGiven, OneIsAwaited
<1>4. NotYetSent'
  <2>1. shot.step \in {"wake", "emit"} => Head(inbox).id < shot.id
    BY <1>0 DEF CaptureInv, NotYetSent
  <2> QED
    BY <1>0, <2>1 DEF CaptureInv, NotYetSent
<1>5. LastOfAll'
  <2> SUFFICES ASSUME shot.step = "await"
               PROVE  /\ \A i \in DOMAIN inbox' : inbox'[i].id = shot.id => i = Len(inbox')
                      /\ shot.id \in painting'.active \/ reply' = "measured" => inbox' = <<>> /\ staged' = shot.id
    BY DEF LastOfAll
  <2>1. \A i \in DOMAIN inbox : inbox[i].id = shot.id => i = Len(inbox)
    BY DEF CaptureInv, LastOfAll
  <2>2. shot.id \notin painting.active /\ reply # "measured"
    BY DEF CaptureInv, LastOfAll
  <2>3. \A i \in DOMAIN inbox' : inbox'[i].id = shot.id => i = Len(inbox')
    BY <1>0, <2>1
  <2>4. reply' # "measured"
    BY <2>2
  <2>5. ASSUME shot.id \in painting'.active PROVE inbox' = <<>> /\ staged' = shot.id
    BY <1>0, <2>1, <2>2, <2>5
  <2> QED
    BY <2>3, <2>4, <2>5
<1>6. StagedAlone'
  BY DEF CaptureInv, StagedAlone
<1> QED
  BY <1>1, <1>3, <1>4, <1>5, <1>6 DEF CaptureInv

LEMMA SettingsPageKeeps ==
    ASSUME CaptureInv, Stage \/ PageReleased \/ \E id \in painting.active : Painted(id)
    PROVE  CaptureInv'
<1>0. /\ painting \in [active : SUBSET Nat, cancelled : SUBSET Nat] /\ inbox \in Seq(PageEvents)
      /\ \A id \in pending : id = shot.id
  BY DEF CaptureInv, CaptureTypes, IdsAreGiven
<1>1. CASE Stage
  <2> DEFINE id == Head(inbox).id
  <2>1. inbox # <<>> /\ inbox' = Tail(inbox) /\ UNCHANGED <<queue, shot>>
    BY <1>1 DEF Stage
  <2>7. Head(inbox) \in PageEvents
    BY <1>0, <2>1, FirstOf
  <2>2. id \in Nat
    BY <2>7 DEF PageEvents
  <2>3. \/ staged' = id /\ painting' = [painting EXCEPT !.active = @ \cup {id}] /\ UNCHANGED <<pending, reply>>
        \/ Resolve(id, "unknown") /\ UNCHANGED painting
    BY <1>1 DEF Stage
  <2> HIDE DEF id
  <2>4. /\ painting' \in [active : SUBSET Nat, cancelled : SUBSET Nat] /\ painting'.active \subseteq painting.active \cup {id}
        /\ id \in painting'.active \ painting.active => staged' = id
    BY <1>0, <2>2, <2>3
  <2>5. pending' \subseteq pending /\ reply' \in {reply, "unknown"} /\ (reply' # reply => pending' = {})
    BY <1>0, <2>3 DEF Resolve
  <2> QED
    BY <2>1, <2>4, <2>5, PageTakes DEF id
<1>2. CASE PageReleased
  <2> DEFINE id == Head(inbox).id
  <2>1. /\ inbox # <<>> /\ inbox' = Tail(inbox) /\ UNCHANGED <<queue, shot, pending, reply>>
        /\ painting' = [painting EXCEPT !.cancelled = Cancelled(id)]
    BY <1>2 DEF PageReleased
  <2>2. Cancelled(id) \in SUBSET Nat
    BY <1>0 DEF Cancelled
  <2> HIDE DEF id
  <2>3. painting' \in [active : SUBSET Nat, cancelled : SUBSET Nat] /\ painting'.active = painting.active
    BY <1>0, <2>1, <2>2
  <2> QED
    BY <2>1, <2>3, PageTakes DEF id
<1>3. ASSUME NEW id \in painting.active, Painted(id) PROVE CaptureInv'
  <2>1. /\ painting' = [active |-> painting.active \ {id}, cancelled |-> painting.cancelled \ {id}]
        /\ UNCHANGED <<queue, shot, inbox, staged>> /\ (UNCHANGED <<pending, reply>> \/ Resolve(id, "measured"))
    BY <1>3 DEF Painted
  <2>2. painting' \in [active : SUBSET Nat, cancelled : SUBSET Nat] /\ painting'.active \subseteq painting.active
    BY <1>0, <2>1
  <2>3. pending' \subseteq pending /\ (UNCHANGED <<pending, reply>> \/ (id = shot.id /\ pending' = {} /\ reply' = "measured") \/ reply' = reply)
    BY <1>0, <2>1 DEF Resolve
  <2>4. CaptureTypes' /\ IdsAreGiven' /\ OneIsAwaited'
    BY <2>1, <2>2, <2>3 DEF CaptureInv, CaptureTypes, IdsAreGiven, OneIsAwaited
  <2>5. NotYetSent'
    <3>1. shot.step \in {"wake", "emit"} => id # shot.id
      BY DEF CaptureInv, CaptureTypes, NotYetSent
    <3> QED
      BY <2>1, <2>2, <2>3, <3>1 DEF CaptureInv, NotYetSent
  <2>6. LastOfAll'
    BY <2>1, <2>2, <2>3 DEF CaptureInv, LastOfAll
  <2>7. StagedAlone'
    BY <2>1 DEF CaptureInv, StagedAlone
  <2> QED
    BY <2>4, <2>5, <2>6, <2>7 DEF CaptureInv
<1> QED
  BY <1>1, <1>2, <1>3

LEMMA CaptureInvNext == CaptureInv /\ [SettingsNext]_settingsVars => CaptureInv'
<1> SUFFICES ASSUME CaptureInv, [SettingsNext]_settingsVars PROVE CaptureInv'
  OBVIOUS
<1>1. CASE SettingsNext
  BY <1>1, ThreadsKeep, RequestsKeep, EmitKeeps, ReleaseKeeps, ReplyKeeps, SettingsPageKeeps DEF SettingsNext
<1>2. CASE UNCHANGED settingsVars
  BY <1>2 DEF settingsVars, captureVars, windowVars, CaptureInv, CaptureTypes, IdsAreGiven, OneIsAwaited,
     NotYetSent, LastOfAll, StagedAlone
<1> QED
  BY <1>1, <1>2

\* Between the page's reply and the release the page is staged for that very request, however
\* late an earlier one is painted, answered or put back (shell/src/ipc/capture.ts:7).
THEOREM StagesSurvive == SettingsSpec => []StageSurvivesPicture
<1>1. CaptureInv => StageSurvivesPicture
  BY DEF CaptureInv, StagedAlone, StageSurvivesPicture
<1> QED
  BY CaptureInvInit, CaptureInvNext, <1>1, PTL DEF SettingsSpec

--------------------------------------------------------------------------------
(****************************************************************************)
(* StoreShelf.  The store's page offers what the guards of the two           *)
(* installs let pass.                                                        *)
(****************************************************************************)

\* A theme is a file that smabar writes or the user edits, never a link: that is where the
\* page and the guard of the plugin differ.
File(C) == [content : C, edited : BOOLEAN, link : {FALSE}]
ThemeIsFile == /\ DOMAIN disk = Item
               /\ \E C : disk["theme"] \in File(C)

LEMMA ThemeIsFileInit == ASSUME ShelfInit PROVE ThemeIsFile
<1>1. DOMAIN disk = Item /\ "theme" \in Item /\ disk["theme"] = Missing
  BY DEF ShelfInit, Item
<1> QED
  BY <1>1, Missing \in File({0}) DEF ThemeIsFile, Missing, File

\* A step that writes the folder of the plugin, or the theme's file anew.
LEMMA FileKeeps ==
    ASSUME ThemeIsFile, NEW i \in Item, NEW d,
           i = "theme" => \E C : d \in File(C),
           disk' = [disk EXCEPT ![i] = d]
    PROVE  ThemeIsFile'
  BY DEF ThemeIsFile, Item

LEMMA ThemeStaysFile == ASSUME ThemeIsFile, [ShelfNext]_shelfVars PROVE ThemeIsFile'
<1>1. ASSUME UNCHANGED disk PROVE ThemeIsFile'
  BY <1>1 DEF ThemeIsFile
<1>2. ASSUME NEW e PROVE \E C : Fetched(e) \in File(C)
  <2>1. Fetched(e) \in File({e.content})
    BY DEF Fetched, File
  <2> QED
    BY <2>1
<1>3. \E C : Missing \in File(C)
  <2>1. Missing \in File({0})
    BY DEF Missing, File
  <2> QED
    BY <2>1
<1>4. "theme" \in Item /\ "plugin" \in Item /\ "plugin" # "theme"
  BY DEF Item
<1>5. ASSUME NEW confirm \in BOOLEAN, InstallPlugin(confirm) PROVE ThemeIsFile'
  <2>1. UNCHANGED disk \/ disk' = [disk EXCEPT !["plugin"] = Fetched(server.items["plugin"])]
    BY <1>5 DEF InstallPlugin, Unreachable, Refuse
  <2> QED
    BY <1>1, <1>4, <2>1, FileKeeps
<1>6. CASE InstallTheme
  <2>1. UNCHANGED disk \/ disk' = [disk EXCEPT !["theme"] = Fetched(server.items["theme"])]
    BY <1>6 DEF InstallTheme, Unreachable, Refuse
  <2> QED
    BY <1>1, <1>2, <1>4, <2>1, FileKeeps
<1>7. CASE ImportZip
  <2>1. UNCHANGED disk \/ disk' = [disk EXCEPT !["plugin"] = Fetched(preview)]
    BY <1>7 DEF ImportZip
  <2> QED
    BY <1>1, <1>4, <2>1, FileKeeps
<1>8. CASE RemovePlugin \/ RemoveTheme
  BY <1>3, <1>4, <1>8, FileKeeps DEF RemovePlugin, RemoveTheme
<1>9. ASSUME NEW i \in Item, DropByHand(i) PROVE ThemeIsFile'
  BY <1>3, <1>9, FileKeeps DEF DropByHand
<1>10. ASSUME NEW i \in Item, EditByHand(i) PROVE ThemeIsFile'
  <2>1. disk' = [disk EXCEPT ![i] = [disk[i] EXCEPT !.edited = TRUE]]
    BY <1>10 DEF EditByHand
  <2>2. ASSUME i = "theme" PROVE \E C : [disk[i] EXCEPT !.edited = TRUE] \in File(C)
    <3>1. PICK C : disk["theme"] \in File(C)
      BY DEF ThemeIsFile
    <3>2. [disk[i] EXCEPT !.edited = TRUE] \in File(C)
      BY <2>2, <3>1 DEF File
    <3> QED
      BY <3>2
  <2> QED
    BY <2>1, <2>2, FileKeeps
<1>11. CASE LinkFolder
  BY <1>4, <1>11, FileKeeps DEF LinkFolder
<1>12. CASE Look \/ Publish \/ PublishBlocks \/ Refresh \/ Inspect \/ Toggle \/ Activate \/ UNCHANGED shelfVars
  BY <1>1, <1>12 DEF Look, Publish, PublishBlocks, Refresh, Inspect, Toggle, Activate, shelfVars
<1> QED
  BY <1>5, <1>6, <1>7, <1>8, <1>9, <1>10, <1>11, <1>12 DEF ShelfNext

\* What is on offer passes the guards, by what the page looks at.
LEMMA OfferPasses == ASSUME ThemeIsFile PROVE OfferedIsAccepted
<1>1. ASSUME ViewEntry(listing, "plugin").installable, ~disk["plugin"].link PROVE GuardPlugin(listing, TRUE)
  <2>1. /\ Incompatible(listing, "plugin") = {}
        /\ Present("plugin") => Received("plugin") /\ UpdateView("plugin", listing.items["plugin"])
    BY <1>1 DEF ViewEntry
  <2>2. /\ listing.items["plugin"].fits /\ ~bundled
        /\ ~Block(listing, "plugin", listing.items["plugin"].at)
    BY <2>1 DEF Incompatible
  <2>3. Exists("plugin") => Received("plugin")
    BY <1>1, <2>1 DEF Present
  <2> QED
    BY <2>2, <2>3 DEF GuardPlugin
<1>2. ASSUME ViewEntry(listing, "theme").installable PROVE GuardTheme(listing)
  <2>1. /\ Incompatible(listing, "theme") = {}
        /\ Present("theme") => Received("theme") /\ UpdateView("theme", listing.items["theme"])
    BY <1>2 DEF ViewEntry
  <2>2. ~bundled /\ ~Block(listing, "theme", listing.items["theme"].at)
    BY <2>1 DEF Incompatible
  <2>3. ~disk["theme"].link
    BY DEF ThemeIsFile, File
  <2> QED
    BY <2>1, <2>2, <2>3 DEF GuardTheme, Present
<1> QED
  BY <1>1, <1>2 DEF OfferedIsAccepted

\* What the page offers the install does not refuse, whatever was installed, imported,
\* removed, blocked, edited and failed to be written before (view.rs:263, install.rs:241,
\* themes.rs:135).
THEOREM OffersAreAccepted == ShelfSpec => []OfferedIsAccepted
<1>1. ShelfInit => ThemeIsFile
  BY ThemeIsFileInit
<1>2. ThemeIsFile /\ [ShelfNext]_shelfVars => ThemeIsFile'
  BY ThemeStaysFile
<1>3. ThemeIsFile => OfferedIsAccepted
  BY OfferPasses
<1> QED
  BY <1>1, <1>2, <1>3, PTL DEF ShelfSpec

--------------------------------------------------------------------------------
(****************************************************************************)
(* ReloadReport.  The tools that wait for the start of a plugin miss no      *)
(* outcome of it.                                                            *)
(****************************************************************************)

ProcessStates == [runs : Nat, status : Final \cup {"starting", "stopped"}]
RunStates == [runs : Nat, status : Final \cup {"starting"}]
Calls(steps) == [step : steps, from : Nat, since : Nat, wrote : Nat, status : ProcessStates,
                 settled : BOOLEAN, warnings : {{}}, until : Nat]
Underway == [step : {"idle"}]
            \cup Calls({"write", "restart", "ask", "settle", "renders", "read"})

ReloadTypes ==
    /\ code \in Nat /\ now \in Nat /\ events \in Seq(ProcessStates)
    /\ process \in RunStates /\ process.runs <= code
    /\ DOMAIN calls = Call

\* The events from one on tell of an outcome.
HeardFinal(from, sent) == \E i \in from + 1 .. Len(sent) : sent[i].status \in Final
\* The status a call falls back to is no outcome of what it waits for.
FallsShort(k) == k.status.runs < k.wrote \/ k.status.status = "starting"

\* What a call relies on: it listens since before it changed anything, and when the plugin runs
\* what it waits for and has come to rest, it has been told.
CallHears(k, now_, sent) ==
    /\ k.step # "done" => k \in Underway
    /\ k.step \notin {"idle", "done"} => k.from <= Len(sent)
    /\ \/ k.step = "restart" /\ now_.status = "off"
       \/ k.step = "ask" /\ now_.status \in Final
       => now_.runs < k.wrote \/ HeardFinal(k.from, sent)
    /\ k.step = "renders" => k.settled
    /\ k.step = "settle" => FallsShort(k) \/ HeardFinal(k.from, sent)
    /\ k.step \in {"read", "done"} /\ ~k.settled => FallsShort(k)

ReloadInv == ReloadTypes /\ \A c \in Call : CallHears(calls[c], process, events)

LEMMA ReloadInvInit == ASSUME ReloadInit PROVE ReloadInv
<1>1. ReloadTypes
  BY DEF ReloadInit, ReloadTypes, ProcessStates, RunStates, Final
<1>2. \A c \in Call : calls[c] = [step |-> "idle"]
  BY DEF ReloadInit, NoCallYet
<1>3. [step |-> "idle"] \in Underway /\ [step |-> "idle"].step = "idle"
  BY DEF Underway
<1> QED
  BY <1>1, <1>2, <1>3 DEF ReloadInv, CallHears

\* What was heard stays heard.
LEMMA HeardStays ==
    ASSUME NEW sent \in Seq(ProcessStates), NEW new \in Seq(ProcessStates), NEW from \in Nat,
           HeardFinal(from, sent)
    PROVE  HeardFinal(from, sent \o new)
  BY DEF HeardFinal

\* The plugin goes on, and the task says so when it comes to rest.
LEMMA HearsOn ==
    ASSUME NEW sent \in Seq(ProcessStates), NEW new \in Seq(ProcessStates), NEW k, NEW old, NEW next,
           CallHears(k, old, sent),
           next = old \/ next.status \notin Final \/ \E i \in 1 .. Len(new) : new[i].status \in Final
    PROVE  CallHears(k, next, sent \o new)
<1>1. ASSUME k.step \notin {"idle", "done"}
      PROVE  /\ k.from \in Nat /\ k.from <= Len(sent) /\ k.from <= Len(sent \o new)
             /\ HeardFinal(k.from, sent) => HeardFinal(k.from, sent \o new)
  <2>1. k.from \in Nat /\ k.from <= Len(sent)
    BY <1>1 DEF CallHears, Underway, Calls
  <2> QED
    BY <2>1, HeardStays
<1>2. ASSUME k.step \notin {"idle", "done"}, NEW i \in 1 .. Len(new), new[i].status \in Final
      PROVE  HeardFinal(k.from, sent \o new)
  <2>1. Len(sent) + i \in k.from + 1 .. Len(sent \o new) /\ (sent \o new)[Len(sent) + i] = new[i]
    BY <1>1, <1>2
  <2> QED
    BY <1>2, <2>1 DEF HeardFinal
<1>3. "off" \in Final
  BY DEF Final
<1> QED
  BY <1>1, <1>2, <1>3 DEF CallHears

\* The events a step of the plugin adds.
Told(new) == new \in Seq(ProcessStates) /\ events' = events \o new
LEMMA PluginMoves ==
    ASSUME ReloadInv, NEW new, Told(new), process' \in RunStates, process'.runs <= code,
           process' = process \/ process'.status \notin Final
               \/ \E i \in 1 .. Len(new) : new[i].status \in Final
    PROVE  /\ events' \in Seq(ProcessStates)
           /\ \A c \in Call : CallHears(calls[c], process', events')
<1>1. events \in Seq(ProcessStates)
  BY DEF ReloadInv, ReloadTypes
<1>2. events' \in Seq(ProcessStates)
  BY <1>1 DEF Told
<1> QED
  BY <1>1, <1>2, HearsOn DEF Told, ReloadInv

LEMMA RestartMoves ==
    ASSUME ReloadInv, Restart
    PROVE  /\ process' \in RunStates /\ process'.runs <= code
           /\ process' = process \/ process'.status = "starting"
           /\ process.status = "off" => process' = process
           /\ events' \in Seq(ProcessStates)
           /\ \A c \in Call : CallHears(calls[c], process', events')
<1>0. process \in RunStates /\ code \in Nat /\ process.runs <= code /\ events \in Seq(ProcessStates)
  BY DEF ReloadInv, ReloadTypes
<1>1. CASE process.status = "off"
  <2>1. UNCHANGED <<process, events>>
    BY <1>1 DEF Restart
  <2> QED
    BY <1>0, <2>1 DEF ReloadInv
<1>2. CASE process.status # "off"
  <2> DEFINE new == Append(<<Status(process.runs, "stopped")>>, process')
  <2>1. process' = Status(code, "starting") /\ events' = events \o new
    BY <1>2 DEF Restart, StartProcess, Tell
  <2>2. process' \in RunStates /\ Status(process.runs, "stopped") \in ProcessStates
        /\ process'.status = "starting" /\ process'.runs = code
    BY <1>0, <2>1 DEF Status, ProcessStates, RunStates
  <2>3. Told(new)
    BY <2>1, <2>2 DEF Told, RunStates, ProcessStates
  <2>4. process'.status \notin Final
    BY <2>2 DEF Final
  <2>5. process'.runs <= code
    BY <1>0, <2>2
  <2> HIDE DEF new
  <2> QED
    BY <1>2, <2>2, <2>3, <2>4, <2>5, PluginMoves
<1> QED
  BY <1>1, <1>2

\* A step of the plugin that no tool takes.
LEMMA PluginKeeps ==
    ASSUME ReloadInv, UNCHANGED <<code, calls>>, now' \in Nat, process' \in RunStates,
           process'.runs <= code, events' \in Seq(ProcessStates),
           \A c \in Call : CallHears(calls[c], process', events')
    PROVE  ReloadInv'
  BY DEF ReloadInv, ReloadTypes

LEMMA LogKeeps ==
    ASSUME ReloadInv, NEW w \in Writer, AppendPluginLog(w) \/ Rotate(w) \/ CreateLog(w) \/ WriteLog(w)
    PROVE  ReloadInv'
<1>0. now \in Nat
  BY DEF ReloadInv, ReloadTypes
<1>1. UNCHANGED <<code, calls, process, events>> /\ now' \in Nat
  <2>1. CASE AppendPluginLog(w) \/ Rotate(w) \/ CreateLog(w)
    BY <1>0, <2>1 DEF AppendPluginLog, Rotate, CreateLog, Running
  <2>2. CASE WriteLog(w)
    <3>1. PICK warns : WriteTo(writers[w].file, warns)
      BY <2>2 DEF WriteLog
    <3>2. now' \in Nat
      BY <1>0, <3>1 DEF WriteTo
    <3> QED
      BY <2>2, <3>2 DEF WriteLog, Running
  <2> QED
    BY <2>1, <2>2
<1> QED
  BY <1>1 DEF ReloadInv, ReloadTypes

LEMMA WarnKeeps == ASSUME ReloadInv, NEW items, WarnOnce(items) PROVE ReloadInv'
<1>1. UNCHANGED <<code, calls, process, events>> /\ now' \in Nat
  BY DEF WarnOnce, Running, ReloadInv, ReloadTypes
<1> QED
  BY <1>1 DEF ReloadInv, ReloadTypes

LEMMA BecomesKeeps ==
    ASSUME ReloadInv, NEW status \in Final \cup {"starting"}, process' = Status(process.runs, status),
           events' = events \o <<process'>>, UNCHANGED <<code, calls, now>>
    PROVE  ReloadInv'
<1>0. process \in RunStates /\ code \in Nat /\ process.runs <= code
  BY DEF ReloadInv, ReloadTypes
<1>1. process' \in RunStates /\ process'.status = status /\ process'.runs = process.runs
  BY <1>0 DEF Status, ProcessStates, RunStates
<1> DEFINE new == <<process'>>
<1>2. Told(new) /\ Len(new) = 1 /\ new[1] = process'
  BY <1>1 DEF Told, RunStates, ProcessStates
<1>3. process'.status \notin Final \/ \E i \in 1 .. Len(new) : new[i].status \in Final
  BY <1>2
<1> HIDE DEF new
<1>4. /\ events' \in Seq(ProcessStates)
      /\ \A c \in Call : CallHears(calls[c], process', events')
  BY <1>0, <1>1, <1>2, <1>3, PluginMoves
<1> QED
  BY <1>0, <1>1, <1>4, PluginKeeps DEF ReloadInv, ReloadTypes

LEMMA ProcessKeeps ==
    ASSUME ReloadInv, HandleChange \/ Initialized \/ StartFails \/ Crash \/ RunAgain \/ Render \/ SetActive
    PROVE  ReloadInv'
<1>0. /\ process \in RunStates /\ code \in Nat /\ now \in Nat /\ process.runs <= code
      /\ {"running", "failed", "off"} \subseteq Final
  BY DEF ReloadInv, ReloadTypes, Final
<1>1. CASE HandleChange
  <2>1. Restart /\ UNCHANGED <<code, calls, now>>
    BY <1>1 DEF HandleChange
  <2> QED
    BY <1>0, <2>1, RestartMoves, PluginKeeps
<1>2. CASE Initialized \/ StartFails \/ Crash
  BY <1>0, <1>2, BecomesKeeps DEF Initialized, StartFails, Crash, Becomes, Tell
<1>3. CASE RunAgain
  <2> DEFINE new == <<process'>>
  <2>1. process' = Status(code, "starting") /\ events' = events \o new /\ UNCHANGED <<code, calls, now>>
    BY <1>3 DEF RunAgain, Tell
  <2>2. process' \in RunStates /\ process'.status = "starting" /\ process'.runs = code
    BY <1>0, <2>1 DEF Status, ProcessStates, RunStates
  <2>3. Told(new) /\ process'.status \notin Final /\ process'.runs <= code
    BY <1>0, <2>1, <2>2 DEF Told, Final, RunStates, ProcessStates
  <2> HIDE DEF new
  <2>4. /\ events' \in Seq(ProcessStates)
        /\ \A c \in Call : CallHears(calls[c], process', events')
    BY <2>2, <2>3, PluginMoves
  <2> QED
    BY <1>0, <2>1, <2>2, <2>3, <2>4, PluginKeeps
<1>4. CASE Render
  BY <1>0, <1>4, PluginKeeps DEF Render, Running, ReloadInv, ReloadTypes
<1>5. CASE SetActive
  <2>1. CASE process.status = "off"
    <3> DEFINE new == Append(<<>>, process')
    <3>1. process' = Status(code, "starting") /\ events' = events \o new /\ UNCHANGED <<code, calls, now>>
      BY <1>5, <2>1 DEF SetActive, StartProcess, Tell
    <3>2. process' \in RunStates /\ process'.status = "starting" /\ process'.runs = code
      BY <1>0, <3>1 DEF Status, ProcessStates, RunStates
    <3>3. Told(new) /\ process'.status \notin Final /\ process'.runs <= code
      BY <1>0, <3>1, <3>2 DEF Told, Final, RunStates, ProcessStates
    <3> HIDE DEF new
    <3>4. /\ events' \in Seq(ProcessStates)
          /\ \A c \in Call : CallHears(calls[c], process', events')
      BY <3>2, <3>3, PluginMoves
    <3> QED
      BY <1>0, <3>1, <3>2, <3>3, <3>4, PluginKeeps
  <2>2. CASE process.status # "off"
    BY <1>0, <1>5, <2>2, BecomesKeeps DEF SetActive, Tell
  <2> QED
    BY <2>1, <2>2
<1> QED
  BY <1>1, <1>2, <1>3, <1>4, <1>5

\* A step of one tool that leaves the plugin alone.
LEMMA ToolKeeps ==
    ASSUME ReloadInv, NEW c \in Call, NEW k, calls' = [calls EXCEPT ![c] = k],
           CallHears(k, process, events), code' \in Nat, process.runs <= code',
           UNCHANGED <<now, process, events>>
    PROVE  ReloadInv'
<1>1. \A d \in Call : calls'[d] = IF d = c THEN k ELSE calls[d]
  BY DEF ReloadInv, ReloadTypes
<1>2. DOMAIN calls' = Call
  BY DEF ReloadInv, ReloadTypes
<1> QED
  BY <1>1, <1>2 DEF ReloadInv, ReloadTypes

LEMMA LeastOf == ASSUME NEW S \in SUBSET Nat, S # {} PROVE \E i \in S : \A j \in S : i <= j
<1>1. PICK i \in S : \A j \in S : <<j, i>> \notin OpToRel(<, Nat)
  BY WFMin, NatLessThanWellFounded, Zenon
<1>2. \A j \in S : ~(j < i)
  BY <1>1, Zenon DEF OpToRel
<1>3. i \in Nat /\ \A j \in S : j \in Nat
  OBVIOUS
<1> QED
  BY <1>2, <1>3

\* The records of the steps.
Callable == Calls({"write", "restart", "ask", "settle", "renders", "read"})
LEMMA StepOf ==
    ASSUME NEW k \in Callable, NEW s \in {"restart", "ask", "settle", "renders", "read"}
    PROVE  LET r == [k EXCEPT !.step = s]
           IN  r \in Underway /\ r.step = s /\ r.from = k.from /\ r.wrote = k.wrote
               /\ r.status = k.status /\ r.settled = k.settled
  BY DEF Underway, Calls, Callable
LEMMA WrittenOf ==
    ASSUME NEW k \in Callable
    PROVE  \A s \in {"restart", "ask"}, n \in Nat :
           LET r == [k EXCEPT !.step = s, !.wrote = n]
           IN  r \in Underway /\ r.step = s /\ r.from = k.from /\ r.wrote = n
  BY DEF Underway, Calls, Callable
LEMMA SettledOf ==
    ASSUME NEW k \in Callable
    PROVE  \A s \in {"renders", "read"}, v \in ProcessStates :
           LET r == [k EXCEPT !.step = s, !.status = v, !.settled = TRUE]
           IN  r \in Underway /\ r.step = s /\ r.from = k.from /\ r.settled = TRUE
  BY DEF Underway, Calls, Callable
LEMMA WaitingOf ==
    ASSUME NEW k \in Callable, NEW n \in Nat, NEW v \in ProcessStates
    PROVE  LET r == [k EXCEPT !.step = "settle", !.status = v, !.from = n]
           IN  r \in Underway /\ r.step = "settle" /\ r.from = n /\ r.wrote = k.wrote /\ r.status = v
  BY DEF Underway, Calls, Callable

LEMMA Reports ==
    ASSUME NEW k \in Calls({"read"}), NEW w, NEW n
    PROVE  LET r == [k EXCEPT !.step = "done", !.until = n, !.warnings = w]
           IN  r.step = "done" /\ r.wrote = k.wrote /\ r.status = k.status /\ r.settled = k.settled
  BY DEF Calls

\* The records of calls that are under way.
LEMMA CallAt ==
    ASSUME ReloadInv, NEW c \in Call, calls[c].step # "idle", calls[c].step # "done"
    PROVE  /\ calls[c] \in Calls({calls[c].step}) /\ calls[c].from \in 0 .. Len(events)
           /\ calls[c] \in Callable
           /\ calls[c].from \in Nat /\ calls[c].wrote \in Nat /\ calls[c].settled \in BOOLEAN /\ CallHears(calls[c], process, events)
<1>1. calls[c] \in Underway /\ CallHears(calls[c], process, events) /\ calls[c].from <= Len(events)
  BY DEF ReloadInv, CallHears
<1>2. calls[c] \in Callable
  BY <1>1 DEF Underway, Callable
<1>3. Len(events) \in Nat
  BY DEF ReloadInv, ReloadTypes
<1> QED
  BY <1>1, <1>2, <1>3 DEF Calls, Callable

LEMMA BeginKeeps ==
    ASSUME ReloadInv, NEW c \in Call, WriteFile(c) \/ PluginReload(c)
    PROVE  ReloadInv'
<1>0. /\ code \in Nat /\ now \in Nat /\ process \in RunStates /\ process.runs <= code
      /\ Len(events) \in Nat /\ UNCHANGED <<code, now, process, events>>
  BY DEF ReloadInv, ReloadTypes, WriteFile, PluginReload, Running, Untouched
<1>1. PICK s \in {"write", "restart"} : Called(c, s) /\ (s = "restart" => process.status # "off")
  BY DEF WriteFile, PluginReload
<1> DEFINE k == [step |-> s, from |-> Len(events), since |-> now, wrote |-> code,
                 status |-> Status(0, "stopped"), settled |-> FALSE, warnings |-> {}, until |-> 0]
<1>2. calls' = [calls EXCEPT ![c] = k]
  BY <1>1 DEF Called
<1>3. k \in Underway /\ k.step = s /\ k.from = Len(events)
  BY <1>0 DEF Underway, Calls, Status, ProcessStates
<1> HIDE DEF k
<1>4. CallHears(k, process, events)
  BY <1>0, <1>1, <1>3 DEF CallHears
<1> QED
  BY <1>0, <1>2, <1>4, ToolKeeps

LEMMA StoreKeeps == ASSUME ReloadInv, NEW c \in Call, Store(c) PROVE ReloadInv'
<1>0. /\ code \in Nat /\ process \in RunStates /\ process.runs <= code
      /\ UNCHANGED <<now, process, events>> /\ code' = code + 1 /\ calls[c].step = "write"
  BY DEF ReloadInv, ReloadTypes, Store, AtomicWrite, Running, Untouched, At
<1>1. PICK s \in {"ask", "restart"} : calls' = [calls EXCEPT ![c] = [calls[c] EXCEPT !.step = s, !.wrote = code + 1]]
  <2>1. calls' = [calls EXCEPT ![c] = [calls[c] EXCEPT !.step = IF watched THEN "ask" ELSE "restart",
                                                       !.wrote = code + 1]]
    BY DEF Store
  <2> QED
    BY <2>1
<1>N. PICK n \in Nat : n = code + 1
  BY <1>0
<1> DEFINE k == [calls[c] EXCEPT !.step = s, !.wrote = n]
<1>2. code + 1 \in Nat /\ s \in {"restart", "ask"}
  BY <1>0, <1>1
<1>A. calls[c] \in Callable /\ calls[c].from \in 0 .. Len(events)
  BY <1>0, CallAt
<1>B. \A t \in {"restart", "ask"}, m \in Nat :
          LET r == [calls[c] EXCEPT !.step = t, !.wrote = m]
          IN  r \in Underway /\ r.step = t /\ r.from = calls[c].from /\ r.wrote = m
  BY <1>A, WrittenOf
<1>3. k \in Underway /\ k.step = s /\ k.from = calls[c].from /\ k.wrote = n
  BY <1>2, <1>N, <1>B
<1>4. calls' = [calls EXCEPT ![c] = k]
  BY <1>1, <1>N
<1>5. process.runs < code + 1 /\ process.runs <= code + 1 /\ Len(events) \in Nat
  BY <1>0 DEF RunStates, ReloadInv, ReloadTypes
<1> HIDE DEF k
<1>6. CallHears(k, process, events)
  BY <1>A, <1>3, <1>5, <1>N DEF CallHears
<1> QED
  BY <1>0, <1>2, <1>4, <1>5, <1>6, ToolKeeps

LEMMA RestartKeeps == ASSUME ReloadInv, NEW c \in Call, RestartPlugin(c) PROVE ReloadInv'
<1>0. /\ code \in Nat /\ now \in Nat /\ UNCHANGED <<now, code>> /\ calls[c].step = "restart" /\ Restart
      /\ DOMAIN calls = Call /\ process \in RunStates
  BY DEF ReloadInv, ReloadTypes, RestartPlugin, Untouched, At
<1> DEFINE k == [calls[c] EXCEPT !.step = "ask"]
<1>1. calls' = [calls EXCEPT ![c] = k]
  BY DEF RestartPlugin, Step
<1>A. /\ calls[c] \in Callable
      /\ calls[c].from \in 0 .. Len(events) /\ calls[c].from \in Nat
      /\ CallHears(calls[c], process, events)
  BY <1>0, CallAt
<1>B. process \in ProcessStates
  BY <1>0 DEF RunStates, ProcessStates
<1>2. /\ k \in Underway /\ k.step = "ask" /\ k.from = calls[c].from /\ k.wrote = calls[c].wrote
      /\ calls[c].from \in 0 .. Len(events)
  BY <1>0, <1>A, StepOf
<1> HIDE DEF k
<1>3. /\ process' \in RunStates /\ process'.runs <= code
      /\ process' = process \/ process'.status = "starting"
      /\ process.status = "off" => process' = process
      /\ events' \in Seq(ProcessStates)
      /\ \A d \in Call : CallHears(calls[d], process', events')
  BY <1>0, RestartMoves
<1>4. CallHears(calls[c], process', events')
  BY <1>3
<1>5. process.status # "off" => process'.status \notin Final
  BY <1>0 DEF Restart, StartProcess, Status, Final
<1>6. CallHears(k, process', events')
  BY <1>0, <1>2, <1>3, <1>4, <1>5 DEF CallHears
<1>7. \A d \in Call : calls'[d] = IF d = c THEN k ELSE calls[d]
  BY <1>0, <1>1
<1>8. DOMAIN calls' = Call
  BY <1>0, <1>1
<1> QED
  BY <1>0, <1>3, <1>6, <1>7, <1>8 DEF ReloadInv, ReloadTypes

LEMMA AskKeeps == ASSUME ReloadInv, NEW c \in Call, Ask(c) PROVE ReloadInv'
<1>0. /\ code \in Nat /\ process \in RunStates /\ process.runs <= code
      /\ UNCHANGED <<code, now, process, events>> /\ calls[c].step = "ask"
  BY DEF ReloadInv, ReloadTypes, Ask, Running, Untouched, At
<1>1. CASE process.status = "off"
  <2> DEFINE k == [calls[c] EXCEPT !.step = "read", !.status = process, !.settled = TRUE]
  <2>1. calls' = [calls EXCEPT ![c] = k]
    BY <1>1 DEF Ask
  <2>A. /\ calls[c] \in Callable
        /\ calls[c].from \in 0 .. Len(events) /\ calls[c].from \in Nat
        /\ CallHears(calls[c], process, events)
    BY <1>0, CallAt
  <2>B. process \in ProcessStates
    BY <1>0 DEF RunStates, ProcessStates
  <2>2. k \in Underway /\ k.step = "read" /\ k.from \in 0 .. Len(events) /\ k.settled = TRUE
    BY <1>0, <2>A, <2>B, SettledOf
  <2> HIDE DEF k
  <2>3. CallHears(k, process, events)
    BY <2>2 DEF CallHears
  <2> QED
    BY <1>0, <2>1, <2>3, ToolKeeps
<1>2. CASE process.status # "off"
  <2> DEFINE k == [calls[c] EXCEPT !.step = "settle", !.status = process, !.from = calls[c].from]
  <2>1. calls' = [calls EXCEPT ![c] = k]
    BY <1>2 DEF Ask, Heard
  <2>A. /\ calls[c] \in Callable
        /\ calls[c].from \in 0 .. Len(events) /\ calls[c].from \in Nat
        /\ CallHears(calls[c], process, events)
    BY <1>0, CallAt
  <2>B. process \in ProcessStates
    BY <1>0 DEF RunStates, ProcessStates
  <2>2. /\ k \in Underway /\ k.step = "settle" /\ k.from = calls[c].from /\ k.wrote = calls[c].wrote
        /\ k.status = process
    <3>1. \A n \in Nat, v \in ProcessStates :
             LET r == [calls[c] EXCEPT !.step = "settle", !.status = v, !.from = n]
             IN  r \in Underway /\ r.step = "settle" /\ r.from = n /\ r.wrote = calls[c].wrote
                 /\ r.status = v
      BY <2>A, WaitingOf
    <3> QED
      BY <2>A, <2>B, <3>1
  <2> HIDE DEF k
  <2>3. process.status \in Final \/ process.status = "starting"
    BY <1>0 DEF RunStates
  <2>4. CallHears(k, process, events)
    BY <1>0, <2>A, <2>2, <2>3 DEF CallHears, FallsShort
  <2> QED
    BY <1>0, <2>1, <2>4, ToolKeeps
<1> QED
  BY <1>1, <1>2

LEMMA SettleKeeps == ASSUME ReloadInv, NEW c \in Call, Settle(c) PROVE ReloadInv'
<1>0. /\ code \in Nat /\ process.runs <= code /\ events \in Seq(ProcessStates)
      /\ UNCHANGED <<code, now, process, events>> /\ calls[c].step = "settle"
  BY DEF ReloadInv, ReloadTypes, Settle, Running, Untouched, At
<1>1. calls[c] \in Callable /\ calls[c].from \in 0 .. Len(events) /\ calls[c].from \in Nat
  BY <1>0, CallAt
<1> DEFINE later == {i \in calls[c].from + 1 .. Len(events) : events[i].status \in Final}
           f == CHOOSE i \in later : \A j \in later : i <= j
<1>2. \E i \in later : \A j \in later : i <= j
  <2>1. later # {}
    BY DEF Settle
  <2>2. later \subseteq Nat
    BY <1>1
  <2> HIDE DEF later
  <2> QED
    BY <2>1, <2>2, LeastOf
<1>3. f \in later
  BY <1>2
<1>4. events[f] \in ProcessStates
  BY <1>0, <1>1, <1>3
<1>5. calls' = [calls EXCEPT ![c].status = events[f], ![c].settled = TRUE,
                             ![c].step = IF events[f].status = "running" THEN "renders" ELSE "read"]
  BY DEF Settle
<1> HIDE DEF f, later
<1>6. PICK s \in {"renders", "read"} :
          calls' = [calls EXCEPT ![c].status = events[f], ![c].settled = TRUE, ![c].step = s]
  BY <1>5
<1> DEFINE k == [calls[c] EXCEPT !.step = s, !.status = events[f], !.settled = TRUE]
<1>7. k \in Underway /\ k.step = s /\ k.from = calls[c].from /\ k.settled = TRUE
  <2> DEFINE after(t, v) == [calls[c] EXCEPT !.step = t, !.status = v, !.settled = TRUE]
  <2>1. \A t \in {"renders", "read"}, v \in ProcessStates :
           after(t, v) \in Underway /\ after(t, v).step = t /\ after(t, v).from = calls[c].from
           /\ after(t, v).settled = TRUE
    BY <1>1, SettledOf
  <2>2. k = after(s, events[f])
    OBVIOUS
  <2> HIDE DEF after, k
  <2> QED
    BY <1>4, <1>6, <2>1, <2>2
<1>8. calls' = [calls EXCEPT ![c] = k]
  BY <1>1, <1>6 DEF ReloadInv, ReloadTypes
<1> HIDE DEF k
<1>9. CallHears(k, process, events)
  BY <1>1, <1>6, <1>7 DEF CallHears
<1> QED
  BY <1>0, <1>8, <1>9, ToolKeeps

\* The wait ends without an outcome, or the tool goes on.
LEMMA WaitKeeps ==
    ASSUME ReloadInv, NEW c \in Call, SettleTimesOut(c) \/ AwaitFirstRenders(c)
    PROVE  ReloadInv'
<1>0. /\ code \in Nat /\ process.runs <= code
      /\ UNCHANGED <<code, now, process, events>> /\ calls[c].step \in {"settle", "renders"}
  BY DEF ReloadInv, ReloadTypes, SettleTimesOut, AwaitFirstRenders, Running, Untouched, At
<1>1. /\ calls[c] \in Callable /\ calls[c].from \in 0 .. Len(events) /\ calls[c].from \in Nat
      /\ CallHears(calls[c], process, events)
  BY <1>0, CallAt
<1> DEFINE k == [calls[c] EXCEPT !.step = "read"]
<1>2. /\ k \in Underway /\ k.step = "read" /\ k.from = calls[c].from /\ k.wrote = calls[c].wrote
      /\ k.status = calls[c].status /\ k.settled = calls[c].settled
  BY <1>1, StepOf
<1>3. calls' = [calls EXCEPT ![c] = k]
  BY DEF SettleTimesOut, AwaitFirstRenders, Step
<1> HIDE DEF k
<1>4. CASE calls[c].step = "settle"
  <2>1. ~HeardFinal(calls[c].from, events)
    BY <1>4 DEF SettleTimesOut, AwaitFirstRenders, At, HeardFinal
  <2>2. FallsShort(k)
    BY <1>1, <1>2, <1>4, <2>1 DEF CallHears, FallsShort
  <2>3. CallHears(k, process, events)
    BY <1>1, <1>2, <2>2 DEF CallHears
  <2> QED
    BY <1>0, <1>3, <2>3, ToolKeeps
<1>5. CASE calls[c].step = "renders"
  <2>1. calls[c].settled
    BY <1>1, <1>5 DEF CallHears
  <2>2. CallHears(k, process, events)
    BY <1>1, <1>2, <2>1 DEF CallHears
  <2> QED
    BY <1>0, <1>3, <2>2, ToolKeeps
<1> QED
  BY <1>0, <1>4, <1>5

LEMMA ReportKeeps == ASSUME ReloadInv, NEW c \in Call, ReadLog(c) PROVE ReloadInv'
<1>0. /\ code \in Nat /\ process.runs <= code
      /\ UNCHANGED <<code, now, process, events>> /\ calls[c].step = "read"
  BY DEF ReloadInv, ReloadTypes, ReadLog, Running, Untouched, At
<1>1. /\ calls[c] \in Callable /\ CallHears(calls[c], process, events)
  BY <1>0, CallAt
<1>2. calls[c] \in Calls({"read"})
  BY <1>0, <1>1 DEF Callable, Calls
<1> DEFINE w == Warnings(names.log, calls[c].since)
           k == [calls[c] EXCEPT !.step = "done", !.until = now, !.warnings = w]
<1>3. k.step = "done" /\ k.wrote = calls[c].wrote /\ k.status = calls[c].status /\ k.settled = calls[c].settled
  BY <1>2, Reports
<1>4. calls' = [calls EXCEPT ![c] = k]
  BY <1>1 DEF ReadLog, ReloadInv, ReloadTypes
<1> HIDE DEF k
<1>5. CallHears(k, process, events)
  BY <1>0, <1>1, <1>3 DEF CallHears, FallsShort
<1> QED
  BY <1>0, <1>4, <1>5, ToolKeeps

LEMMA ReloadInvNext == ASSUME ReloadInv, [ReloadNext]_reloadVars PROVE ReloadInv'
<1>1. CASE UNCHANGED reloadVars
  BY <1>1 DEF reloadVars, ReloadInv, ReloadTypes
<1> QED
  BY <1>1, LogKeeps, WarnKeeps, ProcessKeeps, BeginKeeps, StoreKeeps, RestartKeeps, AskKeeps, SettleKeeps,
     WaitKeeps, ReportKeeps DEF ReloadNext

\* A tool reports a plugin as still starting only when no outcome of what it wrote or restarted
\* was to be had while it waited: for any number of calls, and however starts, crashes,
\* switches and writes overlap them (plugin_tools.rs:134).
THEOREM OutcomesAreHeard == ReloadSpec => []NoOutcomeMissed
<1>1. ReloadInit => ReloadInv
  BY ReloadInvInit
<1>2. ReloadInv /\ [ReloadNext]_reloadVars => ReloadInv'
  BY ReloadInvNext
<1>3. ReloadInv => NoOutcomeMissed
  BY DEF ReloadInv, CallHears, FallsShort, NoOutcomeMissed, Reported, At
<1> QED
  BY <1>1, <1>2, <1>3, PTL DEF ReloadSpec

--------------------------------------------------------------------------------
(****************************************************************************)
(* LayerShellBar.  The tasks that wait for the main thread lead, one after   *)
(* another, from what is on the screen now to a screen that fits what is     *)
(* wanted, for any heights and any number of tasks.                          *)
(****************************************************************************)

\* What the compositor is told: both margins, the proxy's strip, the notification window.
Screens == [anchor : Side, top : Int, bottom : Int, zone : {-1, 0},
            made : BOOLEAN, side : Side, strip : Nat, note : Int]
Screen == [anchor |-> surface.anchor, top |-> surface.margin["top"], bottom |-> surface.margin["bottom"],
           zone |-> surface.zone, made |-> proxy.made, side |-> proxy.side, strip |-> proxy.zone,
           note |-> note.margin]
Tasks == [kind : {"place", "move", "reserve", "note", "defer", "none"}, side : Side, size : Nat]
High(m) == IF m.made THEN m.strip ELSE 0
Given(m, side) == IF m.made /\ m.side = side THEN m.strip ELSE 0

\* What a task of the main thread makes of it.
ScreenPlaced(m, task) ==
    [anchor |-> task.side, top |-> 0, bottom |-> 0, zone |-> m.zone,
     made |-> m.made, side |-> m.side, strip |-> m.strip, note |-> m.note]
Moved(m, task) ==
    [anchor |-> m.anchor,
     top    |-> IF task.side = "top" THEN - task.size - High(m) ELSE 0,
     bottom |-> IF task.side = "bottom" THEN - task.size - High(m) ELSE 0,
     zone   |-> IF task.size > 0 THEN -1 ELSE 0,
     made |-> m.made, side |-> m.side, strip |-> m.strip, note |-> m.note]
Reserved(m, task) ==
    [anchor |-> m.anchor,
     top    |-> m.top + Given(m, "top") - (IF task.side = "top" THEN task.size ELSE 0),
     bottom |-> m.bottom + Given(m, "bottom") - (IF task.side = "bottom" THEN task.size ELSE 0),
     zone   |-> IF task.size > 0 \/ m.zone >= 0 THEN 0 ELSE m.zone,
     made |-> m.made \/ task.size > 0, side |-> IF task.size > 0 THEN task.side ELSE m.side,
     strip |-> task.size, note |-> m.note]
Noted(m) ==
    [anchor |-> m.anchor, top |-> m.top, bottom |-> m.bottom, zone |-> m.zone,
     made |-> m.made, side |-> m.side, strip |-> m.strip,
     note |-> NoteDistance - (IF NoteSide = m.anchor THEN High(m) ELSE 0)]
ScreenAfter(m, task) ==
    IF task.kind = "place" THEN ScreenPlaced(m, task)
    ELSE IF task.kind = "move" THEN Moved(m, task)
    ELSE IF task.kind = "reserve" THEN Reserved(m, task) ELSE Noted(m)

LEMMA ScreenAfterTyped == ASSUME NEW m \in Screens, NEW task \in Tasks PROVE ScreenAfter(m, task) \in Screens
<1>0. NoteDistance \in Nat /\ task.size \in Nat /\ task.side \in Side /\ m.anchor \in Side /\ m.note \in Int
      /\ m.strip \in Nat /\ High(m) \in Nat /\ Given(m, "top") \in Nat /\ Given(m, "bottom") \in Nat
      /\ m.top \in Int /\ m.bottom \in Int /\ m.zone \in {-1, 0} /\ m.side \in Side /\ m.made \in BOOLEAN
  BY LayerAssumption DEF Screens, Tasks, High, Given
<1> USE DEF Screens
<1>1. ScreenPlaced(m, task) \in Screens
  BY <1>0 DEF ScreenPlaced
<1>2. Moved(m, task) \in Screens
  BY <1>0 DEF Moved
<1>3. Reserved(m, task) \in Screens
  BY <1>0 DEF Reserved
<1>4. Noted(m) \in Screens
  BY <1>0 DEF Noted
<1> QED
  BY <1>1, <1>2, <1>3, <1>4 DEF ScreenAfter

\* The waiting that wait lead from one screen to another.
Leads(m, waiting, end) ==
    \E h \in [0 .. Len(waiting) -> Screens] :
        /\ h[0] = m /\ h[Len(waiting)] = end
        /\ \A i \in 1 .. Len(waiting) : h[i] = ScreenAfter(h[i - 1], waiting[i])

LEMMA LeadsNowhere == ASSUME NEW m \in Screens PROVE Leads(m, <<>>, m)
<1>1. Len(<<>>) = 0 /\ 1 .. 0 = {}
  OBVIOUS
<1>2. [i \in 0 .. 0 |-> m] \in [0 .. 0 -> Screens] /\ [i \in 0 .. 0 |-> m][0] = m
  OBVIOUS
<1> QED
  BY <1>1, <1>2 DEF Leads

LEMMA LeadsOn ==
    ASSUME NEW m, NEW waiting \in Seq(Tasks), NEW end, NEW task \in Tasks, Leads(m, waiting, end)
    PROVE  Leads(m, Append(waiting, task), ScreenAfter(end, task)) /\ Append(waiting, task) \in Seq(Tasks)
<1>1. PICK h \in [0 .. Len(waiting) -> Screens] :
          /\ h[0] = m /\ h[Len(waiting)] = end
          /\ \A i \in 1 .. Len(waiting) : h[i] = ScreenAfter(h[i - 1], waiting[i])
  BY DEF Leads
<1> DEFINE n == Len(waiting)
           all == Append(waiting, task)
           g == [i \in 0 .. (n + 1) |-> IF i = n + 1 THEN ScreenAfter(end, task) ELSE h[i]]
<1>2. n \in Nat /\ Len(all) = n + 1 /\ all[n + 1] = task /\ (\A i \in 1 .. n : all[i] = waiting[i])
      /\ all \in Seq(Tasks)
  BY AppendProperties
<1>3. end \in Screens /\ ScreenAfter(end, task) \in Screens
  BY <1>1, <1>2, ScreenAfterTyped
<1>4. g \in [0 .. (n + 1) -> Screens]
  BY <1>1, <1>2, <1>3
<1>5. g[0] = m /\ g[n + 1] = ScreenAfter(end, task)
  BY <1>1, <1>2
<1>6. ASSUME NEW i \in 1 .. (n + 1) PROVE g[i] = ScreenAfter(g[i - 1], all[i])
  <2>1. CASE i = n + 1
    BY <1>1, <1>2, <2>1
  <2>2. CASE i # n + 1
    <3>1. i \in 1 .. n /\ i - 1 \in 0 .. n /\ i \in 0 .. n /\ i - 1 # n + 1
      BY <1>2, <2>2
    <3>2. g[i] = h[i] /\ g[i - 1] = h[i - 1]
      BY <1>2, <3>1
    <3> QED
      BY <1>1, <1>2, <3>1, <3>2
  <2> QED
    BY <2>1, <2>2
<1> HIDE DEF g, all
<1>7. Leads(m, all, ScreenAfter(end, task))
  BY <1>2, <1>4, <1>5, <1>6 DEF Leads
<1> QED
  BY <1>2, <1>7 DEF all

LEMMA LeadsPast ==
    ASSUME NEW m, NEW waiting \in Seq(Tasks), NEW end, waiting # <<>>, Leads(m, waiting, end)
    PROVE  Leads(ScreenAfter(m, Head(waiting)), Tail(waiting), end) /\ Tail(waiting) \in Seq(Tasks)
<1>1. PICK h \in [0 .. Len(waiting) -> Screens] :
          /\ h[0] = m /\ h[Len(waiting)] = end
          /\ \A i \in 1 .. Len(waiting) : h[i] = ScreenAfter(h[i - 1], waiting[i])
  BY DEF Leads
<1> DEFINE n == Len(waiting)
           rest == Tail(waiting)
           g == [i \in 0 .. (n - 1) |-> h[i + 1]]
<1>2. n \in Nat \ {0} /\ Len(rest) = n - 1 /\ Head(waiting) = waiting[1] /\ (\A i \in 1 .. (n - 1) : rest[i] = waiting[i + 1])
      /\ rest \in Seq(Tasks)
  BY HeadTailProperties, EmptySeq
<1>3. g \in [0 .. (n - 1) -> Screens]
  BY <1>1, <1>2
<1>4. g[0] = ScreenAfter(m, Head(waiting)) /\ g[n - 1] = end
  BY <1>1, <1>2
<1>5. ASSUME NEW i \in 1 .. (n - 1) PROVE g[i] = ScreenAfter(g[i - 1], rest[i])
  <2>1. i + 1 \in 1 .. n /\ i \in 0 .. (n - 1) /\ i - 1 \in 0 .. (n - 1) /\ (i + 1) - 1 = i /\ (i - 1) + 1 = i
    BY <1>2
  <2>2. g[i] = h[i + 1] /\ g[i - 1] = h[i]
    BY <2>1
  <2> QED
    BY <1>1, <1>2, <2>1, <2>2
<1> HIDE DEF g, rest
<1>6. Leads(ScreenAfter(m, Head(waiting)), rest, end)
  BY <1>2, <1>3, <1>4, <1>5 DEF Leads
<1> QED
  BY <1>2, <1>6 DEF rest

LEMMA LeadsHere == ASSUME NEW m, NEW end, Leads(m, <<>>, end) PROVE end = m
<1>1. Len(<<>>) = 0
  OBVIOUS
<1> QED
  BY <1>1 DEF Leads

--------------------------------------------------------------------------------
LayerTypes ==
    /\ surface \in [anchor : Side, margin : [Side -> Int], zone : {-1, 0}]
    /\ proxy \in [made : BOOLEAN, side : Side, zone : Nat]
    /\ note.side = NoteSide /\ note \in [side : Side, margin : Int]
    /\ mainTasks \in Seq(Tasks) /\ deferred \in Tasks
    /\ wish \in [side : Side, size : Nat, offset : Nat, reserve : BOOLEAN]
    /\ barCalls \in [todo : Seq(Tasks), due : {"no", "report", "relocation"}]
    /\ DOMAIN layerLeft = LayerEvents

\* A bar that keeps its strip never retracts; what is deferred is a reservation.
WishFits ==
    /\ wish.offset > 0 => ~wish.reserve
    /\ deferred # NoTask => deferred.kind = "reserve"
    /\ layerLeft["late"] = 0

\* A report under way says what is wanted, unless another is due.
ReportFits ==
    barCalls.due = "no" =>
        \E kind \in {"reserve", "defer"} :
            LET place == Task("place", wish.side, 0)
                move == Task("move", wish.side, wish.offset)
                last == Task(kind, wish.side, Zone)
            IN  barCalls.todo \in {<<place, move, last>>, <<move, last>>, <<last>>, <<>>}

\* Only the edge the bar is wanted at is reserved.
StripFits(m) == m.strip > 0 => m.made /\ m.side = wish.side
Margin(m, side) == IF side = "top" THEN m.top ELSE m.bottom
\* The bar is where it should be, off its strip or not.
Sits(m) ==
    /\ Margin(m, wish.side) + (IF m.side = wish.side THEN m.strip ELSE 0) = - wish.offset
    /\ m.zone = -1 => ~wish.reserve
NoteSits(m) == m.note + (IF m.side = NoteSide THEN m.strip ELSE 0) = NoteDistance

\* What is true once the waiting that wait have run: the more of a report has been made, the more.
Fits(m) ==
    /\ StripFits(m)
    /\ barCalls.due = "no" /\ Len(barCalls.todo) <= 2 => m.anchor = wish.side
    /\ barCalls.due = "no" /\ Len(barCalls.todo) <= 1 => Sits(m)
    /\ barCalls.due = "no" /\ Len(barCalls.todo) = 0 =>
           IF deferred = NoTask THEN m.strip = Zone /\ NoteSits(m) ELSE deferred.size = Zone

LayerInv ==
    /\ LayerTypes /\ WishFits /\ ReportFits
    /\ \E end \in Screens : Leads(Screen, mainTasks, end) /\ Fits(end)

NoneIsLate == \A b \in LayerBudgets : b["late"] = 0

LEMMA ScreenTyped == ASSUME LayerTypes PROVE Screen \in Screens
  BY DEF LayerTypes, Screen, Screens, Side

LEMMA LayerInvInit == ASSUME NoneIsLate, LayerInit PROVE LayerInv
<1>1. LayerTypes
  <2>1. wish \in [side : Side, size : Nat, offset : Nat, reserve : BOOLEAN]
    <3>1. wish \in [side : {"top"}, size : Nat, offset : {0}, reserve : {TRUE}]
      BY LayerAssumption DEF LayerInit
    <3>2. wish.side = "top" /\ wish.size \in Nat /\ wish.offset = 0 /\ wish.reserve = TRUE
      BY <3>1
    <3>3. wish = [side |-> wish.side, size |-> wish.size, offset |-> wish.offset, reserve |-> wish.reserve]
      BY <3>1
    <3>4. wish.side \in Side /\ wish.offset \in Nat
      BY <3>2 DEF Side
    <3>5. wish.reserve \in BOOLEAN
      BY <3>2, Zenon
    <3> QED
      BY <3>2, <3>3, <3>4, <3>5
  <2>3. NoteDistance \in Int /\ layerLeft \in [LayerEvents -> Nat]
    BY LayerAssumption DEF LayerInit
  <2>2. <<>> \in Seq(Tasks) /\ NoTask \in Tasks
    BY DEF NoTask, Tasks, Side
  <2> QED
    BY <2>1, <2>2, <2>3 DEF LayerInit, LayerTypes, NoMargins, Side, NoteSide
<1>2. WishFits /\ ReportFits
  BY DEF LayerInit, WishFits, ReportFits, NoneIsLate
<1>3. Leads(Screen, mainTasks, Screen) /\ Screen \in Screens
  BY <1>1, ScreenTyped, LeadsNowhere DEF LayerInit
<1>4. Fits(Screen)
  BY DEF LayerInit, Fits, StripFits, Screen
<1> QED
  BY <1>1, <1>2, <1>3, <1>4 DEF LayerInv

--------------------------------------------------------------------------------
\* RunTask does to the screen what ScreenAfter says.
LEMMA RunsAsSaid ==
    ASSUME LayerTypes, RunTask
    PROVE  /\ Screen' = ScreenAfter(Screen, Head(mainTasks)) /\ mainTasks # <<>> /\ mainTasks' = Tail(mainTasks)
           /\ UNCHANGED <<wish, barCalls, deferred, layerLeft>>
           /\ surface' \in [anchor : Side, margin : [Side -> Int], zone : {-1, 0}]
           /\ proxy' \in [made : BOOLEAN, side : Side, zone : Nat]
           /\ note'.side = NoteSide /\ note' \in [side : Side, margin : Int]
<1> DEFINE task == Head(mainTasks)
<1>1. mainTasks # <<>> /\ mainTasks' = Tail(mainTasks) /\ UNCHANGED <<wish, barCalls, deferred, layerLeft>>
  BY DEF RunTask
<1>2. task \in Tasks /\ task.size \in Nat /\ task.side \in Side
  <2>1. mainTasks \in Seq(Tasks)
    BY DEF LayerTypes
  <2>2. task \in Tasks
    BY <1>1, <2>1
  <2> QED
    BY <2>2 DEF Tasks
<1> DEFINE Surfaces == [anchor : Side, margin : [Side -> Int], zone : {-1, 0}]
           Proxies == [made : BOOLEAN, side : Side, zone : Nat]
           Notes == [side : Side, margin : Int]
<1>0. /\ surface \in Surfaces /\ proxy \in Proxies /\ note \in Notes /\ note.side = NoteSide
      /\ surface.margin \in [Side -> Int] /\ Height \in Nat /\ proxy.zone \in Nat
      /\ NoMargins \in [Side -> Int] /\ NoteDistance \in Nat
  BY LayerAssumption DEF LayerTypes, NoMargins, Height
<1>3. CASE task.kind = "place" /\ PlaceSurface(task)
  <2>1. Screen' = ScreenPlaced(Screen, task)
    BY <1>2, <1>3 DEF PlaceSurface, LayerTypes, Screen, ScreenPlaced, NoMargins, Side
  <2>2. surface' \in Surfaces /\ UNCHANGED <<proxy, note>>
    BY <1>0, <1>2, <1>3 DEF PlaceSurface
  <2> QED
    BY <1>0, <1>1, <1>3, <2>1, <2>2 DEF ScreenAfter
<1>4. CASE task.kind = "move" /\ MoveSurface(task)
  <2>1. Screen' = Moved(Screen, task)
    BY <1>2, <1>4 DEF MoveSurface, LayerTypes, Screen, Moved, NoMargins, Side, Height, High
  <2>2. surface' \in Surfaces /\ UNCHANGED <<proxy, note>>
    <3>1. [NoMargins EXCEPT ![task.side] = - task.size - Height] \in [Side -> Int]
      BY <1>0, <1>2
    <3>2. \E z \in {-1, 0}, m \in [Side -> Int] : surface' = [surface EXCEPT !.zone = z, !.margin = m]
      BY <1>0, <1>4, <3>1 DEF MoveSurface
    <3> QED
      BY <1>0, <1>4, <3>2 DEF MoveSurface
  <2> QED
    BY <1>0, <1>1, <1>4, <2>1, <2>2 DEF ScreenAfter
<1>5. CASE task.kind = "reserve" /\ ReserveEdge(task)
  <2> DEFINE given(side) == IF proxy.made /\ proxy.side = side THEN proxy.zone ELSE 0
             margins == [side \in Side |-> surface.margin[side] + given(side)
                                              - (IF task.side = side THEN task.size ELSE 0)]
             zone == IF task.size > 0 \/ surface.zone >= 0 THEN 0 ELSE surface.zone
  <2>1. surface' = [surface EXCEPT !.zone = zone, !.margin = margins] /\ UNCHANGED note
    BY <1>0, <1>5 DEF ReserveEdge, Shift
  <2>2. margins \in [Side -> Int] /\ zone \in {-1, 0}
    BY <1>0, <1>2
  <2>3. margins["top"] = surface.margin["top"] + given("top") - (IF task.side = "top" THEN task.size ELSE 0)
        /\ margins["bottom"] = surface.margin["bottom"] + given("bottom")
                                - (IF task.side = "bottom" THEN task.size ELSE 0)
    BY DEF Side
  <2> HIDE DEF margins, zone
  <2>4. surface' \in Surfaces /\ surface'.anchor = surface.anchor /\ surface'.zone = zone /\ surface'.margin = margins
    BY <1>0, <2>1, <2>2
  <2>5. proxy' \in Proxies /\ proxy'.made = (proxy.made \/ task.size > 0)
        /\ proxy'.side = (IF task.size > 0 THEN task.side ELSE proxy.side) /\ proxy'.zone = task.size
    <3>1. CASE task.size > 0
      BY <1>0, <1>2, <1>5, <3>1 DEF ReserveEdge
    <3>2. CASE ~(task.size > 0)
      <4>1. task.size = 0 /\ proxy' = [proxy EXCEPT !.zone = 0]
        BY <1>2, <1>5, <3>2 DEF ReserveEdge
      <4>2. proxy' \in Proxies /\ proxy'.made = proxy.made /\ proxy'.side = proxy.side /\ proxy'.zone = 0
        BY <1>0, <4>1
      <4>3. proxy.made \in BOOLEAN
        BY <1>0
      <4> QED
        BY <3>2, <4>1, <4>2, <4>3
    <3> QED
      BY <3>1, <3>2
  <2>6. Screen' = Reserved(Screen, task)
    BY <2>1, <2>3, <2>4, <2>5 DEF Screen, Reserved, Given, zone
  <2> QED
    BY <1>0, <1>1, <1>5, <2>1, <2>4, <2>5, <2>6 DEF ScreenAfter
<1>6. CASE task.kind = "note" /\ PlaceNote
  <2>1. Screen' = Noted(Screen)
    BY <1>2, <1>6 DEF PlaceNote, LayerTypes, Screen, Noted, Height, High
  <2>2. note' \in Notes /\ note'.side = NoteSide /\ UNCHANGED <<surface, proxy>>
    BY <1>0, <1>6 DEF PlaceNote
  <2> QED
    BY <1>0, <1>1, <1>6, <2>1, <2>2 DEF ScreenAfter
<1> QED
  BY <1>3, <1>4, <1>5, <1>6 DEF RunTask

\* What reserving the edge the bar is wanted at keeps, and what it brings about.
LEMMA AfterReserve ==
    ASSUME LayerTypes, NEW m \in Screens, NEW task \in Tasks, StripFits(m),
           task.kind = "reserve", task.side = wish.side
    PROVE  LET new == ScreenAfter(m, task)
           IN  /\ new \in Screens /\ StripFits(new) /\ new.strip = task.size /\ new.anchor = m.anchor
               /\ Sits(m) => Sits(new)
<1> DEFINE new == ScreenAfter(m, task)
<1>1. new = Reserved(m, task) /\ new \in Screens
  BY ScreenAfterTyped DEF ScreenAfter
<1>2. /\ m.strip \in Nat /\ m.top \in Int /\ m.bottom \in Int /\ m.zone \in {-1, 0} /\ m.made \in BOOLEAN
      /\ m.side \in {"top", "bottom"} /\ task.size \in Nat /\ wish.side \in {"top", "bottom"} /\ wish.offset \in Nat
  BY DEF Screens, Tasks, LayerTypes, Side
<1>3. /\ new.anchor = m.anchor /\ new.strip = task.size /\ new.made = (m.made \/ task.size > 0)
      /\ new.side = (IF task.size > 0 THEN task.side ELSE m.side)
      /\ new.zone = (IF task.size > 0 \/ m.zone >= 0 THEN 0 ELSE m.zone)
      /\ new.top = m.top + Given(m, "top") - (IF task.side = "top" THEN task.size ELSE 0)
      /\ new.bottom = m.bottom + Given(m, "bottom") - (IF task.side = "bottom" THEN task.size ELSE 0)
  BY <1>1 DEF Reserved
<1> HIDE DEF new
<1>4. StripFits(new)
  BY <1>2, <1>3 DEF StripFits
<1>5. ASSUME Sits(m) PROVE Sits(new)
  <2>1. m.strip > 0 => m.made /\ m.side = wish.side
    BY DEF StripFits
  <2>2. Margin(m, wish.side) + (IF m.side = wish.side THEN m.strip ELSE 0) = - wish.offset
        /\ (m.zone = -1 => ~wish.reserve)
    BY <1>5 DEF Sits
  <2>3. Given(m, wish.side) = (IF m.side = wish.side THEN m.strip ELSE 0)
    BY <1>2, <2>1 DEF Given
  <2>4. Margin(new, wish.side) = Margin(m, wish.side) + Given(m, wish.side) - task.size
    BY <1>2, <1>3 DEF Margin
  <2>5. (IF new.side = wish.side THEN new.strip ELSE 0) = task.size
    BY <1>2, <1>3
  <2>6. Margin(m, wish.side) \in Int /\ Given(m, wish.side) \in Nat
    BY <1>2 DEF Margin, Given
  <2>7. Margin(new, wish.side) + (IF new.side = wish.side THEN new.strip ELSE 0) = - wish.offset
    BY <1>2, <2>2, <2>3, <2>4, <2>5, <2>6
  <2>8. new.zone = -1 => ~wish.reserve
    BY <1>2, <1>3, <2>2
  <2> QED
    BY <2>7, <2>8 DEF Sits
<1> QED
  BY <1>1, <1>3, <1>4, <1>5 DEF new

LEMMA MoveSits ==
    ASSUME NEW m \in Screens, NEW task \in Tasks, NEW reserve, task.kind = "move",
           m.strip > 0 => m.made /\ m.side = task.side, task.size > 0 => ~reserve
    PROVE  LET new == ScreenAfter(m, task)
           IN  /\ new \in Screens /\ new.anchor = m.anchor /\ new.made = m.made
               /\ new.strip = m.strip /\ new.side = m.side /\ new.note = m.note
               /\ Margin(new, task.side) + (IF new.side = task.side THEN new.strip ELSE 0) = - task.size
               /\ new.zone = -1 => ~reserve
<1> DEFINE new == ScreenAfter(m, task)
<1>1. new = Moved(m, task) /\ new \in Screens
  BY ScreenAfterTyped DEF ScreenAfter
<1>2. /\ m.strip \in Nat /\ m.made \in BOOLEAN /\ m.side \in {"top", "bottom"}
      /\ task.size \in Nat /\ task.side \in {"top", "bottom"}
  BY DEF Screens, Tasks, Side
<1>3. /\ new.anchor = m.anchor /\ new.strip = m.strip /\ new.made = m.made /\ new.side = m.side /\ new.note = m.note
      /\ new.zone = (IF task.size > 0 THEN -1 ELSE 0)
      /\ new.top = (IF task.side = "top" THEN - task.size - High(m) ELSE 0)
      /\ new.bottom = (IF task.side = "bottom" THEN - task.size - High(m) ELSE 0)
  BY <1>1 DEF Moved
<1> HIDE DEF new
<1>4. High(m) = m.strip /\ Margin(new, task.side) = - task.size - m.strip
  BY <1>2, <1>3 DEF High, Margin
<1>5. (IF new.side = task.side THEN new.strip ELSE 0) = m.strip
  BY <1>2, <1>3
<1>6. new.zone = -1 => ~reserve
  BY <1>2, <1>3
<1>7. Margin(new, task.side) + (IF new.side = task.side THEN new.strip ELSE 0) = - task.size
  BY <1>2, <1>4, <1>5
<1> QED
  BY <1>1, <1>3, <1>6, <1>7 DEF new

LEMMA AfterPlace ==
    ASSUME LayerTypes, NEW m \in Screens, NEW task \in Tasks, StripFits(m), task.kind = "place"
    PROVE  LET new == ScreenAfter(m, task)
           IN  new \in Screens /\ StripFits(new) /\ new.anchor = task.side
<1> DEFINE new == ScreenAfter(m, task)
<1>1. new = ScreenPlaced(m, task) /\ new \in Screens
  BY ScreenAfterTyped DEF ScreenAfter
<1>2. new.anchor = task.side /\ new.strip = m.strip /\ new.made = m.made /\ new.side = m.side
  BY <1>1 DEF ScreenPlaced
<1> HIDE DEF new
<1> QED
  BY <1>1, <1>2 DEF StripFits, new

LEMMA AfterNote ==
    ASSUME LayerTypes, NEW m \in Screens, NEW task \in Tasks, StripFits(m),
           task.kind \notin {"place", "move", "reserve"}
    PROVE  LET new == ScreenAfter(m, task)
           IN  /\ new \in Screens /\ StripFits(new) /\ new.anchor = m.anchor /\ new.strip = m.strip
               /\ Sits(m) => Sits(new)
               /\ m.anchor = wish.side => NoteSits(new)
<1> DEFINE new == ScreenAfter(m, task)
<1>1. new = Noted(m) /\ new \in Screens
  BY ScreenAfterTyped DEF ScreenAfter
<1>2. m.strip \in Nat /\ m.made \in BOOLEAN /\ NoteDistance \in Nat
  BY LayerAssumption DEF Screens
<1>3. /\ new.anchor = m.anchor /\ new.strip = m.strip /\ new.made = m.made /\ new.side = m.side
      /\ new.zone = m.zone /\ new.top = m.top /\ new.bottom = m.bottom
      /\ new.note = NoteDistance - (IF NoteSide = m.anchor THEN High(m) ELSE 0)
  BY <1>1 DEF Noted
<1> HIDE DEF new
<1>4. StripFits(new)
  BY <1>3 DEF StripFits
<1>5. Sits(m) => Sits(new)
  BY <1>3 DEF Sits, Margin
<1>6. ASSUME m.anchor = wish.side PROVE NoteSits(new)
  <2>1. m.strip > 0 => m.made /\ m.side = m.anchor
    BY <1>6 DEF StripFits
  <2>2. High(m) = m.strip
    BY <1>2, <2>1 DEF High
  <2> QED
    BY <1>2, <1>3, <2>1, <2>2 DEF NoteSits
<1> QED
  BY <1>1, <1>3, <1>4, <1>5, <1>6 DEF new

--------------------------------------------------------------------------------
\* Nothing but the screen moves when a task runs.
LEMMA RunKeeps == ASSUME LayerInv, RunTask PROVE LayerInv'
<1>1. PICK end \in Screens : Leads(Screen, mainTasks, end) /\ Fits(end)
  BY DEF LayerInv
<1>2. LayerTypes /\ WishFits /\ ReportFits /\ mainTasks \in Seq(Tasks)
  BY DEF LayerInv, LayerTypes
<1>3. /\ Screen' = ScreenAfter(Screen, Head(mainTasks)) /\ mainTasks # <<>> /\ mainTasks' = Tail(mainTasks)
      /\ UNCHANGED <<wish, barCalls, deferred, layerLeft>>
      /\ surface' \in [anchor : Side, margin : [Side -> Int], zone : {-1, 0}]
      /\ proxy' \in [made : BOOLEAN, side : Side, zone : Nat]
      /\ note'.side = NoteSide /\ note' \in [side : Side, margin : Int]
  BY <1>2, RunsAsSaid
<1>4. Leads(Screen', mainTasks', end) /\ mainTasks' \in Seq(Tasks)
  BY <1>1, <1>2, <1>3, LeadsPast
<1>5. LayerTypes'
  BY <1>2, <1>3, <1>4 DEF LayerTypes
<1>6. WishFits' /\ ReportFits'
  BY <1>2, <1>3 DEF WishFits, ReportFits, Zone
<1>7. Fits(end)'
  BY <1>1, <1>3 DEF Fits, StripFits, Sits, Zone
<1> QED
  BY <1>4, <1>5, <1>6, <1>7 DEF LayerInv

\* What schedules waiting leaves the screen alone.
LEMMA SchedulesNone ==
    ASSUME LayerTypes, UNCHANGED <<surface, proxy, note, mainTasks>>, NEW end, Leads(Screen, mainTasks, end)
    PROVE  Leads(Screen', mainTasks', end) /\ mainTasks' \in Seq(Tasks)
  BY DEF LayerTypes, Screen

LEMMA SchedulesOne ==
    ASSUME LayerTypes, UNCHANGED <<surface, proxy, note>>, NEW end, Leads(Screen, mainTasks, end),
           NEW task \in Tasks, Schedules(<<task>>)
    PROVE  Leads(Screen', mainTasks', ScreenAfter(end, task)) /\ mainTasks' \in Seq(Tasks)
<1>1. mainTasks \in Seq(Tasks) /\ Screen' = Screen
  BY DEF LayerTypes, Screen
<1>2. mainTasks' = Append(mainTasks, task)
  BY <1>1 DEF Schedules
<1> QED
  BY <1>1, <1>2, LeadsOn

LEMMA SchedulesTwo ==
    ASSUME LayerTypes, UNCHANGED <<surface, proxy, note>>, NEW end, Leads(Screen, mainTasks, end),
           NEW task \in Tasks, NEW then \in Tasks, Schedules(<<task, then>>)
    PROVE  Leads(Screen', mainTasks', ScreenAfter(ScreenAfter(end, task), then)) /\ mainTasks' \in Seq(Tasks)
<1>1. mainTasks \in Seq(Tasks) /\ Screen' = Screen
  BY DEF LayerTypes, Screen
<1>2. mainTasks' = Append(Append(mainTasks, task), then)
  BY <1>1 DEF Schedules
<1>3. Leads(Screen, Append(mainTasks, task), ScreenAfter(end, task)) /\ Append(mainTasks, task) \in Seq(Tasks)
  BY <1>1, LeadsOn
<1> QED
  BY <1>1, <1>2, <1>3, LeadsOn

\* What leaves the budget for late reservations leaves it at nothing.
LEMMA SpendKeeps ==
    ASSUME LayerTypes, WishFits, NEW event, SpendLayer(event)
    PROVE  DOMAIN layerLeft' = LayerEvents /\ layerLeft'["late"] = 0 /\ event # "late"
<1>1. DOMAIN layerLeft = LayerEvents /\ layerLeft["late"] = 0
  BY DEF LayerTypes, WishFits
<1>2. layerLeft[event] > 0 /\ layerLeft' = [layerLeft EXCEPT ![event] = layerLeft[event] - 1]
  BY DEF SpendLayer
<1>3. event # "late"
  BY <1>1, <1>2
<1> QED
  BY <1>1, <1>2, <1>3

LEMMA TaskTyped ==
    ASSUME NEW kind \in {"place", "move", "reserve", "note", "defer", "none"}, NEW side \in Side, NEW size \in Nat
    PROVE  Task(kind, side, size) \in Tasks /\ Task(kind, side, size).kind = kind
           /\ Task(kind, side, size).side = side /\ Task(kind, side, size).size = size
  BY DEF Task, Tasks

LEMMA WishEdgeKeeps == ASSUME LayerInv, WishEdge PROVE LayerInv'
<1> DEFINE task == Task("reserve", wish.side, 0)
<1>1. PICK end \in Screens : Leads(Screen, mainTasks, end) /\ Fits(end)
  BY DEF LayerInv
<1>2. LayerTypes /\ WishFits /\ wish.side \in Side /\ wish.offset \in Nat
  BY DEF LayerInv, LayerTypes
<1>3. /\ SpendLayer("edge") /\ wish' = [wish EXCEPT !.side = Other(wish.side)] /\ Schedules(<<task>>)
      /\ barCalls' = [barCalls EXCEPT !.due = "relocation"] /\ UNCHANGED <<surface, proxy, note, deferred>>
  BY DEF WishEdge
<1>4. task \in Tasks /\ task.kind = "reserve" /\ task.side = wish.side /\ task.size = 0
  BY <1>2, TaskTyped
<1> HIDE DEF task
<1>5. Leads(Screen', mainTasks', ScreenAfter(end, task)) /\ mainTasks' \in Seq(Tasks)
  BY <1>1, <1>2, <1>3, <1>4, SchedulesOne
<1>6. PICK new \in Screens : new = ScreenAfter(end, task) /\ new.strip = 0
  BY <1>1, <1>2, <1>4, AfterReserve DEF Fits
<1>7. wish' \in [side : Side, size : Nat, offset : Nat, reserve : BOOLEAN]
      /\ wish'.offset = wish.offset /\ wish'.reserve = wish.reserve
  BY <1>2, <1>3 DEF LayerTypes, Other, Side
<1>8. barCalls' \in [todo : Seq(Tasks), due : {"no", "report", "relocation"}] /\ barCalls'.due = "relocation"
  BY <1>2, <1>3 DEF LayerTypes
<1>9. DOMAIN layerLeft' = LayerEvents /\ layerLeft'["late"] = 0
  BY <1>2, <1>3, SpendKeeps
<1>10. LayerTypes'
  BY <1>2, <1>3, <1>5, <1>7, <1>8, <1>9 DEF LayerTypes
<1>11. WishFits' /\ ReportFits'
  BY <1>2, <1>3, <1>7, <1>8, <1>9 DEF WishFits, ReportFits
<1>12. Fits(new)'
  BY <1>6, <1>8 DEF Fits, StripFits
<1> QED
  BY <1>5, <1>6, <1>10, <1>11, <1>12 DEF LayerInv

LEMMA WishSizeKeeps == ASSUME LayerInv, WishSize PROVE LayerInv'
<1>1. PICK end \in Screens : Leads(Screen, mainTasks, end) /\ Fits(end)
  BY DEF LayerInv
<1>2. LayerTypes /\ WishFits
  BY DEF LayerInv
<1>3. /\ SpendLayer("size") /\ (\E size \in Thickness : wish' = [wish EXCEPT !.size = size])
      /\ barCalls' = [barCalls EXCEPT !.due = "report"] /\ UNCHANGED <<surface, proxy, note, mainTasks, deferred>>
  BY DEF WishSize
<1>4. Leads(Screen', mainTasks', end) /\ mainTasks' \in Seq(Tasks)
  BY <1>1, <1>2, <1>3, SchedulesNone
<1>5. wish' \in [side : Side, size : Nat, offset : Nat, reserve : BOOLEAN]
      /\ wish'.offset = wish.offset /\ wish'.reserve = wish.reserve /\ wish'.side = wish.side
  BY <1>2, <1>3, LayerAssumption DEF LayerTypes
<1>6. barCalls' \in [todo : Seq(Tasks), due : {"no", "report", "relocation"}] /\ barCalls'.due = "report"
  BY <1>2, <1>3 DEF LayerTypes
<1>7. DOMAIN layerLeft' = LayerEvents /\ layerLeft'["late"] = 0
  BY <1>2, <1>3, SpendKeeps
<1>8. LayerTypes'
  BY <1>2, <1>3, <1>4, <1>5, <1>6, <1>7 DEF LayerTypes
<1>9. WishFits' /\ ReportFits'
  BY <1>2, <1>3, <1>5, <1>6, <1>7 DEF WishFits, ReportFits
<1>10. Fits(end)'
  BY <1>1, <1>5, <1>6 DEF Fits, StripFits
<1> QED
  BY <1>4, <1>8, <1>9, <1>10 DEF LayerInv

LEMMA WishBehaviorKeeps == ASSUME LayerInv, WishBehavior PROVE LayerInv'
<1> DEFINE size == IF wish.reserve THEN 0 ELSE wish.size
           task == Task("reserve", wish.side, size)
<1>1. PICK end \in Screens : Leads(Screen, mainTasks, end) /\ Fits(end)
  BY DEF LayerInv
<1>2. LayerTypes /\ WishFits /\ wish.side \in Side /\ size \in Nat
  BY DEF LayerInv, LayerTypes
<1>3. /\ SpendLayer("behavior") /\ wish' = [wish EXCEPT !.reserve = ~wish.reserve, !.offset = 0] /\ Schedules(<<task>>)
      /\ barCalls' = [barCalls EXCEPT !.due = IF barCalls.due = "no" THEN "report" ELSE barCalls.due]
      /\ UNCHANGED <<surface, proxy, note, deferred>>
  BY DEF WishBehavior
<1> HIDE DEF size
<1>4. task \in Tasks /\ task.kind = "reserve" /\ task.side = wish.side
  BY <1>2, TaskTyped
<1> HIDE DEF task
<1>5. Leads(Screen', mainTasks', ScreenAfter(end, task)) /\ mainTasks' \in Seq(Tasks)
  BY <1>1, <1>2, <1>3, <1>4, SchedulesOne
<1>6. PICK new \in Screens : new = ScreenAfter(end, task) /\ StripFits(new)
  BY <1>1, <1>2, <1>4, AfterReserve DEF Fits
<1>7. wish' \in [side : Side, size : Nat, offset : Nat, reserve : BOOLEAN]
      /\ wish'.offset = 0 /\ wish'.side = wish.side
  BY <1>2, <1>3 DEF LayerTypes
<1>8. barCalls' \in [todo : Seq(Tasks), due : {"no", "report", "relocation"}] /\ barCalls'.due # "no"
  BY <1>2, <1>3 DEF LayerTypes
<1>9. DOMAIN layerLeft' = LayerEvents /\ layerLeft'["late"] = 0
  BY <1>2, <1>3, SpendKeeps
<1>10. LayerTypes'
  BY <1>2, <1>3, <1>5, <1>7, <1>8, <1>9 DEF LayerTypes
<1>11. WishFits' /\ ReportFits'
  BY <1>2, <1>3, <1>7, <1>8, <1>9 DEF WishFits, ReportFits
<1>12. Fits(new)'
  BY <1>6, <1>7, <1>8 DEF Fits, StripFits
<1> QED
  BY <1>5, <1>6, <1>10, <1>11, <1>12 DEF LayerInv

LEMMA SlideKeeps == ASSUME LayerInv, Slide PROVE LayerInv'
<1>1. PICK end \in Screens : Leads(Screen, mainTasks, end) /\ Fits(end)
  BY DEF LayerInv
<1>2. LayerTypes /\ WishFits /\ wish.side \in Side
  BY DEF LayerInv, LayerTypes
<1>3. PICK offset \in {0, wish.size} :
         /\ SpendLayer("slide") /\ ~wish.reserve /\ barCalls = [todo |-> <<>>, due |-> "no"]
         /\ wish' = [wish EXCEPT !.offset = offset] /\ Schedules(<<Task("move", wish.side, offset)>>)
         /\ UNCHANGED <<surface, proxy, note, barCalls, deferred>>
  BY DEF Slide
<1>4. PICK task \in Tasks : /\ task = Task("move", wish.side, offset) /\ task.kind = "move"
                              /\ task.side = wish.side /\ task.size = offset /\ offset \in Nat
  <2>1. offset \in Nat
    BY <1>2 DEF LayerTypes
  <2> QED
    BY <1>2, <2>1, TaskTyped
<1>5. PICK new : new = ScreenAfter(end, task) /\ Leads(Screen', mainTasks', new) /\ mainTasks' \in Seq(Tasks)
  BY <1>1, <1>2, <1>3, <1>4, SchedulesOne
<1>6. /\ wish' \in [side : Side, size : Nat, offset : Nat, reserve : BOOLEAN]
      /\ wish'.offset = offset /\ wish'.side = wish.side /\ wish'.reserve = wish.reserve /\ wish'.size = wish.size
  BY <1>2, <1>3, <1>4 DEF LayerTypes
<1>7. DOMAIN layerLeft' = LayerEvents /\ layerLeft'["late"] = 0
  BY <1>2, <1>3, SpendKeeps
<1>8. LayerTypes'
  BY <1>2, <1>3, <1>5, <1>6, <1>7 DEF LayerTypes
<1>9. WishFits' /\ ReportFits'
  BY <1>2, <1>3, <1>6, <1>7 DEF WishFits, ReportFits
<1>10. end.strip > 0 => end.made /\ end.side = wish.side
  BY <1>1 DEF Fits, StripFits
<1>11. /\ new \in Screens /\ new.anchor = end.anchor /\ new.made = end.made
       /\ new.strip = end.strip /\ new.side = end.side /\ new.note = end.note
       /\ Margin(new, wish.side) + (IF new.side = wish.side THEN new.strip ELSE 0) = - offset
       /\ new.zone = -1 => ~wish.reserve
  BY <1>3, <1>4, <1>5, <1>10, MoveSits
<1>12. Len(barCalls.todo) = 0 /\ barCalls.due = "no" /\ barCalls' = barCalls /\ deferred' = deferred
  BY <1>3
<1>13. StripFits(new)' /\ Sits(new)'
  BY <1>6, <1>10, <1>11 DEF StripFits, Sits
<1>14. new.anchor = wish'.side
  BY <1>1, <1>6, <1>11, <1>12 DEF Fits
<1>15. IF deferred = NoTask THEN end.strip = Zone /\ NoteSits(end) ELSE deferred.size = Zone
  BY <1>1, <1>12 DEF Fits
<1>16. Zone' = Zone /\ (NoteSits(end) => NoteSits(new))
  BY <1>6, <1>11 DEF Zone, NoteSits
<1>17. Fits(new)'
  BY <1>11, <1>12, <1>13, <1>14, <1>15, <1>16 DEF Fits
<1> QED
  BY <1>5, <1>8, <1>9, <1>11, <1>17 DEF LayerInv

LEMMA ReportKeepsLayer == ASSUME LayerInv, ReportBar PROVE LayerInv'
<1>1. PICK end \in Screens : Leads(Screen, mainTasks, end) /\ Fits(end)
  BY DEF LayerInv
<1>2. LayerTypes /\ WishFits /\ wish.side \in Side /\ wish.offset \in Nat /\ Zone \in Nat
  BY DEF LayerInv, LayerTypes, Zone
<1>3. PICK kind \in {"reserve", "defer"} :
         barCalls' = [due |-> "no", todo |-> <<Task("place", wish.side, 0), Task("move", wish.side, wish.offset),
                                              Task(kind, wish.side, Zone)>>]
  BY DEF ReportBar
<1>4. UNCHANGED <<surface, proxy, note, mainTasks, wish, deferred, layerLeft>>
  BY DEF ReportBar
<1>5. Leads(Screen', mainTasks', end) /\ mainTasks' \in Seq(Tasks)
  BY <1>1, <1>2, <1>4, SchedulesNone
<1>6. barCalls' \in [todo : Seq(Tasks), due : {"no", "report", "relocation"}] /\ Len(barCalls'.todo) = 3
  <2>1. Task("place", wish.side, 0) \in Tasks /\ Task("move", wish.side, wish.offset) \in Tasks
        /\ Task(kind, wish.side, Zone) \in Tasks
    BY <1>2, TaskTyped
  <2> QED
    BY <1>3, <2>1
<1>7. LayerTypes' /\ WishFits'
  BY <1>2, <1>4, <1>5, <1>6 DEF LayerTypes, WishFits
<1>8. Zone' = Zone
  BY <1>4 DEF Zone
<1>9. ReportFits'
  BY <1>3, <1>4, <1>8 DEF ReportFits
<1>10. Fits(end)'
  BY <1>1, <1>4, <1>6 DEF Fits, StripFits
<1> QED
  BY <1>5, <1>7, <1>9, <1>10 DEF LayerInv

\* Which call of a report comes next.
LEMMA ReportNext ==
    ASSUME LayerTypes, ReportFits, barCalls.due = "no", barCalls.todo # <<>>
    PROVE  LET task == Head(barCalls.todo)
               n == Len(barCalls.todo)
           IN  /\ \/ n = 3 /\ task.kind = "place"
                  \/ n = 2 /\ task.kind = "move" /\ task.size = wish.offset
                  \/ n = 1 /\ task.kind \in {"reserve", "defer"} /\ task.size = Zone
               /\ task.side = wish.side /\ Len(Tail(barCalls.todo)) = n - 1
               /\ \E kind \in {"reserve", "defer"} :
                     Tail(barCalls.todo) \in {<<Task("move", wish.side, wish.offset), Task(kind, wish.side, Zone)>>,
                                              <<Task(kind, wish.side, Zone)>>, <<>>}
<1>1. PICK kind \in {"reserve", "defer"} :
         barCalls.todo \in {<<Task("place", wish.side, 0), Task("move", wish.side, wish.offset), Task(kind, wish.side, Zone)>>,
                            <<Task("move", wish.side, wish.offset), Task(kind, wish.side, Zone)>>,
                            <<Task(kind, wish.side, Zone)>>, <<>>}
  BY DEF ReportFits
<1>2. wish.side \in Side /\ wish.offset \in Nat /\ Zone \in Nat
  BY DEF LayerTypes, Zone
<1>3. PICK place, move, last :
         /\ place = Task("place", wish.side, 0) /\ move = Task("move", wish.side, wish.offset)
         /\ last = Task(kind, wish.side, Zone)
  OBVIOUS
<1>4. /\ place.kind = "place" /\ place.side = wish.side
      /\ move.kind = "move" /\ move.side = wish.side /\ move.size = wish.offset
      /\ last.kind = kind /\ last.side = wish.side /\ last.size = Zone
  BY <1>2, <1>3, TaskTyped
<1>5. CASE barCalls.todo = <<place, move, last>>
  <2>1. Head(barCalls.todo) = place /\ Tail(barCalls.todo) = <<move, last>> /\ Len(barCalls.todo) = 3
    BY <1>5
  <2> QED
    BY <1>3, <1>4, <2>1
<1>6. CASE barCalls.todo = <<move, last>>
  <2>1. Head(barCalls.todo) = move /\ Tail(barCalls.todo) = <<last>> /\ Len(barCalls.todo) = 2
    BY <1>6
  <2> QED
    BY <1>3, <1>4, <2>1
<1>7. CASE barCalls.todo = <<last>>
  <2>1. Head(barCalls.todo) = last /\ Tail(barCalls.todo) = <<>> /\ Len(barCalls.todo) = 1
    BY <1>7
  <2> QED
    BY <1>3, <1>4, <2>1
<1> QED
  BY <1>1, <1>3, <1>5, <1>6, <1>7

\* What Fits says of a report that has so many calls left.
LEMMA FitsAt ==
    ASSUME NEW m, Fits(m), barCalls.due = "no", NEW n \in 0 .. 3, Len(barCalls.todo) = n
    PROVE  /\ StripFits(m)
           /\ n \in {0, 1, 2} => m.anchor = wish.side
           /\ n \in {0, 1} => Sits(m)
           /\ n = 0 => IF deferred = NoTask THEN m.strip = Zone /\ NoteSits(m) ELSE deferred.size = Zone
<1>1. n \in {0, 1, 2} => Len(barCalls.todo) <= 2
  OBVIOUS
<1>2. n \in {0, 1} => Len(barCalls.todo) <= 1
  OBVIOUS
<1> QED
  BY <1>1, <1>2, Zenon DEF Fits

LEMMA NextCallKeeps == ASSUME LayerInv, NextCall PROVE LayerInv'
<1>1. PICK end \in Screens : Leads(Screen, mainTasks, end) /\ Fits(end)
  BY DEF LayerInv
<1>2. LayerTypes /\ WishFits /\ ReportFits /\ barCalls.todo \in Seq(Tasks) /\ wish.side \in Side
  BY DEF LayerInv, LayerTypes
<1>3. PICK task : task = Head(barCalls.todo)
  OBVIOUS
<1>4. /\ barCalls.todo # <<>> /\ barCalls' = [barCalls EXCEPT !.todo = Tail(barCalls.todo)]
      /\ UNCHANGED <<surface, proxy, note, wish>>
      /\ IF Late(task) THEN SpendLayer("late") ELSE UNCHANGED layerLeft
      /\ IF task.kind = "defer"
         THEN deferred' = [task EXCEPT !.kind = "reserve"] /\ UNCHANGED mainTasks
         ELSE IF task.kind = "reserve" THEN deferred' = NoTask /\ Schedules(<<task, Task("note", NoteSide, 0)>>)
         ELSE UNCHANGED deferred /\ Schedules(<<task>>)
  BY <1>3 DEF NextCall, Reserves
<1>5. ~Late(task) /\ layerLeft' = layerLeft
  BY <1>2, <1>4, SpendKeeps
<1>6. task \in Tasks /\ task.side \in Side /\ task.size \in Nat /\ Tail(barCalls.todo) \in Seq(Tasks)
  <2>1. task \in Tasks /\ Tail(barCalls.todo) \in Seq(Tasks)
    BY <1>2, <1>3, <1>4
  <2> QED
    BY <2>1 DEF Tasks
<1>7. barCalls' \in [todo : Seq(Tasks), due : {"no", "report", "relocation"}]
      /\ barCalls'.due = barCalls.due /\ barCalls'.todo = Tail(barCalls.todo)
  BY <1>2, <1>4, <1>6 DEF LayerTypes
<1>8. Zone' = Zone
  BY <1>4 DEF Zone
<1>9. ReportFits'
  <2>1. CASE barCalls.due = "no"
    BY <1>2, <1>4, <1>7, <1>8, <2>1, ReportNext DEF ReportFits
  <2> QED
    BY <1>7, <2>1 DEF ReportFits
<1>10. ASSUME deferred' \in Tasks, deferred' # NoTask => deferred'.kind = "reserve",
              NEW new \in Screens, Leads(Screen', mainTasks', new), mainTasks' \in Seq(Tasks), StripFits(new),
              barCalls.due = "no" =>
                  /\ Len(barCalls.todo) \in {1, 2, 3} /\ new.anchor = wish.side
                  /\ Len(barCalls.todo) \in {1, 2} => Sits(new)
                  /\ Len(barCalls.todo) = 1 =>
                        IF deferred' = NoTask THEN new.strip = Zone /\ NoteSits(new) ELSE deferred'.size = Zone
       PROVE  LayerInv'
  <2>1. LayerTypes' /\ WishFits'
    BY <1>2, <1>4, <1>5, <1>7, <1>10 DEF LayerTypes, WishFits
  <2>2. barCalls.due = "no" => Len(barCalls'.todo) = Len(barCalls.todo) - 1 /\ Len(barCalls.todo) \in Nat
    BY <1>2, <1>4, <1>7, ReportNext
  <2>3. StripFits(new)' /\ (Sits(new) => Sits(new)')
    BY <1>4, <1>10 DEF StripFits, Sits
  <2>4. Fits(new)'
    <3>1. CASE barCalls.due # "no"
      BY <1>7, <2>3, <3>1 DEF Fits
    <3>2. CASE barCalls.due = "no"
      <4>1. Len(barCalls.todo) \in {1, 2, 3} /\ Len(barCalls'.todo) = Len(barCalls.todo) - 1
        BY <1>10, <2>2, <3>2
      <4>2. /\ Len(barCalls'.todo) <= 2 => new.anchor = wish'.side
            /\ Len(barCalls'.todo) <= 1 => Len(barCalls.todo) \in {1, 2}
            /\ Len(barCalls'.todo) = 0 => Len(barCalls.todo) = 1
        <5>1. new.anchor = wish'.side
          BY <1>4, <1>10, <3>2
        <5>2. Len(barCalls'.todo) <= 1 => Len(barCalls.todo) \in {1, 2}
          BY <4>1, SMT
        <5>3. Len(barCalls'.todo) = 0 => Len(barCalls.todo) = 1
          BY <4>1, SMT
        <5> QED
          BY <5>1, <5>2, <5>3, Zenon
      <4>3. Len(barCalls'.todo) <= 1 => Sits(new)'
        BY <1>10, <2>3, <3>2, <4>2, Zenon
      <4>4. Len(barCalls'.todo) = 0 =>
               IF deferred' = NoTask THEN new.strip = Zone' /\ NoteSits(new) ELSE deferred'.size = Zone'
        BY <1>8, <1>10, <3>2, <4>2, Zenon
      <4>5. NoteSits(new)' <=> NoteSits(new)
        BY DEF NoteSits
      <4> QED
        BY <2>3, <4>2, <4>3, <4>4, <4>5, Zenon DEF Fits
    <3> QED
      BY <3>1, <3>2
  <2> QED
    BY <1>9, <1>10, <2>1, <2>4 DEF LayerInv
<1>11. StripFits(end)
  BY <1>1 DEF Fits
<1>12. CASE task.kind = "defer"
  <2>1. Leads(Screen', mainTasks', end) /\ mainTasks' \in Seq(Tasks)
    BY <1>1, <1>2, <1>4, <1>12, SchedulesNone
  <2>2. deferred' = [task EXCEPT !.kind = "reserve"]
    BY <1>4, <1>12
  <2>3. deferred' \in Tasks /\ deferred'.kind = "reserve" /\ deferred'.size = task.size
    BY <1>6, <2>2 DEF Tasks
  <2>4. deferred' # NoTask
    BY <2>3 DEF NoTask
  <2>5. barCalls.due = "no" => Len(barCalls.todo) = 1 /\ task.size = Zone
    BY <1>2, <1>3, <1>4, <1>12, ReportNext
  <2>6. barCalls.due = "no" => end.anchor = wish.side /\ Sits(end)
    BY <1>1, <2>5, FitsAt
  <2> QED
    BY <1>10, <1>11, <2>1, <2>3, <2>4, <2>5, <2>6
<1>13. CASE task.kind = "reserve"
  <2>0. PICK tell : tell = Task("note", NoteSide, 0) /\ tell \in Tasks /\ tell.kind = "note"
    BY TaskTyped DEF NoteSide, Side
  <2>1. deferred' = NoTask /\ NoTask \in Tasks /\ Schedules(<<task, tell>>)
    BY <1>4, <1>13, <2>0 DEF NoTask, Tasks, Side
  <2>2. task.side = wish.side
    BY <1>5, <1>13 DEF Late
  <2>3. PICK mid : /\ mid = ScreenAfter(end, task) /\ mid \in Screens /\ StripFits(mid) /\ mid.strip = task.size
                   /\ mid.anchor = end.anchor /\ (Sits(end) => Sits(mid))
    BY <1>1, <1>2, <1>6, <1>11, <1>13, <2>2, AfterReserve
  <2>4. PICK new : /\ new = ScreenAfter(mid, tell) /\ new \in Screens /\ StripFits(new) /\ new.anchor = mid.anchor
                   /\ new.strip = mid.strip /\ (Sits(mid) => Sits(new)) /\ (mid.anchor = wish.side => NoteSits(new))
    BY <1>2, <2>0, <2>3, AfterNote
  <2>5. Leads(Screen', mainTasks', new) /\ mainTasks' \in Seq(Tasks)
    BY <1>1, <1>2, <1>4, <1>6, <2>0, <2>1, <2>3, <2>4, SchedulesTwo
  <2>6. barCalls.due = "no" => Len(barCalls.todo) = 1 /\ task.size = Zone
    BY <1>2, <1>3, <1>4, <1>13, ReportNext
  <2>7. barCalls.due = "no" => end.anchor = wish.side /\ Sits(end)
    BY <1>1, <2>6, FitsAt
  <2>8. barCalls.due = "no" => new.anchor = wish.side /\ Sits(new) /\ new.strip = Zone /\ NoteSits(new)
    BY <2>3, <2>4, <2>6, <2>7
  <2> QED
    BY <1>10, <2>1, <2>4, <2>5, <2>6, <2>8
<1>14. CASE task.kind \notin {"defer", "reserve"}
  <2>1. deferred' = deferred /\ Schedules(<<task>>)
    BY <1>4, <1>14
  <2>2. deferred' \in Tasks /\ (deferred' # NoTask => deferred'.kind = "reserve")
    BY <1>2, <2>1 DEF LayerTypes, WishFits
  <2>3. PICK new : new = ScreenAfter(end, task) /\ Leads(Screen', mainTasks', new) /\ mainTasks' \in Seq(Tasks)
    BY <1>1, <1>2, <1>4, <1>6, <2>1, SchedulesOne
  <2>4. new \in Screens /\ StripFits(new)
    <3>1. CASE task.kind = "place"
      BY <1>2, <1>6, <1>11, <2>3, <3>1, AfterPlace
    <3>2. CASE task.kind = "move"
      <4>1. new.strip = end.strip /\ new.made = end.made /\ new.side = end.side /\ new \in Screens
        <5>1. new = Moved(end, task)
          BY <2>3, <3>2 DEF ScreenAfter
        <5>2. new \in Screens
          BY <1>6, <2>3, ScreenAfterTyped
        <5> QED
          BY <5>1, <5>2 DEF Moved
      <4> QED
        BY <1>11, <4>1 DEF StripFits
    <3>3. CASE task.kind \notin {"place", "move"}
      BY <1>2, <1>6, <1>11, <1>14, <2>3, <3>3, AfterNote
    <3> QED
      BY <3>1, <3>2, <3>3
  <2>5. ASSUME barCalls.due = "no"
        PROVE  \/ Len(barCalls.todo) = 3 /\ new.anchor = wish.side
               \/ Len(barCalls.todo) = 2 /\ new.anchor = wish.side /\ Sits(new)
    <3>1. task.side = wish.side /\ \/ Len(barCalls.todo) = 3 /\ task.kind = "place"
                                   \/ Len(barCalls.todo) = 2 /\ task.kind = "move" /\ task.size = wish.offset
      BY <1>2, <1>3, <1>4, <1>14, <2>5, ReportNext
    <3>2. CASE Len(barCalls.todo) = 3 /\ task.kind = "place"
      BY <1>2, <1>6, <1>11, <2>3, <3>1, <3>2, AfterPlace
    <3>3. CASE Len(barCalls.todo) = 2 /\ task.kind = "move" /\ task.size = wish.offset
      <4>1. end.anchor = wish.side
        BY <1>1, <2>5, <3>3, FitsAt
      <4>2. (end.strip > 0 => end.made /\ end.side = task.side) /\ (task.size > 0 => ~wish.reserve)
        BY <1>2, <1>11, <3>1, <3>3 DEF StripFits, WishFits
      <4>3. /\ new.anchor = end.anchor
            /\ Margin(new, task.side) + (IF new.side = task.side THEN new.strip ELSE 0) = - task.size
            /\ new.zone = -1 => ~wish.reserve
        BY <1>6, <2>3, <3>3, <4>2, MoveSits
      <4> QED
        BY <3>1, <3>3, <4>1, <4>3 DEF Sits
    <3> QED
      BY <3>1, <3>2, <3>3
  <2>6. barCalls.due = "no" => /\ Len(barCalls.todo) \in {2, 3} /\ new.anchor = wish.side
                               /\ Len(barCalls.todo) \in {1, 2} => Sits(new)
    <3>1. Len(barCalls.todo) = 3 => Len(barCalls.todo) \notin {1, 2}
      OBVIOUS
    <3> QED
      BY <2>5, <3>1
  <2>7. Len(barCalls.todo) \in {2, 3} => Len(barCalls.todo) \in {1, 2, 3} /\ Len(barCalls.todo) # 1
    OBVIOUS
  <2> QED
    BY <1>10, <2>2, <2>3, <2>4, <2>6, <2>7
<1> QED
  BY <1>12, <1>13, <1>14

LEMMA DeferredKeeps == ASSUME LayerInv, DeferredDue PROVE LayerInv'
<1>1. PICK end \in Screens : Leads(Screen, mainTasks, end) /\ Fits(end)
  BY DEF LayerInv
<1>2. LayerTypes /\ WishFits /\ ReportFits /\ deferred \in Tasks /\ wish.side \in Side
  BY DEF LayerInv, LayerTypes
<1>3. PICK tell : tell = Task("note", NoteSide, 0) /\ tell \in Tasks /\ tell.kind = "note"
  BY TaskTyped DEF NoteSide, Side
<1>4. /\ deferred # NoTask /\ deferred' = NoTask /\ Schedules(<<deferred, tell>>)
      /\ UNCHANGED <<surface, proxy, note, wish, barCalls>>
      /\ IF Late(deferred) THEN SpendLayer("late") ELSE UNCHANGED layerLeft
  BY <1>3 DEF DeferredDue, Reserves
<1>5. ~Late(deferred) /\ layerLeft' = layerLeft /\ deferred.kind = "reserve" /\ deferred.side = wish.side
  <2>1. ~Late(deferred) /\ layerLeft' = layerLeft
    BY <1>2, <1>4, SpendKeeps
  <2>2. deferred.kind = "reserve"
    BY <1>2, <1>4 DEF WishFits
  <2> QED
    BY <2>1, <2>2 DEF Late
<1>6. PICK mid : /\ mid = ScreenAfter(end, deferred) /\ mid \in Screens /\ StripFits(mid) /\ mid.strip = deferred.size
                 /\ mid.anchor = end.anchor /\ (Sits(end) => Sits(mid))
  BY <1>1, <1>2, <1>5, AfterReserve DEF Fits
<1>7. PICK new : /\ new = ScreenAfter(mid, tell) /\ new \in Screens /\ StripFits(new) /\ new.anchor = mid.anchor
                 /\ new.strip = mid.strip /\ (Sits(mid) => Sits(new)) /\ (mid.anchor = wish.side => NoteSits(new))
  BY <1>2, <1>3, <1>6, AfterNote
<1>8. Leads(Screen', mainTasks', new) /\ mainTasks' \in Seq(Tasks)
  BY <1>1, <1>2, <1>3, <1>4, <1>6, <1>7, SchedulesTwo
<1>9. Zone' = Zone /\ NoTask \in Tasks
  BY <1>4 DEF Zone, NoTask, Tasks, Side
<1>10. LayerTypes' /\ WishFits' /\ ReportFits'
  BY <1>2, <1>4, <1>5, <1>8, <1>9 DEF LayerTypes, WishFits, ReportFits
<1>11. StripFits(new)' /\ (Sits(new) => Sits(new)')
  BY <1>4, <1>7 DEF StripFits, Sits
<1>12. barCalls.todo \in Seq(Tasks) /\ Len(barCalls.todo) \in Nat
  BY <1>2 DEF LayerTypes
<1>13. Fits(new)'
  <2>1. StripFits(end)
    BY <1>1 DEF Fits
  <2>2. Len(barCalls.todo) = 0 => Len(barCalls.todo) <= 2 /\ Len(barCalls.todo) <= 1
    OBVIOUS
  <2>3. barCalls.due = "no" /\ Len(barCalls.todo) <= 2 => new.anchor = wish.side
    BY <1>1, <1>6, <1>7 DEF Fits
  <2>4. barCalls.due = "no" /\ Len(barCalls.todo) <= 1 => Sits(new)'
    BY <1>1, <1>6, <1>7, <1>11, Zenon DEF Fits
  <2>5. barCalls.due = "no" /\ Len(barCalls.todo) = 0 => new.strip = Zone /\ NoteSits(new)
    BY <1>1, <1>4, <1>6, <1>7, <2>2, <2>3, Zenon DEF Fits
  <2>6. NoteSits(new)' <=> NoteSits(new)
    BY DEF NoteSits
  <2> QED
    BY <1>4, <1>9, <1>11, <2>3, <2>4, <2>5, <2>6, Zenon DEF Fits
<1> QED
  BY <1>7, <1>8, <1>10, <1>13 DEF LayerInv

\* However reports, animations, edges, heights and behaviours follow each other, at rest the
\* bar sits in its own strip at the wanted edge and the notification window where it
\* belongs, as long as no reservation comes for an edge the bar has left (window.rs:382,
\* reservation.rs:20, surfaces/bar.rs:112).
THEOREM EverythingComesToSit == ASSUME NoneIsLate PROVE LayerSpec => []EverythingSitsRight
<1>1. LayerInv /\ [LayerNext]_layerVars => LayerInv'
  <2> SUFFICES ASSUME LayerInv, [LayerNext]_layerVars PROVE LayerInv'
    OBVIOUS
  <2>1. CASE UNCHANGED layerVars
    <3>1. LayerTypes' /\ WishFits' /\ ReportFits' /\ Screen' = Screen /\ mainTasks' = mainTasks
      BY <2>1 DEF LayerInv, LayerTypes, WishFits, ReportFits, Zone, Screen, layerVars
    <3>2. \A m \in Screens : Fits(m) => Fits(m)'
      BY <2>1 DEF Fits, StripFits, Sits, NoteSits, Zone, layerVars
    <3> QED
      BY <3>1, <3>2 DEF LayerInv
  <2> QED
    BY <2>1, RunKeeps, WishEdgeKeeps, WishSizeKeeps, WishBehaviorKeeps, SlideKeeps, ReportKeepsLayer,
       NextCallKeeps, DeferredKeeps DEF LayerNext
<1>2. LayerInv => EverythingSitsRight
  <2> SUFFICES ASSUME LayerInv, LayerQuiet
      PROVE  /\ surface.anchor = wish.side /\ Height = Zone
             /\ SitsAt(wish.side, surface.margin[wish.side], surface.zone = 0) = - wish.offset
             /\ SitsAt(note.side, note.margin, TRUE) = NoteDistance
    BY DEF EverythingSitsRight
  <2>1. mainTasks = <<>> /\ barCalls.todo = <<>> /\ barCalls.due = "no" /\ deferred = NoTask /\ Len(barCalls.todo) = 0
    BY DEF LayerQuiet
  <2>2. Fits(Screen) /\ LayerTypes
    BY <2>1, LeadsHere DEF LayerInv
  <2>3. Screen.anchor = wish.side /\ Sits(Screen) /\ Screen.strip = Zone /\ NoteSits(Screen) /\ StripFits(Screen)
    BY <2>1, <2>2 DEF Fits
  <2>4. /\ surface.zone \in {-1, 0} /\ proxy.zone \in Nat /\ wish.side \in {"top", "bottom"} /\ note.side = "top"
        /\ surface.margin \in [Side -> Int]
    BY <2>2 DEF LayerTypes, Side, NoteSide
  <2>5. Height = proxy.zone
    BY <2>3, <2>4 DEF StripFits, Screen, Height
  <2>6. Screen.anchor = surface.anchor /\ Screen.strip = proxy.zone /\ Screen.side = proxy.side
        /\ Screen.made = proxy.made /\ Screen.zone = surface.zone /\ Screen.note = note.margin
        /\ Margin(Screen, wish.side) = surface.margin[wish.side]
    BY <2>4 DEF Screen, Margin
  <2>7. SitsAt(wish.side, surface.margin[wish.side], surface.zone = 0) = - wish.offset
    <3>1. surface.margin[wish.side] + (IF proxy.side = wish.side THEN proxy.zone ELSE 0) = - wish.offset
          /\ (surface.zone = -1 => ~wish.reserve)
      BY <2>3, <2>6 DEF Sits
    <3>2. surface.zone = -1 => proxy.zone = 0
      BY <2>3, <2>6, <3>1 DEF Zone
    <3>3. proxy.zone > 0 => proxy.made
      BY <2>3, <2>6 DEF StripFits
    <3>4. wish.side \in Side /\ surface.margin[wish.side] \in Int
      BY <2>4 DEF Side
    <3> QED
      BY <2>4, <3>1, <3>2, <3>3, <3>4 DEF SitsAt
  <2>8. SitsAt(note.side, note.margin, TRUE) = NoteDistance
    <3>1. note.margin + (IF proxy.side = "top" THEN proxy.zone ELSE 0) = NoteDistance
      BY <2>3, <2>6 DEF NoteSits, NoteSide
    <3>2. proxy.zone > 0 => proxy.made
      BY <2>3, <2>6 DEF StripFits
    <3>3. note.margin \in Int
      BY <2>2 DEF LayerTypes
    <3> QED
      BY <2>4, <3>1, <3>2, <3>3 DEF SitsAt
  <2> QED
    BY <2>3, <2>5, <2>6, <2>7, <2>8
<1>3. LayerInit => LayerInv
  BY LayerInvInit
<1> QED
  BY <1>1, <1>2, <1>3, PTL DEF LayerSpec

--------------------------------------------------------------------------------
(****************************************************************************)
(* MacReservation.  Every window of another app gets its user's frame        *)
(* back: while the worker holds one, the frame it would give back is its     *)
(* user's, unless the user has given it another since.                       *)
(****************************************************************************)

\* What is known of the windows, and what the worker is about to do to them.
Areas    == {NoArea, Top, Bottom}
Workers  == [step : {"none", "loop", "restore", "ending", "reconcile"}, area : Areas, next : Areas,
             granted : BOOLEAN, dirty : BOOLEAN, todo : SUBSET MacWindow]
Accesses == [trusted : BOOLEAN, watched : SUBSET MacWindow, refused : SUBSET MacWindow]
WindowOf == [state : {"normal", "minimized", "closed"}, frame : Frame, late : Frame \cup {NoArea},
             style : {"prompt", "late", "least"}, mine : Frame]
SavedOf  == [before : Frame, after : Frame, requested : Frame, limited : BOOLEAN]
MacTypes ==
    /\ windows \in [MacWindow -> WindowOf]
    /\ DOMAIN adjusted \subseteq MacWindow /\ \A w \in DOMAIN adjusted : adjusted[w] \in SavedOf
    /\ worker \in Workers /\ access \in Accesses
    /\ worker.step = "reconcile" => worker.area # NoArea
    /\ changes \in Seq([stop : BOOLEAN, area : Areas])
OwnKeepLeast == \A w \in MacWindow : windows[w].style = "least" => windows[w].mine.h >= Least
\* A window the worker does not hold has its user's frame, or gets it as its app finishes.
LeftAlone(w) == windows[w].mine = IF windows[w].late = NoArea THEN windows[w].frame ELSE windows[w].late
\* The frame a held window gets back is its user's, unless the user gave it another since.
HeldFor(w) ==
    LET saved == adjusted[w]
    IN  IF windows[w].late # NoArea
        THEN windows[w].late = saved.requested /\ windows[w].frame = saved.after
             /\ saved.before = windows[w].mine
        ELSE windows[w].mine = IF Owned(saved, windows[w].frame) THEN saved.before ELSE windows[w].frame
FramesAreKept ==
    \A w \in Open \ excused : IF w \in DOMAIN adjusted THEN HeldFor(w) ELSE LeftAlone(w)
MacInv == MacTypes /\ OwnKeepLeast /\ FramesAreKept

LEMMA ScreenFacts ==
    /\ ScreenSize \in Nat /\ ScreenSize >= 2 /\ Least \in 1 .. ScreenSize
    /\ Placed \subseteq Frame /\ NoArea \notin Frame /\ {Top, Bottom} \subseteq Frame
    /\ NoArea # Top /\ NoArea # Bottom
<1>1. ScreenSize \in Nat /\ ScreenSize >= 2 /\ Least \in 1 .. ScreenSize /\ Placed \subseteq Frame
  BY MacAssumption
<1>2. NoArea.h = 0 /\ Top.h = ScreenSize - 1 /\ Bottom.h = ScreenSize - 1
  BY DEF NoArea, Top, Bottom
<1>3. NoArea \notin Frame /\ {Top, Bottom} \subseteq Frame
  BY <1>1, <1>2 DEF Frame, NoArea, Top, Bottom
<1> QED
  BY <1>1, <1>2, <1>3

LEMMA ConstrainFits == ASSUME NEW area \in {Top, Bottom}, NEW f \in Frame PROVE Constrain(area, f) \in Frame
<1>1. /\ area.y \in Nat /\ area.h \in Nat /\ area.h >= 1 /\ area.y + area.h <= ScreenSize
      /\ f.y \in 0 .. ScreenSize - 1 /\ f.h \in 1 .. ScreenSize
  BY ScreenFacts DEF Top, Bottom, Frame
<1> DEFINE h == IF f.h < area.h THEN f.h ELSE area.h
           low == IF f.y < area.y THEN area.y ELSE f.y
           y == IF low + h > area.y + area.h THEN area.y + area.h - h ELSE low
<1>2. h \in Nat /\ h >= 1 /\ h <= area.h /\ low \in Nat
  BY <1>1
<1>3. h \in 1 .. ScreenSize
  BY <1>1, <1>2, ScreenFacts
<1> HIDE DEF h, low
<1>4. y \in 0 .. ScreenSize - 1
  BY <1>1, <1>2, ScreenFacts
<1>5. Constrain(area, f) = [y |-> y, h |-> h]
  BY DEF Constrain, h, low
<1> HIDE DEF y
<1> QED
  BY <1>3, <1>4, <1>5 DEF Frame

\* What is left of a window when a frame was set.
LEMMA SetFrameSets ==
    ASSUME MacTypes, NEW w \in MacWindow, NEW f \in Frame, SetFrame(w, f)
    PROVE  /\ windows' \in [MacWindow -> WindowOf]
           /\ \A x \in MacWindow \ {w} : windows'[x] = windows[x]
           /\ windows'[w].state = windows[w].state /\ windows'[w].mine = windows[w].mine
           /\ windows'[w].style = windows[w].style
           /\ \/ windows'[w].late = f /\ windows'[w].frame = windows[w].frame
              \/ windows'[w].late = windows[w].late /\ windows'[w].frame = f
              \/ /\ windows'[w].late = windows[w].late /\ windows[w].style = "least" /\ ~(f.h >= Least)
<1> DEFINE old == windows[w]
           low == [y |-> f.y, h |-> Least]
           new == CASE old.style = "late" /\ f # old.frame -> [old EXCEPT !.late = f]
                    [] old.style = "least" /\ f.h < Least -> [old EXCEPT !.frame = low]
                    [] OTHER -> [old EXCEPT !.frame = f]
<1>1. windows' = [windows EXCEPT ![w] = new]
  BY DEF SetFrame
<1>2. old \in WindowOf
  BY DEF MacTypes
<1>3. low \in Frame /\ f.h \in Nat /\ Least \in Nat
  BY ScreenFacts DEF Frame
<1> HIDE DEF old, low
<1>4. \/ new = [old EXCEPT !.late = f]
      \/ new = [old EXCEPT !.frame = f]
      \/ new = [old EXCEPT !.frame = low] /\ old.style = "least" /\ f.h < Least
  <2>1. CASE old.style = "late" /\ f # old.frame
    BY <2>1
  <2>2. CASE ~(old.style = "late" /\ f # old.frame) /\ old.style = "least" /\ f.h < Least
    BY <2>2
  <2>3. CASE ~(old.style = "late" /\ f # old.frame) /\ ~(old.style = "least" /\ f.h < Least)
    BY <2>3
  <2> QED
    BY <2>1, <2>2, <2>3
<1> HIDE DEF new
<1>5. /\ new \in WindowOf /\ new.state = old.state /\ new.mine = old.mine /\ new.style = old.style
      /\ \/ new.late = f /\ new.frame = old.frame
         \/ new.late = old.late /\ new.frame = f
         \/ new.late = old.late /\ old.style = "least" /\ ~(f.h >= Least)
  BY <1>2, <1>3, <1>4 DEF WindowOf
<1>6. windows' \in [MacWindow -> WindowOf] /\ windows'[w] = new /\ \A x \in MacWindow \ {w} : windows'[x] = windows[x]
  BY <1>1, <1>5 DEF MacTypes
<1> QED
  BY <1>5, <1>6 DEF old

LEMMA MacInvInit == MacInit => MacInv
<1> SUFFICES ASSUME MacInit PROVE MacInv
  OBVIOUS
<1>1. \A w \in MacWindow : \E f \in Placed, s \in {"prompt", "late", "least"} :
          windows[w] = [state |-> "normal", frame |-> f, late |-> NoArea, style |-> s, mine |-> f]
  BY DEF MacInit
<1>2. \A w \in MacWindow : windows[w] \in WindowOf /\ windows[w].late = NoArea /\ windows[w].mine = windows[w].frame
  <2> SUFFICES ASSUME NEW w \in MacWindow
               PROVE  windows[w] \in WindowOf /\ windows[w].late = NoArea /\ windows[w].mine = windows[w].frame
    OBVIOUS
  <2>1. PICK f \in Placed, s \in {"prompt", "late", "least"} :
            windows[w] = [state |-> "normal", frame |-> f, late |-> NoArea, style |-> s, mine |-> f]
    BY <1>1
  <2>2. f \in Frame
    BY ScreenFacts
  <2> QED
    BY <2>1, <2>2 DEF WindowOf
<1>3. DOMAIN adjusted = {} /\ worker = NoWorker("none") /\ changes = <<>>
      /\ access = [trusted |-> TRUE, watched |-> {}, refused |-> {}]
  BY DEF MacInit
<1>4. windows \in [MacWindow -> WindowOf]
  BY <1>2 DEF MacInit
<1>5. MacTypes
  BY <1>3, <1>4 DEF MacTypes, NoWorker, Areas, Workers, Accesses
<1>6. OwnKeepLeast
  BY <1>2 DEF OwnKeepLeast, MacInit, Allowed
<1>7. FramesAreKept
  BY <1>2, <1>3 DEF FramesAreKept, Open, LeftAlone
<1> QED
  BY <1>5, <1>6, <1>7 DEF MacInv

\* Steps that touch no window and no saved frame.
LEMMA WorkerStepsKeep ==
    ASSUME MacInv, UNCHANGED <<windows, adjusted>>, MacTypes', excused \subseteq excused'
    PROVE  MacInv'
  BY DEF MacInv, OwnKeepLeast, FramesAreKept, HeldFor, LeftAlone, Owned, Open

\* A step of one window: the others are as they were.
LEMMA OneWindowKeeps ==
    ASSUME MacInv, MacTypes', NEW w \in MacWindow, \A x \in MacWindow \ {w} : windows'[x] = windows[x],
           excused \subseteq excused',
           \A x \in MacWindow \ {w} : x \in DOMAIN adjusted' <=> x \in DOMAIN adjusted,
           \A x \in DOMAIN adjusted \ {w} : adjusted'[x] = adjusted[x],
           windows'[w].style = "least" => windows'[w].mine.h >= Least,
           w \in Open' \ excused' => IF w \in DOMAIN adjusted' THEN HeldFor(w)' ELSE LeftAlone(w)'
    PROVE  MacInv'
<1>1. OwnKeepLeast'
  BY DEF MacInv, OwnKeepLeast
<1>2. ASSUME NEW x \in Open' \ excused', x # w
      PROVE  IF x \in DOMAIN adjusted' THEN HeldFor(x)' ELSE LeftAlone(x)'
  <2>1. x \in Open \ excused /\ windows'[x] = windows[x] /\ (x \in DOMAIN adjusted' <=> x \in DOMAIN adjusted)
    BY <1>2 DEF Open
  <2>2. IF x \in DOMAIN adjusted THEN HeldFor(x) ELSE LeftAlone(x)
    BY <2>1 DEF MacInv, FramesAreKept
  <2>3. CASE x \in DOMAIN adjusted
    BY <1>2, <2>1, <2>2, <2>3 DEF HeldFor, Owned
  <2>4. CASE x \notin DOMAIN adjusted
    BY <2>1, <2>2, <2>4 DEF LeftAlone
  <2> QED
    BY <2>1, <2>3, <2>4
<1>3. FramesAreKept'
  BY <1>2 DEF FramesAreKept
<1> QED
  BY <1>1, <1>3 DEF MacInv

\* What the user, an app and the system do to a window.
LEMMA CompleteKeeps == ASSUME MacInv, NEW w \in MacWindow, Complete(w) PROVE MacInv'
<1>1. /\ windows[w].late # NoArea /\ UNCHANGED <<adjusted, changes, access, excused>>
      /\ windows' = [windows EXCEPT ![w].frame = windows[w].late, ![w].late = NoArea]
      /\ worker' = [worker EXCEPT !.dirty = @ \/ w \in access.watched]
  BY DEF Complete, Notified
<1>2. windows[w] \in WindowOf /\ windows[w].late \in Frame
  BY <1>1 DEF MacInv, MacTypes, WindowOf
<1>3. /\ windows'[w] = [windows[w] EXCEPT !.frame = windows[w].late, !.late = NoArea]
      /\ \A x \in MacWindow \ {w} : windows'[x] = windows[x]
      /\ windows' = [x \in MacWindow |-> windows'[x]]
  BY <1>1 DEF MacInv, MacTypes
<1>4. /\ windows'[w] \in WindowOf /\ windows'[w].frame = windows[w].late /\ windows'[w].late = NoArea
      /\ windows'[w].mine = windows[w].mine /\ windows'[w].state = windows[w].state
      /\ windows'[w].style = windows[w].style
  BY <1>2, <1>3 DEF WindowOf
<1>5. MacTypes'
  BY <1>1, <1>3, <1>4 DEF MacInv, MacTypes, Workers
<1>6. w \in Open' \ excused' => IF w \in DOMAIN adjusted' THEN HeldFor(w)' ELSE LeftAlone(w)'
  <2> SUFFICES ASSUME w \in Open' \ excused' PROVE IF w \in DOMAIN adjusted' THEN HeldFor(w)' ELSE LeftAlone(w)'
    OBVIOUS
  <2>1. IF w \in DOMAIN adjusted THEN HeldFor(w) ELSE LeftAlone(w)
    BY <1>1, <1>4 DEF MacInv, FramesAreKept, Open
  <2> QED
    BY <1>1, <1>4, <2>1 DEF HeldFor, LeftAlone, Owned
<1>7. windows'[w].style = "least" => windows'[w].mine.h >= Least
  BY <1>4 DEF MacInv, OwnKeepLeast
<1> QED
  BY <1>1, <1>3, <1>5, <1>6, <1>7, OneWindowKeeps

LEMMA MoveWindowKeeps == ASSUME MacInv, NEW w \in MacWindow, MoveWindow(w) PROVE MacInv'
<1>1. UNCHANGED <<adjusted, changes, access, excused>> /\ worker' = [worker EXCEPT !.dirty = @ \/ w \in access.watched]
  BY DEF MoveWindow, Notified
<1>2. PICK f \in Placed :
        /\ Allowed(w, f) /\ (w \in DOMAIN adjusted => f \notin {adjusted[w].after, adjusted[w].requested})
        /\ windows' = [windows EXCEPT ![w] = [windows[w] EXCEPT !.frame = f, !.mine = f, !.late = NoArea]]
  BY DEF MoveWindow
<1>3. windows[w] \in WindowOf /\ f \in Frame
  BY ScreenFacts DEF MacInv, MacTypes
<1>4. /\ windows'[w] = [windows[w] EXCEPT !.frame = f, !.mine = f, !.late = NoArea]
      /\ \A x \in MacWindow \ {w} : windows'[x] = windows[x]
      /\ windows' = [x \in MacWindow |-> windows'[x]]
  BY <1>2 DEF MacInv, MacTypes
<1>5. /\ windows'[w] \in WindowOf /\ windows'[w].frame = f /\ windows'[w].late = NoArea
      /\ windows'[w].mine = f /\ windows'[w].style = windows[w].style
  BY <1>3, <1>4 DEF WindowOf
<1>6. MacTypes'
  BY <1>1, <1>4, <1>5 DEF MacInv, MacTypes, Workers
<1>7. IF w \in DOMAIN adjusted' THEN HeldFor(w)' ELSE LeftAlone(w)'
  BY <1>1, <1>2, <1>5 DEF HeldFor, LeftAlone, Owned
<1>8. windows'[w].style = "least" => windows'[w].mine.h >= Least
  BY <1>2, <1>5 DEF Allowed
<1> QED
  BY <1>1, <1>4, <1>6, <1>7, <1>8, OneWindowKeeps

LEMMA HideKeeps == ASSUME MacInv, NEW w \in MacWindow, HideWindow(w) \/ Unhide(w) PROVE MacInv'
<1>1. /\ UNCHANGED <<adjusted, changes, access, excused>>
      /\ worker' = [worker EXCEPT !.dirty = @ \/ w \in access.watched]
      /\ windows[w].state # "closed"
      /\ \E new \in {"normal", "minimized", "closed"} : windows' = [windows EXCEPT ![w].state = new]
  BY DEF HideWindow, Unhide, Notified
<1>2. PICK new \in {"normal", "minimized", "closed"} : windows' = [windows EXCEPT ![w].state = new]
  BY <1>1
<1>3. /\ windows'[w] = [windows[w] EXCEPT !.state = new]
      /\ \A x \in MacWindow \ {w} : windows'[x] = windows[x]
      /\ windows' = [x \in MacWindow |-> windows'[x]] /\ windows[w] \in WindowOf
  BY <1>2 DEF MacInv, MacTypes
<1>4. /\ windows'[w] \in WindowOf /\ windows'[w].frame = windows[w].frame /\ windows'[w].late = windows[w].late
      /\ windows'[w].mine = windows[w].mine /\ windows'[w].style = windows[w].style
  BY <1>3 DEF WindowOf
<1>5. MacTypes'
  BY <1>1, <1>3, <1>4 DEF MacInv, MacTypes, Workers
<1>6. w \in Open' \ excused' => IF w \in DOMAIN adjusted' THEN HeldFor(w)' ELSE LeftAlone(w)'
  <2> SUFFICES ASSUME w \in Open' \ excused' PROVE IF w \in DOMAIN adjusted' THEN HeldFor(w)' ELSE LeftAlone(w)'
    OBVIOUS
  <2>1. IF w \in DOMAIN adjusted THEN HeldFor(w) ELSE LeftAlone(w)
    BY <1>1 DEF MacInv, FramesAreKept, Open
  <2> QED
    BY <1>1, <1>4, <2>1 DEF HeldFor, LeftAlone, Owned
<1>7. windows'[w].style = "least" => windows'[w].mine.h >= Least
  BY <1>4 DEF MacInv, OwnKeepLeast
<1> QED
  BY <1>1, <1>3, <1>5, <1>6, <1>7, OneWindowKeeps

\* The frame a window gets back is its user's, or the app is one that could not be asked.
LEMMA RestoreWindowKeeps == ASSUME MacInv, NEW w \in MacWindow, RestoreWindow(w) PROVE MacInv'
<1>1. /\ w \in DOMAIN adjusted /\ adjusted' = [x \in DOMAIN adjusted \ {w} |-> adjusted[x]]
      /\ UNCHANGED <<worker, changes, access>>
      /\ \/ /\ windows[w].state = "normal" /\ Owned(adjusted[w], windows[w].frame)
            /\ SetFrame(w, adjusted[w].before)
            /\ excused' = IF windows[w].late = NoArea THEN excused ELSE excused \cup {w}
         \/ /\ windows[w].state # "normal" \/ ~Owned(adjusted[w], windows[w].frame)
            /\ excused' = IF windows[w].state = "normal" THEN excused ELSE excused \cup {w}
            /\ UNCHANGED windows
         \/ excused' = excused \cup {w} /\ UNCHANGED windows
  BY DEF RestoreWindow, Without
<1>2. /\ adjusted[w] \in SavedOf /\ adjusted[w].before \in Frame /\ windows[w] \in WindowOf
      /\ DOMAIN adjusted' = DOMAIN adjusted \ {w} /\ \A x \in DOMAIN adjusted \ {w} : adjusted'[x] = adjusted[x]
  BY <1>1 DEF MacInv, MacTypes, SavedOf
<1>3. excused \subseteq excused'
  BY <1>1
<1>4. w \in Open \ excused => HeldFor(w)
  BY <1>1 DEF MacInv, FramesAreKept
<1>5. windows[w].style = "least" => windows[w].mine.h >= Least
  BY DEF MacInv, OwnKeepLeast
<1>6. CASE /\ windows[w].state = "normal" /\ Owned(adjusted[w], windows[w].frame)
           /\ SetFrame(w, adjusted[w].before)
           /\ excused' = IF windows[w].late = NoArea THEN excused ELSE excused \cup {w}
  <2>1. /\ windows' \in [MacWindow -> WindowOf]
        /\ \A x \in MacWindow \ {w} : windows'[x] = windows[x]
        /\ windows'[w].state = windows[w].state /\ windows'[w].mine = windows[w].mine
        /\ windows'[w].style = windows[w].style
        /\ \/ windows'[w].late = adjusted[w].before /\ windows'[w].frame = windows[w].frame
           \/ windows'[w].late = windows[w].late /\ windows'[w].frame = adjusted[w].before
           \/ /\ windows'[w].late = windows[w].late /\ windows[w].style = "least"
              /\ ~(adjusted[w].before.h >= Least)
    BY <1>2, <1>6, SetFrameSets DEF MacInv
  <2>2. MacTypes'
    BY <1>1, <1>2, <2>1 DEF MacInv, MacTypes
  <2>3. w \in Open' \ excused' => LeftAlone(w)'
    <3> SUFFICES ASSUME w \in Open' \ excused' PROVE LeftAlone(w)'
      OBVIOUS
    <3>1. w \in Open \ excused /\ windows[w].late = NoArea
      BY <1>3, <1>6, <2>1 DEF Open
    <3>2. adjusted[w].before = windows[w].mine
      BY <1>4, <1>6, <3>1 DEF HeldFor
    <3>3. adjusted[w].before # NoArea
      BY <1>2, ScreenFacts
    <3> QED
      BY <1>5, <2>1, <3>1, <3>2, <3>3 DEF LeftAlone
  <2> QED
    BY <1>2, <1>3, <1>5, <2>1, <2>2, <2>3, OneWindowKeeps
<1>7. CASE /\ windows[w].state # "normal" \/ ~Owned(adjusted[w], windows[w].frame)
           /\ excused' = IF windows[w].state = "normal" THEN excused ELSE excused \cup {w}
           /\ UNCHANGED windows
  <2>1. MacTypes'
    BY <1>1, <1>2, <1>7 DEF MacInv, MacTypes
  <2>2. w \in Open' \ excused' => LeftAlone(w)'
    <3> SUFFICES ASSUME w \in Open' \ excused' PROVE LeftAlone(w)'
      OBVIOUS
    <3>1. w \in Open \ excused /\ ~Owned(adjusted[w], windows[w].frame)
      BY <1>3, <1>7 DEF Open
    <3> QED
      BY <1>4, <1>7, <3>1 DEF HeldFor, LeftAlone, Owned
  <2> QED
    BY <1>2, <1>3, <1>5, <1>7, <2>1, <2>2, OneWindowKeeps
<1>8. CASE excused' = excused \cup {w} /\ UNCHANGED windows
  <2>1. MacTypes'
    BY <1>1, <1>2, <1>8 DEF MacInv, MacTypes
  <2> QED
    BY <1>2, <1>3, <1>5, <1>8, <2>1, OneWindowKeeps
<1> QED
  BY <1>1, <1>6, <1>7, <1>8

\* A window is corrected: what is saved of it is what its user gave it last.
LEMMA CorrectKeeps == ASSUME MacInv, NEW w \in MacWindow, Correct(w) PROVE MacInv'
<1> DEFINE before == windows[w].frame
           ours == w \in DOMAIN adjusted
           old == IF ours /\ adjusted[w].requested = before
                  THEN [adjusted[w] EXCEPT !.after = before, !.limited = FALSE]
                  ELSE IF ours THEN adjusted[w]
                  ELSE [before |-> before, after |-> before, requested |-> before, limited |-> FALSE]
           after == Constrain(worker.area, before)
           leave == after = before \/ (ours /\ old.limited /\ old.after = before)
           new == [before |-> IF ours /\ old.after = before THEN old.before ELSE before,
                   after |-> windows'[w].frame, requested |-> after,
                   limited |-> windows'[w].frame # after]
<1>1. /\ worker.step = "reconcile" /\ UNCHANGED <<changes, access>>
      /\ IF leave THEN UNCHANGED windows ELSE SetFrame(w, after)
      /\ adjusted' = IF leave /\ ~ours THEN adjusted
                     ELSE [x \in DOMAIN adjusted \cup {w} |->
                              IF x # w THEN adjusted[x] ELSE IF leave THEN old ELSE new]
      /\ worker' = [worker EXCEPT !.todo = @ \ {w}, !.dirty = @ \/ (windows'[w].frame # before)]
      /\ excused' = IF leave \/ windows[w].late = NoArea THEN excused ELSE excused \cup {w}
  BY DEF Correct
<1>2. windows[w] \in WindowOf /\ before \in Frame /\ worker.area \in {Top, Bottom} /\ after \in Frame
  <2>1. windows[w] \in WindowOf /\ before \in Frame
    BY DEF MacInv, MacTypes, WindowOf
  <2>2. worker.area \in {Top, Bottom}
    BY <1>1 DEF MacInv, MacTypes, Workers, Areas
  <2> QED
    BY <2>1, <2>2, ConstrainFits
<1>3. ours => adjusted[w] \in SavedOf
  BY DEF MacInv, MacTypes
<1>4. /\ old \in SavedOf
      /\ ours => old.before = adjusted[w].before /\ old.requested = adjusted[w].requested
      /\ ours => old.after = IF adjusted[w].requested = before THEN before ELSE adjusted[w].after
  <2>1. CASE ours /\ adjusted[w].requested = before
    BY <1>2, <1>3, <2>1 DEF SavedOf
  <2>2. CASE ours /\ adjusted[w].requested # before
    BY <1>3, <2>2
  <2>3. CASE ~ours
    BY <1>2, <2>3 DEF SavedOf
  <2> QED
    BY <2>1, <2>2, <2>3
<1>5. w \in Open \ excused => IF ours THEN HeldFor(w) ELSE LeftAlone(w)
  BY DEF MacInv, FramesAreKept
<1>6. windows[w].style = "least" => windows[w].mine.h >= Least
  BY DEF MacInv, OwnKeepLeast
<1>7. excused \subseteq excused'
  BY <1>1
<1> HIDE DEF old, after
<1>8. worker' \in Workers /\ worker'.step = "reconcile" /\ worker'.area = worker.area
  BY <1>1 DEF MacInv, MacTypes, Workers
<1>9. CASE leave
  <2>1. UNCHANGED <<windows, excused>>
    BY <1>1, <1>9
  <2>2. CASE ~ours
    <3>1. adjusted' = adjusted
      BY <1>1, <1>9, <2>2
    <3>2. MacTypes'
      BY <1>1, <1>8, <2>1, <3>1 DEF MacInv, MacTypes
    <3> QED
      BY <1>7, <2>1, <3>1, <3>2, WorkerStepsKeep
  <2>3. CASE ours
    <3>1. /\ DOMAIN adjusted' = DOMAIN adjusted /\ adjusted'[w] = old
          /\ \A x \in DOMAIN adjusted \ {w} : adjusted'[x] = adjusted[x]
      BY <1>1, <1>9, <2>3
    <3>2. MacTypes'
      BY <1>1, <1>4, <1>8, <2>1, <3>1 DEF MacInv, MacTypes
    <3>3. w \in Open' \ excused' => HeldFor(w)'
      <4> SUFFICES ASSUME w \in Open \ excused PROVE HeldFor(w)'
        BY <2>1 DEF Open
      <4>1. HeldFor(w)
        BY <1>5, <2>3
      <4> QED
        BY <1>4, <2>1, <2>3, <3>1, <4>1 DEF HeldFor, Owned
    <3> QED
      BY <1>6, <1>7, <2>1, <2>3, <3>1, <3>2, <3>3, OneWindowKeeps
  <2> QED
    BY <2>2, <2>3
<1>10. CASE ~leave
  <2>1. SetFrame(w, after)
    BY <1>1, <1>10
  <2>2. /\ windows' \in [MacWindow -> WindowOf]
        /\ \A x \in MacWindow \ {w} : windows'[x] = windows[x]
        /\ windows'[w].state = windows[w].state /\ windows'[w].mine = windows[w].mine
        /\ windows'[w].style = windows[w].style /\ windows'[w].frame \in Frame
        /\ \/ windows'[w].late = after /\ windows'[w].frame = windows[w].frame
           \/ windows'[w].late = windows[w].late
    <3>1. /\ windows' \in [MacWindow -> WindowOf]
          /\ \A x \in MacWindow \ {w} : windows'[x] = windows[x]
          /\ windows'[w].state = windows[w].state /\ windows'[w].mine = windows[w].mine
          /\ windows'[w].style = windows[w].style
          /\ \/ windows'[w].late = after /\ windows'[w].frame = windows[w].frame
             \/ windows'[w].late = windows[w].late
      BY <1>2, <2>1, SetFrameSets DEF MacInv
    <3> QED
      BY <3>1 DEF WindowOf
  <2>3. /\ DOMAIN adjusted' = DOMAIN adjusted \cup {w} /\ adjusted'[w] = new
        /\ \A x \in DOMAIN adjusted \ {w} : adjusted'[x] = adjusted[x]
    BY <1>1, <1>10
  <2>4. new \in SavedOf
    <3>1. old.before \in Frame
      BY <1>4 DEF SavedOf
    <3> QED
      BY <1>2, <2>2, <3>1 DEF SavedOf
  <2>5. MacTypes'
    BY <1>1, <1>8, <2>2, <2>3, <2>4 DEF MacInv, MacTypes
  <2>6. w \in Open' \ excused' => HeldFor(w)'
    <3> SUFFICES ASSUME w \in Open' \ excused' PROVE HeldFor(w)'
      OBVIOUS
    <3>1. w \in Open \ excused /\ windows[w].late = NoArea
      BY <1>1, <1>7, <1>10, <2>2 DEF Open
    <3>2. new.before = windows[w].mine
      <4>1. CASE ours
        BY <1>4, <1>5, <3>1, <4>1 DEF HeldFor, Owned
      <4>2. CASE ~ours
        BY <1>5, <3>1, <4>2 DEF LeftAlone
      <4> QED
        BY <4>1, <4>2
    <3>3. after # NoArea /\ new.after = windows'[w].frame /\ new.requested = after
      BY <1>2, ScreenFacts
    <3> QED
      BY <2>2, <2>3, <3>1, <3>2, <3>3 DEF HeldFor, Owned
  <2>7. \A x \in MacWindow \ {w} : x \in DOMAIN adjusted' <=> x \in DOMAIN adjusted
    BY <2>3
  <2> QED
    BY <1>6, <1>7, <2>2, <2>3, <2>5, <2>6, <2>7, OneWindowKeeps
<1> QED
  BY <1>9, <1>10

LEMMA EndPassKeeps == ASSUME MacInv, EndPass PROVE MacInv'
<1>1. /\ adjusted' = [w \in DOMAIN adjusted \cap Open |-> adjusted[w]]
      /\ worker' \in Workers /\ worker'.step = "loop" /\ UNCHANGED <<windows, changes, access, excused>>
  BY DEF EndPass, AfterPass, MacInv, MacTypes, Workers
<1>2. /\ DOMAIN adjusted' = DOMAIN adjusted \cap Open
      /\ \A w \in DOMAIN adjusted' : adjusted'[w] = adjusted[w]
  BY <1>1
<1>3. MacTypes'
  BY <1>1, <1>2 DEF MacInv, MacTypes
<1>4. FramesAreKept'
  <2> SUFFICES ASSUME NEW w \in Open \ excused
               PROVE  IF w \in DOMAIN adjusted' THEN HeldFor(w)' ELSE LeftAlone(w)'
    BY <1>1 DEF FramesAreKept, Open
  <2>1. IF w \in DOMAIN adjusted THEN HeldFor(w) ELSE LeftAlone(w)
    BY DEF MacInv, FramesAreKept
  <2> QED
    BY <1>1, <1>2, <2>1 DEF HeldFor, LeftAlone, Owned
<1> QED
  BY <1>1, <1>3, <1>4 DEF MacInv, OwnKeepLeast

\* What the main thread asks for, the permission, and the worker between its passes.
LEMMA OtherMacSteps ==
    ASSUME MacInv,
           \/ Reserve \/ StopWorker \/ Trust \/ TakeChange \/ Restored \/ Permission
           \/ RefreshApps \/ BeginPass
           \/ \E w \in MacWindow : RefuseApp(w) \/ Skip(w)
    PROVE  MacInv'
<1> DEFINE Changes == [stop : BOOLEAN, area : Areas]
<1>0. /\ worker \in Workers /\ changes \in Seq(Changes) /\ access \in Accesses
      /\ worker.step = "reconcile" => worker.area # NoArea
      /\ Open \subseteq MacWindow
  BY DEF MacInv, MacTypes, Open
<1>1. ASSUME UNCHANGED <<windows, adjusted, excused>>, worker' \in Workers, changes' \in Seq(Changes),
             access' \in Accesses, worker'.step = "reconcile" => worker'.area # NoArea
      PROVE  MacInv'
  <2>1. MacTypes'
    BY <1>1 DEF MacInv, MacTypes
  <2> QED
    BY <1>1, <2>1, WorkerStepsKeep
<1>2. CASE Reserve
  <2>1. PICK area \in Areas : changes' = Append(changes, [stop |-> FALSE, area |-> area])
    BY <1>2 DEF Reserve, Areas
  <2>2. worker' = (IF worker.step = "none" THEN [NoWorker("loop") EXCEPT !.dirty = TRUE] ELSE worker)
        /\ UNCHANGED <<windows, adjusted, access, excused>>
    BY <1>2 DEF Reserve
  <2>3. [NoWorker("loop") EXCEPT !.dirty = TRUE] \in Workers /\ [NoWorker("loop") EXCEPT !.dirty = TRUE].step = "loop"
    BY DEF NoWorker, Areas, Workers
  <2>4. changes' \in Seq(Changes)
    <3>1. [stop |-> FALSE, area |-> area] \in Changes
      OBVIOUS
    <3> HIDE DEF Changes
    <3> QED
      BY <1>0, <2>1, <3>1
  <2> HIDE DEF Changes
  <2> QED
    BY <1>0, <1>1, <2>2, <2>3, <2>4
<1>3. CASE StopWorker
  <2>1. changes' = Append(changes, [stop |-> TRUE, area |-> NoArea]) /\ UNCHANGED <<windows, adjusted, worker, access, excused>>
    BY <1>3 DEF StopWorker
  <2>2. [stop |-> TRUE, area |-> NoArea] \in Changes
    BY DEF Areas
  <2> HIDE DEF Changes
  <2> QED
    BY <1>0, <1>1, <2>1, <2>2
<1>4. CASE Trust
  <2>1. access' = [access EXCEPT !.trusted = ~access.trusted] /\ UNCHANGED <<windows, adjusted, worker, changes, excused>>
    BY <1>4 DEF Trust
  <2>2. access' \in Accesses
    BY <1>0, <2>1 DEF Accesses
  <2> QED
    BY <1>0, <1>1, <2>1, <2>2
<1>5. CASE TakeChange
  <2>1. changes # <<>> /\ changes' = Tail(changes) /\ UNCHANGED <<windows, adjusted, access, excused>>
    BY <1>5 DEF TakeChange
  <2>2. changes' \in Seq(Changes) /\ Head(changes) \in Changes
    <3> HIDE DEF Changes
    <3> QED
      BY <1>0, <2>1
  <2>3. worker' \in Workers /\ worker'.step # "reconcile"
    <3>1. worker.step = "loop" /\ Head(changes).area \in Areas
      BY <1>5, <2>2 DEF TakeChange
    <3>2. \/ worker' = [worker EXCEPT !.step = "ending"] \/ worker' = worker
          \/ worker' = [worker EXCEPT !.step = "restore", !.next = Head(changes).area]
      BY <1>5 DEF TakeChange
    <3> QED
      BY <1>0, <3>1, <3>2 DEF Workers
  <2> HIDE DEF Changes
  <2> QED
    BY <1>0, <1>1, <2>1, <2>2, <2>3
<1>6. CASE Restored
  <2>1. UNCHANGED <<windows, adjusted, changes, excused>>
    BY <1>6 DEF Restored
  <2>2. worker' \in Workers /\ worker'.step # "reconcile"
    <3>1. \/ worker' = NoWorker("none")
          \/ worker' = [worker EXCEPT !.step = "loop", !.area = worker.next, !.next = NoArea, !.dirty = TRUE]
      BY <1>6 DEF Restored
    <3> QED
      <4>1. CASE worker' = NoWorker("none")
        BY <4>1 DEF NoWorker, Areas, Workers
      <4>2. CASE worker' = [worker EXCEPT !.step = "loop", !.area = worker.next, !.next = NoArea, !.dirty = TRUE]
        BY <1>0, <4>2 DEF Workers, Areas
      <4> QED
        BY <3>1, <4>1, <4>2
  <2>3. access' \in Accesses
    <3>1. access' = [access EXCEPT !.watched = {}, !.refused = {}] \/ access' = access
      BY <1>6 DEF Restored
    <3> QED
      BY <1>0, <3>1 DEF Accesses
  <2> HIDE DEF Changes
  <2> QED
    BY <1>0, <1>1, <2>1, <2>2, <2>3
<1>7. CASE Permission
  <2>1. /\ worker' = [worker EXCEPT !.granted = access.trusted, !.dirty = TRUE] /\ worker.step = "loop"
        /\ \E seen \in SUBSET access.watched : access' = [access EXCEPT !.refused = {}, !.watched = seen]
        /\ UNCHANGED <<windows, adjusted, changes, excused>>
    BY <1>7 DEF Permission, AtTop
  <2>2. worker' \in Workers /\ worker'.step # "reconcile" /\ access' \in Accesses
    BY <1>0, <2>1 DEF Workers, Accesses
  <2> HIDE DEF Changes
  <2> QED
    BY <1>0, <1>1, <2>1, <2>2
<1>8. CASE RefreshApps
  <2>1. /\ worker' = [worker EXCEPT !.dirty = TRUE] /\ worker.step = "loop"
        /\ access' = [access EXCEPT !.watched = Open \ access.refused, !.refused = access.refused \cap Open]
        /\ UNCHANGED <<windows, adjusted, changes, excused>>
    BY <1>8 DEF RefreshApps, AtTop
  <2>2. worker' \in Workers /\ worker'.step # "reconcile" /\ access' \in Accesses
    BY <1>0, <2>1 DEF Workers, Accesses
  <2> HIDE DEF Changes
  <2> QED
    BY <1>0, <1>1, <2>1, <2>2
<1>9. CASE BeginPass
  <2>1. /\ worker' = [worker EXCEPT !.step = "reconcile", !.dirty = FALSE, !.todo = access.watched \cap Open]
        /\ worker.area # NoArea /\ UNCHANGED <<windows, adjusted, changes, access, excused>>
    BY <1>9 DEF BeginPass, AtTop
  <2>2. worker' \in Workers /\ worker'.area # NoArea
    BY <1>0, <2>1 DEF Workers
  <2> HIDE DEF Changes
  <2> QED
    BY <1>0, <1>1, <2>1, <2>2
<1>10. ASSUME NEW w \in MacWindow, RefuseApp(w) PROVE MacInv'
  <2>1. access' = [access EXCEPT !.refused = access.refused \cup {w}] /\ UNCHANGED <<windows, adjusted, worker, changes, excused>>
    BY <1>10 DEF RefuseApp
  <2>2. access' \in Accesses
    BY <1>0, <2>1 DEF Accesses
  <2> HIDE DEF Changes
  <2> QED
    BY <1>0, <1>1, <2>1, <2>2
<1>11. ASSUME NEW w \in MacWindow, Skip(w) PROVE MacInv'
  <2>1. worker' = [worker EXCEPT !.todo = worker.todo \ {w}] /\ UNCHANGED <<windows, adjusted, changes, access, excused>>
    BY <1>11 DEF Skip
  <2>2. worker' \in Workers /\ worker'.area = worker.area /\ worker'.step = worker.step
    BY <1>0, <2>1 DEF Workers
  <2> HIDE DEF Changes
  <2> QED
    BY <1>0, <1>1, <2>1, <2>2
<1> QED
  BY <1>2, <1>3, <1>4, <1>5, <1>6, <1>7, <1>8, <1>9, <1>10, <1>11

\* However often windows are corrected, moved by their users, hidden and finished late, what
\* they are given back is the frame their users gave them last, for any windows, screen and
\* frames, if their apps could be asked (reservation.rs:147, :233).
THEOREM EdgesAreGivenBack == MacSpec => []WindowsComeBack
<1>1. MacInv /\ [MacNext]_macVars => MacInv'
  <2> SUFFICES ASSUME MacInv, [MacNext]_macVars PROVE MacInv'
    OBVIOUS
  <2>1. CASE UNCHANGED macVars
    BY <2>1 DEF macVars, MacInv, MacTypes, OwnKeepLeast, FramesAreKept, HeldFor, LeftAlone, Owned, Open
  <2>2. ASSUME NEW w \in MacWindow,
               \/ Complete(w) \/ MoveWindow(w) \/ HideWindow(w) \/ Unhide(w)
               \/ RestoreWindow(w) \/ Correct(w)
        PROVE  MacInv'
    BY <2>2, CompleteKeeps, MoveWindowKeeps, HideKeeps, RestoreWindowKeeps, CorrectKeeps
  <2>3. CASE MacNext
    BY <2>2, <2>3, EndPassKeeps, OtherMacSteps, Zenon DEF MacNext
  <2> QED
    BY <2>1, <2>3
<1>2. MacInv => WindowsComeBack
  <2> SUFFICES ASSUME MacInv, adjusted = << >>, Finished, NEW w \in Open \ excused
               PROVE  windows[w].frame = windows[w].mine
    BY DEF WindowsComeBack
  <2>1. w \notin DOMAIN adjusted /\ windows[w].late = NoArea
    BY DEF Finished, Open
  <2>2. LeftAlone(w)
    BY <2>1 DEF MacInv, FramesAreKept
  <2> QED
    BY <2>1, <2>2 DEF LeftAlone
<1>3. MacInit => MacInv
  BY MacInvInit
<1> QED
  BY <1>1, <1>2, <1>3, PTL DEF MacSpec
================================================================================
