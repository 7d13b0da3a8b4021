---------------------------- MODULE Surfaces_proofs ----------------------------
(* What smabar shows on the desktop, and whom it tells when it is gone. *)
EXTENDS OverlaySurface, Notifications, SurfaceFrames, BarSurface, SequenceTheorems,
        FiniteSetTheorems, WellFoundedInduction, TLAPS

--------------------------------------------------------------------------------
(****************************************************************************)
(* OverlaySurface.  A token that is still the paint generation was taken     *)
(* after the last content was staged, so the state read after it knows       *)
(* that content; staging makes every token taken before it void.             *)
(****************************************************************************)

Modes == {"peek", "pinned"}
PageLayouts == [Layer -> Size \cup {NoSize}]
StateRead == [active : [Layer -> Nat], layout : PageLayouts, generation : Nat, mode : Modes]
Snapshots == {NoFrame} \cup StateRead
CommandSteps == {"emit", "stage", "deliver", "pin", "token", "read", "clear", "place", "show",
                 "measure", "emptytoken", "empty"}
Command == [step : CommandSteps, layer : Layer, gen : Nat, mode : Modes, size : Size \cup {NoSize},
            ready : BOOLEAN, closes : [Layer -> Nat], token : Nat, snap : Snapshots, order : Nat]
LifecycleStates == [generation : Nat, active : [Layer -> Nat], layout : PageLayouts, mode : Modes,
                    frame : PageLayouts, ready : BOOLEAN, focused : BOOLEAN, focusGeneration : Nat]
OverlayWindows == [mapped : BOOLEAN, opaque : BOOLEAN, placed : PageLayouts, clickable : BOOLEAN, grab : Nat]

OverlayTypes ==
    /\ lifecycle \in LifecycleStates /\ paint \in Nat /\ page \in [Layer -> Nat]
    /\ ops \subseteq Command /\ window \in OverlayWindows
    /\ finishing \subseteq [reveal : BOOLEAN, token : Nat, snap : StateRead]
    /\ revealed \in [staged : Nat, shown : Nat, reads : Nat, acted : Nat]

\* The generation counts everything that was opened, staged or not.
GenerationsAreKnown ==
    /\ revealed.staged <= lifecycle.generation
    /\ \A l \in Layer : lifecycle.active[l] <= lifecycle.generation
    /\ \A op \in ops : op.step = "stage" => op.gen <= lifecycle.generation
\* Tokens were taken, not made up; a valid one covers what was staged.
TokensAreHonest ==
    /\ \A op \in ops : /\ op.token <= paint
                       /\ op.step \in {"place", "show"} => op.snap \in StateRead
                       /\ op.step \in {"place", "show"} /\ op.token = paint => op.snap.generation >= revealed.staged
    /\ \A f \in finishing : /\ f.token <= paint
                            /\ f.reveal /\ f.token = paint => f.snap.generation >= revealed.staged

OverlayInv == OverlayTypes /\ GenerationsAreKnown /\ TokensAreHonest /\ RevealIsFresh

LEMMA Values == /\ NoSize \in Size \cup {NoSize} /\ Nothing \in [Layer -> Nat] /\ NoFrame \in PageLayouts
                /\ NoFrame \in Snapshots /\ "flyout" \in Layer /\ "menu" \in Layer /\ "tooltip" \in Layer
  BY DEF NoSize, Nothing, NoGen, NoFrame, PageLayouts, Layer, Snapshots

LEMMA BlankFits == Blank \in Command
<1> DEFINE none == NoFrame
<1>1. none \in Snapshots /\ Nothing \in [Layer -> Nat]
  BY Values
<1>2. Blank = [step |-> "emit", layer |-> "flyout", gen |-> 0, mode |-> "peek", size |-> NoSize, ready |-> FALSE,
               closes |-> Nothing, token |-> 0, snap |-> none, order |-> 0]
  BY DEF Blank, NoGen
<1> HIDE DEF none
<1> QED
  BY <1>1, <1>2, Values DEF Command, CommandSteps, Modes

LEMMA OverlayInvInit == OverlayInit => OverlayInv
<1> SUFFICES ASSUME OverlayInit PROVE OverlayInv
  OBVIOUS
<1>1. OverlayTypes
  BY Values DEF OverlayInit, OverlayTypes, LifecycleStates, OverlayWindows, Modes
<1>2. GenerationsAreKnown
  BY DEF OverlayInit, GenerationsAreKnown, Nothing, NoGen
<1>3. TokensAreHonest /\ RevealIsFresh
  BY DEF OverlayInit, TokensAreHonest, RevealIsFresh
<1> QED
  BY <1>1, <1>2, <1>3 DEF OverlayInv

\* What a command or an event does besides painting: it may open and close layers, and
\* leave a command that holds no snapshot.
LEMMA CommandKeeps ==
    ASSUME OverlayInv, NEW op \in Command, ops' \subseteq ops \cup {op}, op.token <= paint,
           op.step \notin {"place", "show"}, op.step = "stage" => op.gen <= lifecycle'.generation,
           lifecycle' \in LifecycleStates, lifecycle'.generation >= lifecycle.generation,
           \A l \in Layer : lifecycle'.active[l] <= lifecycle'.generation,
           page' \in [Layer -> Nat], UNCHANGED <<paint, finishing, revealed>>,
           window' \in OverlayWindows, window'.opaque = window.opaque
    PROVE  OverlayInv'
<1>1. OverlayTypes'
  BY DEF OverlayInv, OverlayTypes
<1>2. ASSUME NEW o \in ops, o.step = "stage" PROVE o.gen <= lifecycle'.generation
  <2>1. o.gen \in Nat /\ lifecycle.generation \in Nat /\ lifecycle'.generation \in Nat /\ o.gen <= lifecycle.generation
    BY <1>2 DEF OverlayInv, OverlayTypes, GenerationsAreKnown, Command, LifecycleStates
  <2> QED
    BY <2>1
<1>3. revealed'.staged <= lifecycle'.generation
  <2>1. revealed.staged \in Nat /\ lifecycle.generation \in Nat /\ lifecycle'.generation \in Nat
    BY DEF OverlayInv, OverlayTypes, LifecycleStates
  <2> QED
    BY <2>1 DEF OverlayInv, GenerationsAreKnown
<1>4. GenerationsAreKnown'
  BY <1>2, <1>3 DEF GenerationsAreKnown
<1>5. TokensAreHonest'
  BY DEF OverlayInv, TokensAreHonest
<1>6. RevealIsFresh'
  BY DEF OverlayInv, RevealIsFresh
<1> QED
  BY <1>1, <1>4, <1>5, <1>6 DEF OverlayInv

\* The records commands are made of.
LEMMA OpensFits ==
    ASSUME OverlayTypes, NEW l \in Layer, NEW gen \in Nat, NEW mode \in Modes, NEW closes \in [Layer -> Nat]
    PROVE  /\ Opens(l, gen, mode, closes) \in Command /\ Opens(l, gen, mode, closes).token = 0
           /\ Opens(l, gen, mode, closes).step = "stage" /\ Opens(l, gen, mode, closes).gen = gen
<1>1. lifecycle.ready \in BOOLEAN
  BY DEF OverlayTypes, LifecycleStates
<1>2. Blank.token = 0
  BY DEF Blank
<1> QED
  BY <1>1, <1>2, BlankFits DEF Opens, Command, CommandSteps

LEMMA PresentsFits ==
    ASSUME NEW closes \in [Layer -> Nat]
    PROVE  Presents(closes) \in Command /\ Presents(closes).token = 0 /\ Presents(closes).step = "token"
<1>1. Blank.token = 0
  BY DEF Blank
<1> QED
  BY <1>1, BlankFits DEF Presents, Command, CommandSteps

LEMMA OpenKeeps ==
    ASSUME OverlayInv, \/ \E mode \in {"peek", "pinned"} : OpenFlyout(mode)
                       \/ \E b \in BOOLEAN : OpenMenu(b) \/ OpenTooltip(b)
    PROVE  OverlayInv'
<1>0. /\ OverlayTypes /\ lifecycle \in LifecycleStates /\ lifecycle.generation \in Nat
      /\ lifecycle.active \in [Layer -> Nat] /\ lifecycle.layout \in PageLayouts /\ NoSize \in Size \cup {NoSize}
      /\ \A l \in Layer : lifecycle.active[l] <= lifecycle.generation
  BY Values DEF OverlayInv, OverlayTypes, LifecycleStates, GenerationsAreKnown
<1>1. ASSUME NEW mode \in {"peek", "pinned"}, OpenFlyout(mode) PROVE OverlayInv'
  <2> DEFINE gen == lifecycle.generation + 1
             closes == [Nothing EXCEPT !["tooltip"] = lifecycle.active["tooltip"]]
             op == Opens("flyout", gen, mode, closes)
             active == [lifecycle.active EXCEPT !["flyout"] = gen, !["tooltip"] = NoGen]
             sizes == [lifecycle.layout EXCEPT !["flyout"] = NoSize, !["tooltip"] = NoSize]
  <2>1. gen \in Nat /\ mode \in Modes /\ closes \in [Layer -> Nat]
    BY <1>0, Values DEF Modes
  <2>2. active \in [Layer -> Nat] /\ sizes \in PageLayouts /\ \A l \in Layer : active[l] <= gen
    BY <1>0, <2>1 DEF NoGen, PageLayouts
  <2>3. /\ lifecycle' = [lifecycle EXCEPT !.generation = gen, !.mode = mode, !.active = active, !.layout = sizes]
        /\ ops' = ops \cup {op}
        /\ UNCHANGED <<paint, window, finishing, page, revealed>>
    BY <1>1 DEF OpenFlyout
  <2> HIDE DEF closes, gen
  <2>4. op \in Command /\ op.token = 0 /\ op.step = "stage" /\ op.gen = gen
    BY <1>0, <2>1, Values, OpensFits
  <2> USE DEF gen
  <2> HIDE DEF op, active, sizes, closes
  <2>5. lifecycle' \in LifecycleStates /\ lifecycle'.generation = gen /\ lifecycle'.active = active
    BY <1>0, <2>1, <2>2, <2>3 DEF LifecycleStates
  <2> QED
    BY <1>0, <2>1, <2>2, <2>3, <2>4, <2>5, CommandKeeps DEF OverlayInv, OverlayTypes
<1>2. ASSUME NEW b \in BOOLEAN, OpenMenu(b) PROVE OverlayInv'
  <2> DEFINE gen == lifecycle.generation + 1
             taken == {"tooltip"} \cup IF b THEN {} ELSE {"flyout"}
             closes == [l \in Layer |-> IF l \in taken THEN lifecycle.active[l] ELSE NoGen]
             op == Opens("menu", gen, "peek", closes)
             active == [l \in Layer |-> IF l = "menu" THEN gen ELSE IF l \in taken THEN NoGen ELSE lifecycle.active[l]]
             sizes == [l \in Layer |-> IF l \in taken \cup {"menu"} THEN NoSize ELSE lifecycle.layout[l]]
  <2>1. gen \in Nat /\ closes \in [Layer -> Nat]
    BY <1>0 DEF NoGen
  <2>2. active \in [Layer -> Nat] /\ sizes \in PageLayouts /\ \A l \in Layer : active[l] <= gen
    BY <1>0, <2>1 DEF NoGen, PageLayouts
  <2>3. /\ lifecycle' = [lifecycle EXCEPT !.generation = gen, !.active = active, !.layout = sizes]
        /\ ops' = ops \cup {op}
        /\ UNCHANGED <<paint, window, finishing, page, revealed>>
    BY <1>2 DEF OpenMenu
  <2>4. op \in Command /\ op.token = 0 /\ op.step = "stage" /\ op.gen = gen
    BY <1>0, <2>1, OpensFits DEF Layer, Modes
  <2> HIDE DEF op, active, sizes, closes
  <2>5. lifecycle' \in LifecycleStates /\ lifecycle'.generation = gen /\ lifecycle'.active = active
    BY <1>0, <2>1, <2>2, <2>3 DEF LifecycleStates
  <2> QED
    BY <1>0, <2>1, <2>2, <2>3, <2>4, <2>5, CommandKeeps DEF OverlayInv, OverlayTypes
<1>3. ASSUME NEW b \in BOOLEAN, OpenTooltip(b) PROVE OverlayInv'
  <2> DEFINE gen == IF b THEN lifecycle.active["tooltip"] ELSE lifecycle.generation + 1
             generation == IF b THEN lifecycle.generation ELSE gen
             step == IF b THEN "deliver" ELSE "stage"
             opened == Opens("tooltip", gen, "peek", Nothing)
             op == [opened EXCEPT !.step = step]
             active == [lifecycle.active EXCEPT !["tooltip"] = gen]
             sizes == [lifecycle.layout EXCEPT !["tooltip"] = IF b THEN @ ELSE NoSize]
  <2>1. gen \in Nat /\ generation \in Nat /\ gen <= generation /\ generation >= lifecycle.generation
    BY <1>0, Values
  <2>2. active \in [Layer -> Nat] /\ sizes \in PageLayouts
    BY <1>0, <2>1, Values DEF PageLayouts
  <2>6. \A l \in Layer : active[l] <= generation
    BY <1>0, <2>1
  <2>9. ops' = ops \cup {op} /\ UNCHANGED <<paint, window, finishing, page, revealed>>
    BY <1>3 DEF OpenTooltip
  <2>10. lifecycle' = [lifecycle EXCEPT !.generation = generation, !.active["tooltip"] = gen,
                                        !.layout["tooltip"] = IF b THEN @ ELSE NoSize]
    BY <1>3 DEF OpenTooltip
  <2>3. lifecycle' = [lifecycle EXCEPT !.generation = generation, !.active = active, !.layout = sizes]
    BY <1>0, <2>10 DEF LifecycleStates
  <2>4. opened \in Command /\ opened.token = 0 /\ opened.gen = gen
    BY <1>0, <2>1, Values, OpensFits DEF Layer, Modes
  <2>7. step \in {"deliver", "stage"}
    OBVIOUS
  <2> HIDE DEF opened, active, sizes, generation, gen, step
  <2>5. op \in Command /\ op.token = 0 /\ op.gen = gen /\ op.step = step
    BY <2>4, <2>7 DEF Command, CommandSteps
  <2> HIDE DEF op
  <2>8. lifecycle' \in LifecycleStates /\ lifecycle'.generation = generation /\ lifecycle'.active = active
    BY <1>0, <2>1, <2>2, <2>3 DEF LifecycleStates
  <2>11. op.token <= paint
    BY <1>0, <2>5 DEF OverlayTypes
  <2> QED
    BY <1>0, <2>1, <2>2, <2>5, <2>6, <2>7, <2>8, <2>9, <2>11, CommandKeeps DEF OverlayInv, OverlayTypes
<1> QED
  BY <1>1, <1>2, <1>3

\* A command that goes on or ends, an event that starts one: the lifecycle stays.
LEMMA StepKeeps ==
    ASSUME OverlayInv, NEW op \in Command, ops' \subseteq ops \cup {op}, op.token <= paint,
           op.step \notin {"place", "show", "stage"},
           UNCHANGED <<lifecycle, paint, finishing, revealed>>, page' \in [Layer -> Nat],
           window' \in OverlayWindows, window'.opaque = window.opaque
    PROVE  OverlayInv'
<1>1. lifecycle' \in LifecycleStates /\ lifecycle'.generation >= lifecycle.generation
  BY DEF OverlayInv, OverlayTypes, LifecycleStates
<1>2. \A l \in Layer : lifecycle'.active[l] <= lifecycle'.generation
  BY DEF OverlayInv, GenerationsAreKnown
<1> QED
  BY <1>1, <1>2, CommandKeeps

LEMMA PinKeeps ==
    ASSUME OverlayInv, NEW op \in ops, Pin(op)
    PROVE  OverlayInv'
<1>0. /\ OverlayTypes /\ lifecycle \in LifecycleStates /\ lifecycle.generation \in Nat /\ op \in Command
      /\ lifecycle.active \in [Layer -> Nat] /\ lifecycle.layout \in PageLayouts /\ NoSize \in Size \cup {NoSize}
      /\ \A l \in Layer : lifecycle.active[l] <= lifecycle.generation
  BY Values DEF OverlayInv, OverlayTypes, LifecycleStates, GenerationsAreKnown
<1>1. UNCHANGED <<paint, window, finishing, page, revealed>>
  BY DEF Pin
<1>2. CASE lifecycle.active["flyout"] = op.gen /\ lifecycle.mode = "peek"
  <2> DEFINE preserve == ~op.ready /\ lifecycle.layout["flyout"] # NoSize
             sizes == [lifecycle.layout EXCEPT !["flyout"] = IF preserve THEN @ ELSE NoSize]
             step == IF preserve THEN "deliver" ELSE "stage"
             opened == Opens("flyout", op.gen, "pinned", Nothing)
             next == [opened EXCEPT !.step = step, !.ready = TRUE]
  <2>1. lifecycle' = [lifecycle EXCEPT !.mode = "pinned", !.layout = sizes] /\ ops' = (ops \ {op}) \cup {next}
    BY <1>2 DEF Pin, Continue
  <2>2. sizes \in PageLayouts /\ step \in {"deliver", "stage"}
    BY <1>0, Values DEF PageLayouts
  <2>3. opened \in Command /\ opened.token = 0 /\ opened.gen = op.gen
    BY <1>0, Values, OpensFits DEF Command, Modes
  <2> HIDE DEF opened, sizes, step
  <2>4. next \in Command /\ next.token = 0 /\ next.gen = op.gen /\ next.step = step
    BY <2>2, <2>3 DEF Command, CommandSteps
  <2> HIDE DEF next
  <2>5. /\ lifecycle' \in LifecycleStates /\ lifecycle'.generation = lifecycle.generation
        /\ lifecycle'.active = lifecycle.active
    BY <1>0, <2>1, <2>2 DEF LifecycleStates, Modes
  <2>6. next.gen <= lifecycle'.generation /\ next.token <= paint
    BY <1>0, <1>2, <2>4, <2>5, Values DEF OverlayTypes
  <2>7. lifecycle'.generation >= lifecycle.generation /\ \A l \in Layer : lifecycle'.active[l] <= lifecycle'.generation
    BY <1>0, <2>5
  <2>8. page' \in [Layer -> Nat] /\ window' \in OverlayWindows /\ window'.opaque = window.opaque
    BY <1>0, <1>1 DEF OverlayTypes
  <2>9. ops' \subseteq ops \cup {next} /\ next.step \notin {"place", "show"}
    BY <2>1, <2>2, <2>4
  <2> QED
    BY <1>1, <2>4, <2>5, <2>6, <2>7, <2>8, <2>9, CommandKeeps
<1>3. CASE ~(lifecycle.active["flyout"] = op.gen /\ lifecycle.mode = "peek")
  <2>1. ops' = ops \ {op} /\ UNCHANGED lifecycle
    BY <1>3 DEF Pin, Finished
  <2>2. Blank.token = 0 /\ Blank.step = "emit" /\ 0 <= paint
    BY <1>0 DEF Blank, OverlayTypes
  <2> QED
    BY <1>0, <1>1, <2>1, <2>2, BlankFits, StepKeeps DEF OverlayTypes
<1> QED
  BY <1>2, <1>3

\* Events that touch neither the lifecycle nor the paint: a command begins, goes on or ends.
LEMMA QuietKeeps ==
    ASSUME OverlayInv, \/ Promote \/ AskClear
                       \/ \E l \in Layer, size \in Size : ReportMeasure(l, size)
                       \/ \E op \in ops : Deliver(op) \/ TakeToken(op) \/ Emit(op) \/ ClearToken(op)
    PROVE  OverlayInv'
<1>0. /\ OverlayTypes /\ paint \in Nat /\ page \in [Layer -> Nat] /\ \A op \in ops : op \in Command
      /\ window \in OverlayWindows /\ Blank \in Command /\ Blank.token = 0
  BY BlankFits DEF OverlayInv, OverlayTypes, Blank
<1>1. ASSUME NEW gen \in Nat, NEW ready \in BOOLEAN
      PROVE  /\ [Blank EXCEPT !.step = "pin", !.gen = gen, !.ready = ready] \in Command
             /\ [Blank EXCEPT !.step = "pin", !.gen = gen, !.ready = ready].token = 0
             /\ [Blank EXCEPT !.step = "pin", !.gen = gen, !.ready = ready].step = "pin"
  BY <1>0 DEF Command, CommandSteps
<1>9. ASSUME NEW gen \in Nat, NEW size \in Size \cup {NoSize}, NEW l \in Layer
      PROVE  /\ [Blank EXCEPT !.step = "measure", !.layer = l, !.gen = gen, !.size = size] \in Command
             /\ [Blank EXCEPT !.step = "measure", !.layer = l, !.gen = gen, !.size = size].token = 0
             /\ [Blank EXCEPT !.step = "measure", !.layer = l, !.gen = gen, !.size = size].step = "measure"
  BY <1>0 DEF Command, CommandSteps
<1>10. /\ [Blank EXCEPT !.step = "emptytoken"] \in Command
       /\ [Blank EXCEPT !.step = "emptytoken"].token = 0
       /\ [Blank EXCEPT !.step = "emptytoken"].step = "emptytoken"
  BY <1>0 DEF Command, CommandSteps
<1>2. CASE Promote
  <2>1. PICK ready \in BOOLEAN : ops' = ops \cup {[Blank EXCEPT !.step = "pin", !.gen = page["flyout"], !.ready = ready]}
    BY <1>2 DEF Promote
  <2>2. UNCHANGED <<lifecycle, paint, window, finishing, page, revealed>> /\ page["flyout"] \in Nat /\ "pin" \in CommandSteps
    BY <1>0, <1>2, Values DEF Promote, CommandSteps
  <2> DEFINE op == [Blank EXCEPT !.step = "pin", !.gen = page["flyout"], !.ready = ready]
  <2>3. op \in Command /\ op.token = 0 /\ op.step = "pin"
    BY <1>1, <2>2, Values
  <2> HIDE DEF op
  <2>4. ops' \subseteq ops \cup {op} /\ op.token <= paint
    BY <1>0, <2>1, <2>3 DEF op
  <2> QED
    BY <1>0, <2>2, <2>3, <2>4, StepKeeps
<1>3. CASE AskClear
  <2> DEFINE op == [Blank EXCEPT !.step = "emptytoken"]
  <2>1. ops' = ops \cup {op} /\ UNCHANGED <<lifecycle, paint, window, finishing, page, revealed>>
    BY <1>3 DEF AskClear
  <2>2. op \in Command /\ op.token = 0 /\ op.step = "emptytoken"
    BY <1>10
  <2> HIDE DEF op
  <2>3. op.token <= paint
    BY <1>0, <2>2
  <2> QED
    BY <1>0, <2>1, <2>2, <2>3, StepKeeps
<1>4. ASSUME NEW l \in Layer, NEW size \in Size, ReportMeasure(l, size) PROVE OverlayInv'
  <2> DEFINE op == [Blank EXCEPT !.step = "measure", !.layer = l, !.gen = page[l], !.size = size]
  <2>1. ops' = ops \cup {op} /\ UNCHANGED <<lifecycle, paint, window, finishing, page, revealed>>
    BY <1>4 DEF ReportMeasure
  <2>2. op \in Command /\ op.token = 0 /\ op.step = "measure"
    BY <1>0, <1>9
  <2> HIDE DEF op
  <2>3. op.token <= paint
    BY <1>0, <2>2
  <2> QED
    BY <1>0, <2>1, <2>2, <2>3, StepKeeps
<1>5. ASSUME NEW held \in [Layer -> Nat], NEW closes PROVE Closed(held, closes) \in [Layer -> Nat]
  BY <1>5 DEF Closed, NoGen
<1>6. ASSUME NEW op \in ops, Deliver(op) PROVE OverlayInv'
  <2>1. ops' = ops \ {op} /\ UNCHANGED <<lifecycle, paint, window, finishing, revealed>>
    BY <1>6 DEF Deliver, Finished
  <2> DEFINE held == Closed(page, op.closes)
  <2>2. held \in [Layer -> Nat] /\ op.gen \in Nat
    BY <1>0, <1>5 DEF Command
  <2>3. page' = held \/ page' = Requested(held, op.layer, op.gen)
    BY <1>6 DEF Deliver
  <2> HIDE DEF held
  <2>4. page' \in [Layer -> Nat]
    BY <2>2, <2>3 DEF Requested
  <2>5. Blank.step = "emit" /\ 0 <= paint
    BY <1>0 DEF Blank
  <2> QED
    BY <1>0, <2>1, <2>4, <2>5, StepKeeps
<1>7. ASSUME NEW op \in ops, Emit(op) PROVE OverlayInv'
  <2>1. ops' = ops \ {op} /\ UNCHANGED <<lifecycle, paint, window, finishing, revealed>> /\ page' = Closed(page, op.closes)
    BY <1>7 DEF Emit, Finished
  <2>2. page' \in [Layer -> Nat]
    BY <1>0, <1>5, <2>1
  <2>3. Blank.step = "emit" /\ 0 <= paint
    BY <1>0 DEF Blank
  <2> QED
    BY <1>0, <2>1, <2>2, <2>3, StepKeeps
<1>8. ASSUME NEW op \in ops, TakeToken(op) \/ ClearToken(op) PROVE OverlayInv'
  <2>1. PICK s \in {"read", "empty"} : /\ ops' = (ops \ {op}) \cup {[op EXCEPT !.step = s, !.token = paint]}
                                       /\ UNCHANGED <<lifecycle, paint, window, finishing, page, revealed>>
    BY <1>8 DEF TakeToken, ClearToken, Continue
  <2> DEFINE next == [op EXCEPT !.step = s, !.token = paint]
  <2>2. next \in Command /\ next.token = paint /\ next.step = s
    BY <1>0 DEF Command, CommandSteps
  <2> HIDE DEF next
  <2>3. ops' \subseteq ops \cup {next} /\ next.token <= paint
    BY <1>0, <2>1, <2>2 DEF next
  <2> QED
    BY <1>0, <2>1, <2>2, <2>3, StepKeeps
<1> QED
  BY <1>2, <1>3, <1>4, <1>6, <1>7, <1>8

LEMMA MeasureKeeps ==
    ASSUME OverlayInv, NEW op \in ops, Measure(op)
    PROVE  OverlayInv'
<1>0. /\ OverlayTypes /\ paint \in Nat /\ page \in [Layer -> Nat] /\ op \in Command /\ op.layer \in Layer
      /\ window \in OverlayWindows /\ Blank \in Command /\ Blank.token = 0 /\ Blank.step = "emit"
      /\ lifecycle \in LifecycleStates /\ lifecycle.layout \in PageLayouts /\ lifecycle.generation \in Nat
      /\ \A l \in Layer : lifecycle.active[l] <= lifecycle.generation
  BY BlankFits DEF OverlayInv, OverlayTypes, Blank, Command, LifecycleStates, GenerationsAreKnown
<1>1. UNCHANGED <<paint, window, finishing, page, revealed>>
  BY DEF Measure
<1>2. CASE ops' = ops \ {op} /\ UNCHANGED lifecycle
  <2>1. 0 <= paint
    BY <1>0
  <2> QED
    BY <1>0, <1>1, <1>2, <2>1, StepKeeps
<1>3. CASE lifecycle' = [lifecycle EXCEPT !.layout[op.layer] = op.size] /\ Continue(op, Presents(Nothing))
  <2> DEFINE sizes == [lifecycle.layout EXCEPT ![op.layer] = op.size]
             next == Presents(Nothing)
  <2>1. sizes \in PageLayouts
    BY <1>0 DEF PageLayouts, Command
  <2>2. lifecycle' = [lifecycle EXCEPT !.layout = sizes]
    BY <1>3
  <2> HIDE DEF sizes
  <2>3. /\ lifecycle' \in LifecycleStates /\ lifecycle'.generation = lifecycle.generation
        /\ lifecycle'.active = lifecycle.active
    BY <1>0, <2>1, <2>2 DEF LifecycleStates
  <2>4. next \in Command /\ next.token = 0 /\ next.step = "token" /\ ops' \subseteq ops \cup {next}
    BY <1>3, Values, PresentsFits DEF Continue
  <2> HIDE DEF next
  <2>5. next.token <= paint /\ lifecycle'.generation >= lifecycle.generation
    BY <1>0, <2>3, <2>4
  <2> QED
    BY <1>0, <1>1, <2>3, <2>4, <2>5, CommandKeeps
<1> QED
  BY <1>2, <1>3 DEF Measure, Finished

LEMMA ReadyKeeps ==
    ASSUME OverlayInv, MarkReady
    PROVE  OverlayInv'
<1>1. lifecycle' = [lifecycle EXCEPT !.ready = TRUE] /\ page' = lifecycle.active
      /\ UNCHANGED <<ops, paint, window, finishing, revealed>>
  BY DEF MarkReady
<1>2. /\ lifecycle' \in LifecycleStates /\ lifecycle'.generation = lifecycle.generation
      /\ lifecycle'.active = lifecycle.active /\ lifecycle.generation \in Nat /\ page' \in [Layer -> Nat]
  BY <1>1 DEF OverlayInv, OverlayTypes, LifecycleStates
<1>3. Blank \in Command /\ Blank.token = 0 /\ Blank.step = "emit" /\ 0 <= paint /\ window \in OverlayWindows
  BY BlankFits DEF Blank, OverlayInv, OverlayTypes
<1>4. lifecycle'.generation >= lifecycle.generation /\ \A l \in Layer : lifecycle'.active[l] <= lifecycle'.generation
  BY <1>2 DEF OverlayInv, GenerationsAreKnown
<1> QED
  BY <1>1, <1>2, <1>3, <1>4, CommandKeeps

\* Staging and clearing conceal the window, and void every token.
LEMMA ConcealKeeps ==
    ASSUME OverlayInv, Conceal, NEW op \in Command, op.step \notin {"place", "show", "stage"}, op.token <= paint,
           ops' \subseteq ops \cup {op}, UNCHANGED <<finishing, page>>,
           lifecycle' \in LifecycleStates, UNCHANGED <<lifecycle.generation, lifecycle.active>>,
           revealed' \in [staged : Nat, shown : Nat, reads : Nat, acted : Nat],
           revealed'.staged <= lifecycle.generation
    PROVE  OverlayInv'
<1>0. paint \in Nat /\ window \in OverlayWindows
  BY DEF OverlayInv, OverlayTypes
<1>1. paint' = paint + 1 /\ window' \in OverlayWindows /\ window'.opaque = FALSE
  BY <1>0 DEF Conceal, OverlayWindows
<1>2. OverlayTypes'
  BY <1>0, <1>1 DEF OverlayInv, OverlayTypes
<1>3. GenerationsAreKnown'
  BY DEF OverlayInv, GenerationsAreKnown
<1>4. ASSUME NEW token \in Nat, token <= paint PROVE token <= paint' /\ token # paint'
  BY <1>0, <1>1, <1>4
<1>5. \A o \in ops \cup {op} : o.token \in Nat /\ o.token <= paint
  BY DEF OverlayInv, OverlayTypes, TokensAreHonest, Command
<1>6. \A f \in finishing : f.token \in Nat /\ f.token <= paint
  BY DEF OverlayInv, OverlayTypes, TokensAreHonest
<1>7. \A o \in ops \cup {op} : o.step \in {"place", "show"} => o.snap \in StateRead
  BY DEF OverlayInv, TokensAreHonest
<1>8. \A o \in ops' : o.token <= paint' /\ o.token # paint' /\ (o.step \in {"place", "show"} => o.snap \in StateRead)
  BY <1>4, <1>5, <1>7
<1>9. \A f \in finishing' : f.token <= paint' /\ f.token # paint'
  BY <1>4, <1>6
<1>10. TokensAreHonest'
  BY <1>8, <1>9 DEF TokensAreHonest
<1> QED
  BY <1>1, <1>2, <1>3, <1>10 DEF OverlayInv, RevealIsFresh

LEMMA NewestOfTwo == ASSUME NEW m \in Nat, NEW n \in Nat PROVE Max({m, n}) = IF m >= n THEN m ELSE n
<1> DEFINE top == IF m >= n THEN m ELSE n
<1>1. top \in {m, n} /\ \A y \in {m, n} : top >= y
  OBVIOUS
<1>2. \A x \in {m, n} : (\A y \in {m, n} : x >= y) => x = top
  OBVIOUS
<1> QED
  BY <1>1, <1>2 DEF Max

LEMMA StageKeeps ==
    ASSUME OverlayInv, NEW op \in ops, Stage(op) \/ Clear(op)
    PROVE  OverlayInv'
<1>0. /\ op \in Command /\ op.token <= paint /\ op.token \in Nat /\ op.gen \in Nat /\ lifecycle \in LifecycleStates
      /\ revealed \in [staged : Nat, shown : Nat, reads : Nat, acted : Nat] /\ revealed.staged <= lifecycle.generation
      /\ paint \in Nat /\ lifecycle.generation \in Nat
  BY DEF OverlayInv, OverlayTypes, TokensAreHonest, GenerationsAreKnown, Command, LifecycleStates
<1>1. CASE Stage(op)
  <2> DEFINE next == [op EXCEPT !.step = "deliver"]
  <2>1. next \in Command /\ next.step = "deliver" /\ next.token = op.token
    BY <1>0 DEF Command, CommandSteps
  <2>2. /\ ops' = (ops \ {op}) \cup {next} /\ Conceal /\ UNCHANGED <<lifecycle, finishing, page>>
        /\ revealed' = [revealed EXCEPT !.staged = Max({revealed.staged, op.gen})]
    BY <1>1 DEF Stage, Continue
  <2>3. op.gen <= lifecycle.generation
    BY <1>1 DEF Stage, OverlayInv, GenerationsAreKnown
  <2>4. Max({revealed.staged, op.gen}) \in Nat /\ Max({revealed.staged, op.gen}) <= lifecycle.generation
    BY <1>0, <2>3, NewestOfTwo
  <2>5. revealed' \in [staged : Nat, shown : Nat, reads : Nat, acted : Nat] /\ revealed'.staged <= lifecycle.generation
    BY <1>0, <2>2, <2>4
  <2> HIDE DEF next
  <2> QED
    BY <1>0, <2>1, <2>2, <2>5, ConcealKeeps
<1>2. CASE Clear(op)
  <2>1. lifecycle' = [lifecycle EXCEPT !.frame = NoFrame] /\ Conceal /\ UNCHANGED <<finishing, page>>
    BY <1>2 DEF Clear
  <2>2. lifecycle' \in LifecycleStates /\ UNCHANGED <<lifecycle.generation, lifecycle.active>>
    BY <1>0, <2>1, Values DEF LifecycleStates
  <2> DEFINE next == [op EXCEPT !.step = "emit", !.snap = NoFrame, !.token = 0, !.order = 0]
  <2>3. next \in Command /\ next.step = "emit" /\ next.token = 0
    BY <1>0, Values DEF Command, CommandSteps
  <2>4. ops' \subseteq ops \cup {next}
    BY <1>2 DEF Clear, Presented
  <2> HIDE DEF next
  <2>5. revealed' = [revealed EXCEPT !.acted = Max({revealed.acted, op.order})]
    BY <1>2 DEF Clear, Acts
  <2>6. Max({revealed.acted, op.order}) \in Nat
    BY <1>0, NewestOfTwo DEF Command
  <2>7. revealed' \in [staged : Nat, shown : Nat, reads : Nat, acted : Nat] /\ revealed'.staged = revealed.staged
    BY <1>0, <2>5, <2>6
  <2>8. next.token <= paint
    BY <1>0, <2>3
  <2> QED
    BY <1>0, <2>1, <2>2, <2>3, <2>4, <2>7, <2>8, ConcealKeeps
<1> QED
  BY <1>1, <1>2

\* From the reading of the state to the reveal: what was read after a valid token is fresh.
LEMMA PresentKeeps ==
    ASSUME OverlayInv, NEW op \in ops, NEW next \in Command, ops' \subseteq ops \cup {next},
           next.token <= paint, next.step # "stage",
           next.step \in {"place", "show"} =>
               next.snap \in StateRead /\ (next.token = paint => next.snap.generation >= revealed.staged),
           NEW f \in [reveal : BOOLEAN, token : Nat, snap : StateRead], finishing' \subseteq finishing \cup {f},
           f.token <= paint, f.reveal /\ f.token = paint => f.snap.generation >= revealed.staged,
           UNCHANGED <<paint, page>>, window' \in OverlayWindows, window'.opaque = window.opaque,
           lifecycle' \in LifecycleStates, UNCHANGED <<lifecycle.generation, lifecycle.active>>,
           revealed' \in [staged : Nat, shown : Nat, reads : Nat, acted : Nat],
           UNCHANGED <<revealed.staged, revealed.shown>>
    PROVE  OverlayInv'
<1>1. OverlayTypes'
  BY DEF OverlayInv, OverlayTypes
<1>2. GenerationsAreKnown'
  BY DEF OverlayInv, GenerationsAreKnown
<1>3. TokensAreHonest'
  BY DEF OverlayInv, TokensAreHonest
<1>4. RevealIsFresh'
  BY DEF OverlayInv, RevealIsFresh
<1> QED
  BY <1>1, <1>2, <1>3, <1>4 DEF OverlayInv

LEMMA SnapshotFits == ASSUME OverlayInv PROVE Snapshot \in StateRead /\ Snapshot.generation >= revealed.staged
<1>1. Snapshot \in StateRead /\ Snapshot.generation = lifecycle.generation /\ lifecycle.generation \in Nat
      /\ revealed.staged \in Nat
  BY DEF OverlayInv, OverlayTypes, LifecycleStates, Snapshot, StateRead
<1> QED
  BY <1>1 DEF OverlayInv, GenerationsAreKnown

LEMMA PresentationKeeps ==
    ASSUME OverlayInv, NEW op \in ops, ReadState(op) \/ Place(op) \/ Show(op) \/ FinalizeClear(op)
    PROVE  OverlayInv'
<1> DEFINE Histories == [staged : Nat, shown : Nat, reads : Nat, acted : Nat]
           Reveals == [reveal : BOOLEAN, token : Nat, snap : StateRead]
<1>0. /\ op \in Command /\ op.token <= paint /\ op.token \in Nat /\ op.order \in Nat
      /\ op.step \in {"place", "show"} => /\ op.snap \in StateRead
                                          /\ op.token = paint => op.snap.generation >= revealed.staged
  BY DEF OverlayInv, OverlayTypes, TokensAreHonest, Command
<1>1. /\ lifecycle \in LifecycleStates /\ window \in OverlayWindows /\ revealed \in Histories /\ paint \in Nat
      /\ page \in [Layer -> Nat]
  BY DEF OverlayInv, OverlayTypes
<1>2. Max({revealed.acted, op.order}) \in Nat
  BY <1>0, <1>1, NewestOfTwo
<1>3. PICK none \in Reveals : none.reveal = FALSE /\ none.token = 0 /\ 0 <= paint
  <2> DEFINE r == [reveal |-> FALSE, token |-> 0, snap |-> Snapshot]
  <2>1. r \in Reveals /\ r.reveal = FALSE /\ r.token = 0
    BY SnapshotFits
  <2> HIDE DEF r
  <2> QED
    BY <1>1, <2>1
<1>4. CASE ReadState(op)
  <2> DEFINE step == IF Layers(lifecycle) = {} THEN "clear" ELSE "place"
             next == [op EXCEPT !.step = step, !.snap = Snapshot, !.order = revealed.reads + 1]
  <2>1. /\ ops' = (ops \ {op}) \cup {next} /\ revealed' = [revealed EXCEPT !.reads = @ + 1]
        /\ UNCHANGED <<lifecycle, paint, window, finishing, page>>
    BY <1>4 DEF ReadState, Continue
  <2>2. step \in {"clear", "place"} /\ Snapshot \in Snapshots /\ revealed.reads + 1 \in Nat
    BY <1>1, SnapshotFits DEF Snapshots
  <2> HIDE DEF step
  <2>3. next \in Command /\ next.step = step /\ next.token = op.token /\ next.snap = Snapshot
    BY <1>0, <2>2 DEF Command, CommandSteps
  <2>4. revealed' \in Histories /\ UNCHANGED <<revealed.staged, revealed.shown>>
    BY <1>1, <2>1, <2>2
  <2> HIDE DEF next
  <2>5. ops' \subseteq ops \cup {next} /\ finishing' \subseteq finishing \cup {none}
    BY <2>1
  <2> QED
    BY <1>0, <1>1, <1>3, <2>1, <2>2, <2>3, <2>4, <2>5, SnapshotFits, PresentKeeps
<1>5. CASE Place(op)
  <2> DEFINE next == [op EXCEPT !.step = "show"]
  <2>0. op.step = "place" /\ op.snap \in StateRead
    BY <1>0, <1>5 DEF Place
  <2>1. /\ ops' = (ops \ {op}) \cup {next} /\ window' = [window EXCEPT !.placed = op.snap.layout]
        /\ revealed' = [revealed EXCEPT !.acted = Max({revealed.acted, op.order})]
        /\ UNCHANGED <<lifecycle, paint, finishing, page>>
    BY <1>5 DEF Place, Continue, Acts
  <2>2. next \in Command /\ next.step = "show" /\ next.token = op.token /\ next.snap = op.snap
    BY <1>0 DEF Command, CommandSteps
  <2>3. revealed' \in Histories /\ UNCHANGED <<revealed.staged, revealed.shown>>
    BY <1>1, <1>2, <2>1
  <2>4. window' \in OverlayWindows /\ window'.opaque = window.opaque
    BY <1>1, <2>0, <2>1 DEF OverlayWindows, StateRead
  <2> HIDE DEF next
  <2>5. ops' \subseteq ops \cup {next} /\ finishing' \subseteq finishing \cup {none}
    BY <2>1
  <2> QED
    BY <1>0, <1>1, <1>3, <2>0, <2>1, <2>2, <2>3, <2>4, <2>5, PresentKeeps
<1>6. CASE Show(op)
  <2> DEFINE next == [op EXCEPT !.step = "emit", !.snap = NoFrame, !.token = 0, !.order = 0]
             f == [reveal |-> TRUE, token |-> op.token, snap |-> op.snap]
             clicks == op.snap.active["flyout"] # NoGen \/ op.snap.active["menu"] # NoGen
             grab == IF Pinned(op.snap) THEN lifecycle.generation ELSE window.grab
  <2>0. op.step = "show" /\ op.snap \in StateRead
    BY <1>0, <1>6 DEF Show
  <2>1. /\ lifecycle' = [lifecycle EXCEPT !.frame = op.snap.layout]
        /\ window' = [window EXCEPT !.mapped = TRUE, !.clickable = clicks, !.grab = grab]
        /\ finishing' = finishing \cup {f} /\ UNCHANGED <<paint, page>>
        /\ revealed' = [revealed EXCEPT !.acted = Max({revealed.acted, op.order})]
    BY <1>6 DEF Show, Acts
  <2>2. ops' \subseteq ops \cup {next}
    BY <1>6 DEF Show, Presented
  <2>3. next \in Command /\ next.step = "emit" /\ next.token = 0
    BY <1>0, Values DEF Command, CommandSteps
  <2>4. f \in Reveals /\ f.token = op.token /\ f.snap = op.snap /\ f.reveal = TRUE
    BY <1>0, <2>0
  <2>5. grab \in Nat /\ clicks \in BOOLEAN
    BY <1>1 DEF LifecycleStates, OverlayWindows
  <2>6. revealed' \in Histories /\ UNCHANGED <<revealed.staged, revealed.shown>>
    BY <1>1, <1>2, <2>1
  <2> HIDE DEF next, f, grab, clicks
  <2>7. window' \in OverlayWindows /\ window'.opaque = window.opaque
    BY <1>1, <2>1, <2>5 DEF OverlayWindows
  <2>8. lifecycle' \in LifecycleStates /\ UNCHANGED <<lifecycle.generation, lifecycle.active>>
    BY <1>1, <2>0, <2>1 DEF LifecycleStates, StateRead
  <2>9. next.token <= paint /\ finishing' \subseteq finishing \cup {f}
    BY <1>1, <2>1, <2>3
  <2> QED
    BY <1>0, <1>1, <2>0, <2>1, <2>2, <2>3, <2>4, <2>6, <2>7, <2>8, <2>9, PresentKeeps
<1>7. CASE FinalizeClear(op)
  <2> DEFINE f == [reveal |-> FALSE, token |-> op.token, snap |-> Snapshot]
  <2>1. /\ ops' = ops \ {op} /\ finishing' \subseteq finishing \cup {f}
        /\ UNCHANGED <<lifecycle, paint, window, page, revealed>>
    BY <1>7 DEF FinalizeClear, Finished
  <2>2. f \in Reveals /\ f.token = op.token /\ f.reveal = FALSE
    BY <1>0, SnapshotFits
  <2> HIDE DEF f
  <2>3. Blank \in Command /\ Blank.token = 0 /\ Blank.step = "emit" /\ 0 <= paint
    BY <1>1, BlankFits DEF Blank
  <2> QED
    BY <1>0, <1>1, <2>1, <2>2, <2>3, PresentKeeps
<1> QED
  BY <1>4, <1>5, <1>6, <1>7

\* The page has painted: only a token that is still valid reveals.
LEMMA FinishKeepsOverlay ==
    ASSUME OverlayInv, NEW f \in finishing, Finish(f)
    PROVE  OverlayInv'
<1>0. /\ f \in [reveal : BOOLEAN, token : Nat, snap : StateRead] /\ window \in OverlayWindows
      /\ revealed \in [staged : Nat, shown : Nat, reads : Nat, acted : Nat]
      /\ f.reveal /\ f.token = paint => f.snap.generation >= revealed.staged
  BY DEF OverlayInv, OverlayTypes, TokensAreHonest
<1>1. finishing' = finishing \ {f} /\ UNCHANGED <<lifecycle, ops, paint, page>>
  BY DEF Finish
<1>2. \/ UNCHANGED <<window, revealed>>
      \/ /\ f.token = paint /\ f.reveal /\ window' = [window EXCEPT !.opaque = TRUE]
         /\ revealed' = [revealed EXCEPT !.shown = f.snap.generation]
      \/ window' = [window EXCEPT !.mapped = FALSE, !.grab = 0] /\ UNCHANGED revealed
  BY DEF Finish
<1>3. /\ window' \in OverlayWindows /\ revealed' \in [staged : Nat, shown : Nat, reads : Nat, acted : Nat]
      /\ revealed'.staged = revealed.staged
  <2>1. f.snap.generation \in Nat
    BY <1>0 DEF StateRead
  <2>2. ASSUME NEW shown \in Nat
        PROVE  /\ [revealed EXCEPT !.shown = shown] \in [staged : Nat, shown : Nat, reads : Nat, acted : Nat]
               /\ [revealed EXCEPT !.shown = shown].staged = revealed.staged
    BY <1>0
  <2>3. /\ [window EXCEPT !.opaque = TRUE] \in OverlayWindows
        /\ [window EXCEPT !.mapped = FALSE, !.grab = 0] \in OverlayWindows
    BY <1>0 DEF OverlayWindows
  <2> QED
    BY <1>0, <1>2, <2>1, <2>2, <2>3
<1>4. RevealIsFresh'
  BY <1>0, <1>2 DEF OverlayInv, RevealIsFresh, OverlayWindows
<1>5. OverlayTypes'
  BY <1>1, <1>3 DEF OverlayInv, OverlayTypes
<1>6. GenerationsAreKnown' /\ TokensAreHonest'
  BY <1>1, <1>3 DEF OverlayInv, GenerationsAreKnown, TokensAreHonest
<1> QED
  BY <1>4, <1>5, <1>6 DEF OverlayInv

\* Layers leave the lifecycle.
LEMMA TakeKeepsOverlay ==
    ASSUME OverlayInv, NEW gen \in Nat, gen >= lifecycle.generation,
           NEW active \in [Layer -> Nat], \A l \in Layer : active[l] \in {lifecycle.active[l], NoGen},
           NEW sizes \in PageLayouts, NEW closes \in [Layer -> Nat],
           lifecycle' = [lifecycle EXCEPT !.generation = gen, !.active = active, !.layout = sizes],
           ops' = ops \cup {Presents(closes)},
           window' \in OverlayWindows, window'.opaque = window.opaque,
           UNCHANGED <<paint, finishing, page, revealed>>
    PROVE  OverlayInv'
<1>0. lifecycle \in LifecycleStates /\ lifecycle.generation \in Nat /\ paint \in Nat /\ lifecycle.active \in [Layer -> Nat]
  BY DEF OverlayInv, OverlayTypes, LifecycleStates
<1>1. lifecycle' \in LifecycleStates /\ lifecycle'.generation = gen /\ lifecycle'.active = active
  BY <1>0 DEF LifecycleStates
<1>2. \A l \in Layer : lifecycle'.active[l] <= lifecycle'.generation
  <2> SUFFICES ASSUME NEW l \in Layer PROVE active[l] <= gen
    BY <1>1
  <2>1. lifecycle.active[l] <= lifecycle.generation /\ lifecycle.active[l] \in Nat
    BY <1>0 DEF OverlayInv, GenerationsAreKnown
  <2> QED
    BY <1>0, <2>1 DEF NoGen
<1> DEFINE op == Presents(closes)
<1>3. op \in Command /\ op.token = 0 /\ op.step = "token"
  BY PresentsFits
<1> HIDE DEF op
<1>4. ops' \subseteq ops \cup {op} /\ op.token <= paint
  BY <1>0, <1>3 DEF op
<1>5. page' \in [Layer -> Nat]
  BY DEF OverlayInv, OverlayTypes
<1> QED
  BY <1>1, <1>2, <1>3, <1>4, <1>5, CommandKeeps

LEMMA CloseKeepsOverlay ==
    ASSUME OverlayInv, CloseFlyout \/ CloseMenu \/ CloseTooltip \/ Relocate
    PROVE  OverlayInv'
<1>0. /\ lifecycle \in LifecycleStates /\ lifecycle.generation \in Nat /\ lifecycle.active \in [Layer -> Nat]
      /\ lifecycle.layout \in PageLayouts /\ window \in OverlayWindows
  BY DEF OverlayInv, OverlayTypes, LifecycleStates
<1>1. ASSUME NEW ls, NEW bump \in BOOLEAN, NEW reports \in [Layer -> Nat], Take(ls, bump, reports) PROVE OverlayInv'
  <2> DEFINE gen == IF bump THEN lifecycle.generation + 1 ELSE lifecycle.generation
             active == [l \in Layer |-> IF l \in ls THEN NoGen ELSE lifecycle.active[l]]
             sizes == [l \in Layer |-> IF l \in ls THEN NoSize ELSE lifecycle.layout[l]]
             closes == [l \in Layer |-> IF l \in ls THEN reports[l] ELSE NoGen]
  <2>1. gen \in Nat /\ gen >= lifecycle.generation
    BY <1>0
  <2>2. active \in [Layer -> Nat] /\ sizes \in PageLayouts /\ closes \in [Layer -> Nat]
    BY <1>0, <1>1, Values DEF NoGen, PageLayouts
  <2>3. \A l \in Layer : active[l] \in {lifecycle.active[l], NoGen}
    OBVIOUS
  <2>4. /\ lifecycle' = [lifecycle EXCEPT !.generation = gen, !.active = active, !.layout = sizes]
        /\ ops' = ops \cup {Presents(closes)} /\ UNCHANGED <<paint, window, finishing, page, revealed>>
    BY <1>1 DEF Take
  <2> HIDE DEF gen, active, sizes, closes
  <2> QED
    BY <1>0, <2>1, <2>2, <2>3, <2>4, TakeKeepsOverlay
<1>2. [Nothing EXCEPT !["menu"] = lifecycle.generation + 1] \in [Layer -> Nat]
  BY <1>0, Values
<1> QED
  BY <1>0, <1>1, <1>2 DEF CloseFlyout, CloseMenu, CloseTooltip, Relocate

LEMMA FocusKeeps ==
    ASSUME OverlayInv, FocusGained \/ FocusLost \/ GraceEnds \/ GrabCleared
    PROVE  OverlayInv'
<1>0. /\ lifecycle \in LifecycleStates /\ lifecycle.generation \in Nat /\ lifecycle.active \in [Layer -> Nat]
      /\ lifecycle.layout \in PageLayouts /\ window \in OverlayWindows /\ page \in [Layer -> Nat] /\ paint \in Nat
      /\ \A l \in Layer : lifecycle.active[l] <= lifecycle.generation
  BY DEF OverlayInv, OverlayTypes, LifecycleStates, GenerationsAreKnown
<1>1. Blank \in Command /\ Blank.token = 0 /\ Blank.step = "emit" /\ 0 <= paint
  BY <1>0, BlankFits DEF Blank
<1>2. ASSUME ops' = ops, lifecycle' \in LifecycleStates, UNCHANGED <<lifecycle.generation, lifecycle.active>>,
             UNCHANGED <<paint, finishing, page, revealed>>, window' \in OverlayWindows, window'.opaque = window.opaque
      PROVE  OverlayInv'
  <2>1. lifecycle'.generation >= lifecycle.generation /\ \A l \in Layer : lifecycle'.active[l] <= lifecycle'.generation
    BY <1>0, <1>2
  <2> QED
    BY <1>0, <1>1, <1>2, <2>1, CommandKeeps
<1>3. ASSUME Dismissed, UNCHANGED <<paint, finishing, page, revealed>>, window' \in OverlayWindows,
             window'.opaque = window.opaque
      PROVE  OverlayInv'
  <2> DEFINE gen == lifecycle.generation + 1
             active == [lifecycle.active EXCEPT !["flyout"] = NoGen, !["menu"] = NoGen]
             sizes == [lifecycle.layout EXCEPT !["flyout"] = NoSize, !["menu"] = NoSize]
             closes == [lifecycle.active EXCEPT !["tooltip"] = NoGen]
  <2>1. gen \in Nat /\ gen >= lifecycle.generation
    BY <1>0
  <2>2. active \in [Layer -> Nat] /\ sizes \in PageLayouts /\ closes \in [Layer -> Nat]
    BY <1>0, Values DEF NoGen, PageLayouts
  <2>3. \A l \in Layer : active[l] \in {lifecycle.active[l], NoGen}
    BY <1>0
  <2>4. /\ lifecycle' = [lifecycle EXCEPT !.generation = gen, !.active = active, !.layout = sizes]
        /\ ops' = ops \cup {Presents(closes)}
    BY <1>3 DEF Dismissed
  <2> HIDE DEF gen, active, sizes, closes
  <2> QED
    BY <1>3, <2>1, <2>2, <2>3, <2>4, TakeKeepsOverlay
<1>4. CASE FocusGained
  <2>1. /\ lifecycle' = [lifecycle EXCEPT !.focused = TRUE, !.focusGeneration = lifecycle.generation]
        /\ UNCHANGED <<ops, paint, window, finishing, page, revealed>>
    BY <1>4 DEF FocusGained
  <2>2. lifecycle' \in LifecycleStates /\ UNCHANGED <<lifecycle.generation, lifecycle.active>>
    BY <1>0, <2>1 DEF LifecycleStates
  <2> QED
    BY <1>0, <1>2, <2>1, <2>2
<1>5. CASE FocusLost
  <2>1. lifecycle' = [lifecycle EXCEPT !.focused = FALSE] /\ UNCHANGED <<ops, paint, window, finishing, page, revealed>>
    BY <1>5 DEF FocusLost
  <2>2. lifecycle' \in LifecycleStates /\ UNCHANGED <<lifecycle.generation, lifecycle.active>>
    BY <1>0, <2>1 DEF LifecycleStates
  <2> QED
    BY <1>0, <1>2, <2>1, <2>2
<1>6. CASE GraceEnds
  <2>1. UNCHANGED <<paint, window, finishing, page, revealed>> /\ (Dismissed \/ UNCHANGED <<lifecycle, ops>>)
    BY <1>6 DEF GraceEnds
  <2> QED
    BY <1>0, <1>2, <1>3, <2>1
<1>7. CASE GrabCleared
  <2>1. /\ window' = [window EXCEPT !.grab = 0] /\ UNCHANGED <<paint, finishing, page, revealed>>
        /\ (Dismissed \/ UNCHANGED <<lifecycle, ops>>)
    BY <1>7 DEF GrabCleared
  <2>2. window' \in OverlayWindows /\ window'.opaque = window.opaque
    BY <1>0, <2>1 DEF OverlayWindows
  <2> QED
    BY <1>0, <1>2, <1>3, <2>1, <2>2
<1> QED
  BY <1>4, <1>5, <1>6, <1>7

LEMMA OverlayInvNext == OverlayInv /\ [OverlayNext]_overlayVars => OverlayInv'
<1> SUFFICES ASSUME OverlayInv, [OverlayNext]_overlayVars PROVE OverlayInv'
  OBVIOUS
<1>1. CASE OverlayNext
  BY <1>1, OpenKeeps, QuietKeeps, PinKeeps, MeasureKeeps, ReadyKeeps, StageKeeps, PresentationKeeps,
     FinishKeepsOverlay, CloseKeepsOverlay, FocusKeeps DEF OverlayNext
<1>2. CASE UNCHANGED overlayVars
  BY <1>2 DEF overlayVars, OverlayInv, OverlayTypes, GenerationsAreKnown, TokensAreHonest, RevealIsFresh
<1> QED
  BY <1>1, <1>2

\* Whenever the overlay window can be seen, what it was revealed for was read after the newest
\* content had been staged (presentation.rs: the token is captured before the state).
THEOREM RevealsAreFresh == OverlaySpec => []RevealIsFresh
<1>1. OverlayInv => RevealIsFresh
  BY DEF OverlayInv
<1> QED
  BY OverlayInvInit, OverlayInvNext, <1>1, PTL DEF OverlaySpec

--------------------------------------------------------------------------------
(****************************************************************************)
(* Notifications.  Every notification that was accepted is on record, or     *)
(* its plugin is about to be told how it ended, or was told once: ids are    *)
(* never given out again and what leaves the records is announced.           *)
(****************************************************************************)

\* Some numbers have a least one.
LEMMA LeastOf == ASSUME NEW S \in SUBSET Nat, S # {} PROVE \E i \in S : \A j \in S : i <= j
<1>1. PICK i \in S : \A j \in S : <<j, i>> \notin OpToRel(<, Nat)
  BY WFMin, NatLessThanWellFounded, Zenon
<1>2. \A j \in S : ~(j < i)
  BY <1>1, Zenon DEF OpToRel
<1>3. i \in Nat /\ \A j \in S : j \in Nat
  OBVIOUS
<1> QED
  BY <1>2, <1>3

\* What is on record, and what the host's task is doing with it.
PopupRecords == [id : Nat \ {0}, session : Session, key : PopupKey, version : {1, 2}, shown : BOOLEAN]
Services == [records : SUBSET PopupRecords, next : Nat, stopped : SUBSET Session, enabled : BOOLEAN]
Hosts == [step : {"idle", "announce"}, told : SUBSET Nat]
             \cup [step : {"record"}, told : {{}}, session : Session, key : PopupKey]
PopupShapes == service \in Services /\ host \in Hosts /\ popupLeft \in [PopupEvents -> Nat]

\* An instance is one record's, was given out, and is not told of while it is on record.
IdsAreOwn ==
    /\ \A r, other \in service.records : r.id = other.id => r = other
    /\ Ids(service.records) \cup host.told \subseteq 1 .. service.next
    /\ host.step # "announce" => host.told = {}
\* There is room in the history for every popup that may still be shown.
Accepting == IF host.step = "record" THEN 1 ELSE 0
LogFits ==
    \E n \in Nat : /\ popupLog \in [1 .. n -> Nat]
                   /\ service.next + Accepting + popupLeft["shows"] <= n
                   /\ \A i \in 1 .. n : i > service.next => popupLog[i] = 0
PopupInv == PopupShapes /\ IdsAreOwn /\ LogFits /\ EndsAreTold

Counted(i, S) == IF i \in S THEN 1 ELSE 0
LEMMA CountsAre ==
    EndsAreTold <=> \A i \in 1 .. service.next :
        Counted(i, Ids(service.records)) + Counted(i, host.told) + popupLog[i] = 1
  BY DEF EndsAreTold, Counted

LEMMA PopupInvInit == PopupInit => PopupInv
<1> SUFFICES ASSUME PopupInit PROVE PopupInv
  OBVIOUS
<1>1. popupLeft \in [PopupEvents -> Nat] /\ popupLeft["shows"] \in Nat
  BY PopupAssumption DEF PopupInit, PopupEvents
<1>2. service = [records |-> {}, next |-> 0, stopped |-> {}, enabled |-> TRUE]
      /\ host = [step |-> "idle", told |-> {}]
  BY DEF PopupInit, Idle
<1>3. PopupShapes
  BY <1>1, <1>2 DEF PopupShapes, Services, Hosts
<1>4. IdsAreOwn
  BY <1>2 DEF IdsAreOwn, Ids
<1>5. LogFits
  <2>1. popupLog \in [1 .. popupLeft["shows"] -> Nat] /\ \A i \in 1 .. popupLeft["shows"] : popupLog[i] = 0
    BY DEF PopupInit
  <2>2. service.next + Accepting + popupLeft["shows"] <= popupLeft["shows"]
    BY <1>1, <1>2 DEF Accepting
  <2> QED
    BY <1>1, <2>1, <2>2 DEF LogFits
<1>6. EndsAreTold
  BY <1>2 DEF EndsAreTold
<1> QED
  BY <1>3, <1>4, <1>5, <1>6 DEF PopupInv

\* Steps that leave records and ends alone.
LEMMA OthersKeepEnds ==
    ASSUME PopupInv, UNCHANGED <<host, popupLog>>, service' \in Services,
           service'.records = service.records, service'.next = service.next,
           popupLeft' \in [PopupEvents -> Nat], popupLeft'["shows"] <= popupLeft["shows"]
    PROVE  PopupInv'
<1>1. PopupShapes' /\ IdsAreOwn' /\ EndsAreTold'
  BY DEF PopupInv, PopupShapes, IdsAreOwn, EndsAreTold, Ids
<1>2. LogFits'
  <2>1. PICK n \in Nat : /\ popupLog \in [1 .. n -> Nat]
                         /\ service.next + Accepting + popupLeft["shows"] <= n
                         /\ \A i \in 1 .. n : i > service.next => popupLog[i] = 0
    BY DEF PopupInv, LogFits
  <2>2. service.next \in Nat /\ Accepting \in Nat /\ popupLeft["shows"] \in Nat /\ popupLeft'["shows"] \in Nat
    BY DEF PopupInv, PopupShapes, Services, Accepting, PopupEvents
  <2>3. service'.next + Accepting' + popupLeft'["shows"] <= n
    BY <2>1, <2>2 DEF Accepting
  <2> QED
    BY <2>1, <2>3 DEF LogFits
<1> QED
  BY <1>1, <1>2 DEF PopupInv

LEMMA Spends ==
    ASSUME popupLeft \in [PopupEvents -> Nat], NEW event \in PopupEvents, Spend(event)
    PROVE  /\ popupLeft' \in [PopupEvents -> Nat] /\ popupLeft[event] > 0
           /\ popupLeft'[event] = popupLeft[event] - 1
           /\ \A other \in PopupEvents \ {event} : popupLeft'[other] = popupLeft[other]
  BY DEF Spend

LEMMA OthersMayBeSpent ==
    ASSUME popupLeft \in [PopupEvents -> Nat],
           \/ UNCHANGED popupLeft
           \/ \E event \in PopupEvents : Spend(event)
    PROVE  popupLeft' \in [PopupEvents -> Nat] /\ popupLeft'["shows"] <= popupLeft["shows"]
<1>1. "shows" \in PopupEvents /\ popupLeft["shows"] \in Nat
  BY DEF PopupEvents
<1>2. CASE UNCHANGED popupLeft
  BY <1>1, <1>2
<1>3. ASSUME NEW event \in PopupEvents, Spend(event)
      PROVE  popupLeft' \in [PopupEvents -> Nat] /\ popupLeft'["shows"] <= popupLeft["shows"]
  <2>1. popupLeft'["shows"] = popupLeft["shows"] \/ popupLeft'["shows"] = popupLeft["shows"] - 1
    BY <1>1, <1>3, Spends
  <2> QED
    BY <1>1, <1>3, <2>1, Spends
<1> QED
  BY <1>2, <1>3

LEMMA ShowPopupKeeps == ASSUME PopupInv, NEW s \in Session, NEW k \in PopupKey, ShowPopup(s, k) PROVE PopupInv'
<1>1. /\ UNCHANGED <<service, popupLog>> /\ host' = [step |-> "record", told |-> {}, session |-> s, key |-> k]
      /\ host.step = "idle" /\ Spend("shows")
  BY DEF ShowPopup
<1>2. popupLeft' \in [PopupEvents -> Nat] /\ popupLeft["shows"] \in Nat /\ popupLeft'["shows"] = popupLeft["shows"] - 1
  BY <1>1, Spends DEF PopupInv, PopupShapes, PopupEvents
<1>3. host.told = {}
  BY <1>1 DEF PopupInv, IdsAreOwn
<1>4. PopupShapes' /\ IdsAreOwn' /\ EndsAreTold'
  BY <1>1, <1>2, <1>3 DEF PopupInv, PopupShapes, Hosts, IdsAreOwn, EndsAreTold, Ids
<1>5. LogFits'
  <2>1. service.next \in Nat /\ Accepting = 0 /\ Accepting' = 1
    BY <1>1 DEF PopupInv, PopupShapes, Services, Accepting
  <2>2. PICK n \in Nat : /\ popupLog \in [1 .. n -> Nat]
                         /\ service.next + Accepting + popupLeft["shows"] <= n
                         /\ \A i \in 1 .. n : i > service.next => popupLog[i] = 0
    BY DEF PopupInv, LogFits
  <2>3. service'.next + Accepting' + popupLeft'["shows"] <= n
    BY <1>1, <1>2, <2>1, <2>2
  <2> QED
    BY <1>1, <2>2, <2>3 DEF LogFits
<1> QED
  BY <1>4, <1>5 DEF PopupInv

\* Records that go are told of.
LEMMA RemovingTells ==
    ASSUME PopupInv, NEW ended, ended \subseteq service.records, host.told = {}, host.step # "record",
           Removes(ended), UNCHANGED popupLog, popupLeft' \in [PopupEvents -> Nat],
           popupLeft'["shows"] = popupLeft["shows"]
    PROVE  PopupInv'
<1>1. /\ service' = [service EXCEPT !.records = service.records \ ended]
      /\ host' = [step |-> "announce", told |-> Ids(ended)]
  BY DEF Removes, Announces
<1>2. service'.records = service.records \ ended /\ service'.next = service.next /\ service' \in Services
  BY <1>1 DEF PopupInv, PopupShapes, Services
<1>3. Ids(service'.records) = Ids(service.records) \ Ids(ended) /\ Ids(ended) \subseteq Ids(service.records)
  BY <1>2 DEF PopupInv, IdsAreOwn, Ids
<1>4. service.next \in Nat /\ Ids(ended) \subseteq 1 .. service.next
  BY <1>3 DEF PopupInv, PopupShapes, Services, IdsAreOwn
<1>5. PopupShapes'
  BY <1>1, <1>2, <1>4 DEF PopupShapes, Hosts
<1>6. IdsAreOwn'
  BY <1>1, <1>2, <1>3, <1>4 DEF PopupInv, IdsAreOwn
<1>7. EndsAreTold'
  <2>1. ASSUME NEW i \in 1 .. service.next
        PROVE  Counted(i, Ids(service'.records)) + Counted(i, Ids(ended)) + popupLog[i] = 1
    <3>1. Counted(i, Ids(service.records)) + Counted(i, {}) + popupLog[i] = 1
      BY CountsAre DEF PopupInv
    <3> QED
      BY <1>3, <3>1 DEF Counted
  <2> QED
    BY <1>1, <1>2, <2>1 DEF EndsAreTold, Counted
<1>8. LogFits'
  BY <1>1, <1>2 DEF PopupInv, LogFits, Accepting
<1> QED
  BY <1>5, <1>6, <1>7, <1>8 DEF PopupInv

LEMMA DismissPopupKeeps ==
    ASSUME PopupInv, NEW s \in Session, NEW k \in PopupKey, DismissPopup(s, k) PROVE PopupInv'
<1>1. host.step = "idle" /\ Removes(Of(s, k)) /\ UNCHANGED popupLog /\ Spend("dismisses")
  BY DEF DismissPopup
<1>2. popupLeft' \in [PopupEvents -> Nat] /\ popupLeft'["shows"] = popupLeft["shows"]
  <2>1. "dismisses" \in PopupEvents /\ "shows" \in PopupEvents \ {"dismisses"}
    BY DEF PopupEvents
  <2> QED
    BY <1>1, <2>1, Spends DEF PopupInv, PopupShapes
<1>3. Of(s, k) \subseteq service.records /\ host.told = {}
  BY <1>1 DEF Of, PopupInv, IdsAreOwn
<1> QED
  BY <1>1, <1>2, <1>3, RemovingTells

LEMMA CleanupKeeps == ASSUME PopupInv, Cleanup PROVE PopupInv'
<1> DEFINE gone == {r \in service.records : ~service.enabled \/ Stopped(r)}
<1>1. host.step = "idle" /\ Removes(gone) /\ UNCHANGED <<popupLog, popupLeft>>
  BY DEF Cleanup
<1>2. gone \subseteq service.records /\ host.told = {}
  BY <1>1 DEF PopupInv, IdsAreOwn
<1>3. popupLeft' \in [PopupEvents -> Nat] /\ popupLeft'["shows"] = popupLeft["shows"]
  BY <1>1 DEF PopupInv, PopupShapes
<1> HIDE DEF gone
<1> QED
  BY <1>1, <1>2, <1>3, RemovingTells

\* The first of some records is one of them.
LEMMA FirstIsOne == ASSUME NEW S \in SUBSET PopupRecords, S # {} PROVE First(S) \in S
<1>1. Ids(S) \in SUBSET Nat /\ Ids(S) # {}
  BY DEF Ids, PopupRecords
<1>2. PICK i \in Ids(S) : \A j \in Ids(S) : i <= j
  BY <1>1, LeastOf
<1>3. \E r \in S : \A other \in S : r.id <= other.id
  BY <1>2 DEF Ids
<1> QED
  BY <1>3 DEF First

LEMMA OverflowIsOnRecord == ASSUME NEW S \in SUBSET PopupRecords PROVE Overflow(S) \subseteq S
<1> DEFINE unseen == {r \in S : ~r.shown}
<1>1. CASE Cardinality(S) < MaxPopups
  BY <1>1 DEF Overflow
<1>2. CASE ~(Cardinality(S) < MaxPopups)
  <2>1. S # {}
    BY <1>2, FS_EmptySet, PopupAssumption
  <2>2. unseen # {} => First(unseen) \in S
    BY FirstIsOne
  <2>3. First(S) \in S
    BY <2>1, FirstIsOne
  <2> QED
    BY <1>2, <2>2, <2>3 DEF Overflow
<1> QED
  BY <1>1, <1>2

\* A popup of another name, or of the same one.
LEMMA RecordPopupKeeps == ASSUME PopupInv, RecordPopup PROVE PopupInv'
<1> DEFINE same == Of(host.session, host.key)
           out  == Overflow(service.records)
           new  == [id |-> service.next + 1, session |-> host.session, key |-> host.key,
                    version |-> 1, shown |-> FALSE]
<1>1. /\ host.step = "record" /\ UNCHANGED <<popupLog, popupLeft>>
      /\ \/ /\ service' = [service EXCEPT
                  !.records = (service.records \ same) \cup {[r EXCEPT !.version = 3 - @] : r \in same}]
            /\ host' = [step |-> "announce", told |-> Ids({})]
         \/ /\ service' = [service EXCEPT !.next = service.next + 1,
                                          !.records = (service.records \ out) \cup {new}]
            /\ host' = [step |-> "announce", told |-> Ids(out)]
  BY DEF RecordPopup, Announces
<1>2. /\ host.told = {} /\ host.session \in Session /\ host.key \in PopupKey
      /\ service.records \in SUBSET PopupRecords /\ service.next \in Nat
      /\ popupLeft \in [PopupEvents -> Nat] /\ popupLeft["shows"] \in Nat
  BY <1>1 DEF PopupInv, PopupShapes, Hosts, Services, PopupEvents
<1>3. out \subseteq service.records /\ same \subseteq service.records
  BY <1>2, OverflowIsOnRecord DEF Of
<1>4. PICK n \in Nat : /\ popupLog \in [1 .. n -> Nat]
                       /\ service.next + 1 + popupLeft["shows"] <= n
                       /\ \A i \in 1 .. n : i > service.next => popupLog[i] = 0
  BY <1>1 DEF PopupInv, LogFits, Accepting
<1>5. new \in PopupRecords /\ new.id = service.next + 1
  BY <1>2 DEF PopupRecords
<1>6. Accepting' = 0 /\ host'.step = "announce"
  BY <1>1 DEF Accepting
<1> HIDE DEF same, out, new
<1>7. CASE /\ service' = [service EXCEPT !.records = (service.records \ same) \cup {[r EXCEPT !.version = 3 - @] : r \in same}]
           /\ host' = [step |-> "announce", told |-> Ids({})]
  <2> DEFINE Turned(r) == [r EXCEPT !.version = 3 - r.version]
  <2>1. \A r \in PopupRecords : Turned(r) \in PopupRecords /\ Turned(r).id = r.id
    BY DEF PopupRecords
  <2>2. service'.records = (service.records \ same) \cup {Turned(r) : r \in same} /\ service'.next = service.next
    BY <1>7 DEF PopupInv, PopupShapes, Services
  <2> HIDE DEF Turned
  <2>3. service' \in Services
    BY <1>2, <1>3, <1>7, <2>1, <2>2 DEF PopupInv, PopupShapes, Services
  <2>4. Ids(service'.records) = Ids(service.records)
    BY <1>2, <1>3, <2>1, <2>2 DEF Ids
  <2>5. host'.told = {} /\ host' \in Hosts
    BY <1>7 DEF Ids, Hosts
  <2>6. ASSUME NEW r \in service'.records, NEW other \in service'.records, r.id = other.id PROVE r = other
    <3>1. PICK a \in service.records : a.id = r.id /\ r = IF a \in same THEN Turned(a) ELSE a
      BY <1>2, <1>3, <2>1, <2>2
    <3>2. PICK b \in service.records : b.id = other.id /\ other = IF b \in same THEN Turned(b) ELSE b
      BY <1>2, <1>3, <2>1, <2>2
    <3>3. a = b
      BY <2>6, <3>1, <3>2 DEF PopupInv, IdsAreOwn
    <3> QED
      BY <3>1, <3>2, <3>3
  <2>7. IdsAreOwn'
    BY <1>6, <2>2, <2>4, <2>5, <2>6 DEF PopupInv, IdsAreOwn
  <2>8. EndsAreTold'
    BY <1>1, <1>2, <2>2, <2>4, <2>5 DEF PopupInv, EndsAreTold
  <2>9. LogFits'
    <3>1. service'.next + Accepting' + popupLeft'["shows"] <= n
      BY <1>1, <1>2, <1>4, <1>6, <2>2
    <3> QED
      BY <1>1, <1>4, <2>2, <3>1 DEF LogFits
  <2> QED
    BY <1>1, <1>2, <2>3, <2>5, <2>7, <2>8, <2>9 DEF PopupInv, PopupShapes
<1>8. CASE /\ service' = [service EXCEPT !.next = service.next + 1, !.records = (service.records \ out) \cup {new}]
           /\ host' = [step |-> "announce", told |-> Ids(out)]
  <2>1. /\ service'.records = (service.records \ out) \cup {new} /\ service'.next = service.next + 1
        /\ service' \in Services
    <3>1. (service.records \ out) \cup {new} \in SUBSET PopupRecords /\ service.next + 1 \in Nat
      BY <1>2, <1>5
    <3>2. service \in Services
      BY DEF PopupInv, PopupShapes
    <3> QED
      BY <1>8, <3>1, <3>2 DEF Services
  <2>2. /\ Ids(service'.records) = (Ids(service.records) \ Ids(out)) \cup {service.next + 1}
        /\ Ids(out) \subseteq Ids(service.records)
    BY <1>3, <1>5, <2>1 DEF PopupInv, IdsAreOwn, Ids
  <2>3. Ids(service.records) \subseteq 1 .. service.next /\ service.next + 1 \notin Ids(service.records)
    <3>1. Ids(service.records) \subseteq 1 .. service.next
      BY DEF PopupInv, IdsAreOwn
    <3> QED
      BY <1>2, <3>1
  <2>4. host'.told = Ids(out) /\ host' \in Hosts
    BY <1>2, <1>8, <2>2, <2>3 DEF Hosts
  <2>5. ASSUME NEW r \in service'.records, NEW other \in service'.records, r.id = other.id PROVE r = other
    <3>1. \A old \in service.records : old.id # service.next + 1
      BY <2>3 DEF Ids
    <3> QED
      BY <1>5, <2>1, <2>5, <3>1 DEF PopupInv, IdsAreOwn
  <2>6. IdsAreOwn'
    <3>1. Ids(service'.records) \cup host'.told \subseteq 1 .. service'.next
      BY <1>2, <2>1, <2>2, <2>3, <2>4
    <3> QED
      BY <1>6, <2>5, <3>1 DEF IdsAreOwn
  <2>7. EndsAreTold'
    <3>1. ASSUME NEW i \in 1 .. service'.next
          PROVE  Counted(i, Ids(service'.records)) + Counted(i, host'.told) + popupLog[i] = 1
      <4>1. CASE i = service.next + 1
        <5>1. i \in 1 .. n /\ i > service.next /\ i \notin Ids(out)
          BY <1>2, <1>4, <2>2, <2>3, <4>1
        <5>2. i \in Ids(service'.records)
          BY <2>2, <4>1
        <5> QED
          BY <1>4, <2>4, <5>1, <5>2 DEF Counted
      <4>2. CASE i # service.next + 1
        <5>1. i \in 1 .. service.next
          BY <1>2, <2>1, <4>2
        <5>2. Counted(i, Ids(service.records)) + Counted(i, {}) + popupLog[i] = 1
          BY <1>2, <5>1, CountsAre DEF PopupInv
        <5>3. i \in Ids(service'.records) <=> i \in Ids(service.records) /\ i \notin Ids(out)
          BY <2>2, <4>2
        <5> QED
          BY <2>2, <2>4, <5>2, <5>3 DEF Counted
      <4> QED
        BY <4>1, <4>2
    <3> QED
      BY <1>1, <3>1 DEF EndsAreTold, Counted
  <2>8. LogFits'
    <3>1. service'.next + Accepting' + popupLeft'["shows"] <= n
      BY <1>1, <1>2, <1>4, <1>6, <2>1
    <3>2. \A i \in 1 .. n : i > service'.next => popupLog'[i] = 0
      BY <1>1, <1>2, <1>4, <2>1
    <3> QED
      BY <1>1, <1>4, <3>1, <3>2 DEF LogFits
  <2> QED
    BY <1>1, <1>2, <2>1, <2>4, <2>6, <2>7, <2>8 DEF PopupInv, PopupShapes
<1> QED
  BY <1>1, <1>7, <1>8 DEF same, out, new

\* An end is told: it moves from what is to be told to the history.
LEMMA LogGrows ==
    ASSUME PopupInv, NEW id \in 1 .. service.next, popupLog' = [popupLog EXCEPT ![id] = @ + 1],
           service'.next = service.next, Accepting' = Accepting, popupLeft' = popupLeft
    PROVE  /\ popupLog'[id] = popupLog[id] + 1 /\ popupLog[id] \in Nat
           /\ \A i \in 1 .. service.next : i # id => popupLog'[i] = popupLog[i]
           /\ LogFits'
<1>1. service.next \in Nat /\ Accepting \in Nat /\ popupLeft["shows"] \in Nat
  BY DEF PopupInv, PopupShapes, Services, Accepting, PopupEvents
<1>2. PICK n \in Nat : /\ popupLog \in [1 .. n -> Nat]
                       /\ service.next + Accepting + popupLeft["shows"] <= n
                       /\ \A i \in 1 .. n : i > service.next => popupLog[i] = 0
  BY DEF PopupInv, LogFits
<1>3. id \in 1 .. n /\ 1 .. service.next \subseteq 1 .. n /\ ~(id > service.next)
  BY <1>1, <1>2
<1>4. popupLog' \in [1 .. n -> Nat] /\ popupLog'[id] = popupLog[id] + 1 /\ popupLog[id] \in Nat
      /\ \A i \in 1 .. n : i # id => popupLog'[i] = popupLog[i]
  BY <1>2, <1>3
<1>5. LogFits'
  BY <1>2, <1>3, <1>4 DEF LogFits
<1> QED
  BY <1>3, <1>4, <1>5

LEMMA TellEndKeeps == ASSUME PopupInv, TellEnd PROVE PopupInv'
<1>1. host.step = "announce" /\ UNCHANGED <<service, popupLeft>>
  BY DEF TellEnd
<1>2. PICK id \in host.told : popupLog' = [popupLog EXCEPT ![id] = @ + 1] /\ host' = [host EXCEPT !.told = @ \ {id}]
  BY DEF TellEnd
<1>3. host \in [step : {"idle", "announce"}, told : SUBSET Nat] /\ id \in 1 .. service.next
  BY <1>1 DEF PopupInv, PopupShapes, Hosts, IdsAreOwn
<1>4. host'.told = host.told \ {id} /\ host'.step = host.step /\ host' \in Hosts
  BY <1>2, <1>3 DEF Hosts
<1>5. Accepting' = Accepting
  BY <1>4 DEF Accepting
<1>6. /\ popupLog'[id] = popupLog[id] + 1 /\ popupLog[id] \in Nat /\ LogFits'
      /\ \A i \in 1 .. service.next : i # id => popupLog'[i] = popupLog[i]
  BY <1>1, <1>2, <1>3, <1>5, LogGrows
<1>7. PopupShapes' /\ IdsAreOwn'
  BY <1>1, <1>4 DEF PopupInv, PopupShapes, IdsAreOwn, Ids
<1>8. EndsAreTold'
  <2>1. ASSUME NEW i \in 1 .. service.next
        PROVE  Counted(i, Ids(service.records)) + Counted(i, host'.told) + popupLog'[i] = 1
    <3>1. Counted(i, Ids(service.records)) + Counted(i, host.told) + popupLog[i] = 1
      BY CountsAre DEF PopupInv
    <3>2. CASE i = id
      BY <1>2, <1>4, <1>6, <3>1, <3>2 DEF Counted
    <3>3. CASE i # id
      BY <1>4, <1>6, <3>1, <3>3 DEF Counted
    <3> QED
      BY <3>2, <3>3
  <2> QED
    BY <1>1, <2>1 DEF EndsAreTold, Counted
<1> QED
  BY <1>6, <1>7, <1>8 DEF PopupInv

LEMMA AnnounceKeeps == ASSUME PopupInv, Announce PROVE PopupInv'
<1>1. /\ host.step = "announce" /\ host.told = {} /\ host' = [step |-> "idle", told |-> {}]
      /\ UNCHANGED <<service, popupLog, popupLeft>>
  BY DEF Announce, Idle
<1>2. host'.told = host.told /\ host' \in Hosts /\ Accepting' = Accepting
  BY <1>1 DEF Hosts, Accepting
<1> QED
  BY <1>1, <1>2 DEF PopupInv, PopupShapes, IdsAreOwn, LogFits, EndsAreTold, Ids

LEMMA ReportEndKeeps == ASSUME PopupInv, NEW c, ReportEnd(c) PROVE PopupInv'
<1> DEFINE ended == {r \in service.records : r.id = c.id}
<1>1. UNCHANGED <<host, popupLeft>>
  BY DEF ReportEnd
<1>2. CASE ended = {}
  <2>1. UNCHANGED <<service, popupLog>>
    BY <1>2 DEF ReportEnd
  <2> QED
    BY <1>1, <2>1 DEF PopupInv, PopupShapes, IdsAreOwn, LogFits, Accepting, EndsAreTold, Ids
<1>3. CASE ended # {}
  <2>1. service' = [service EXCEPT !.records = service.records \ ended] /\ popupLog' = [popupLog EXCEPT ![c.id] = @ + 1]
    BY <1>3 DEF ReportEnd
  <2>2. service'.records = service.records \ ended /\ service'.next = service.next /\ service' \in Services
    BY <2>1 DEF PopupInv, PopupShapes, Services
  <2>3. c.id \in Ids(service.records) /\ Ids(service'.records) = Ids(service.records) \ {c.id}
    BY <1>3, <2>2 DEF Ids
  <2>4. c.id \in 1 .. service.next
    BY <2>3 DEF PopupInv, IdsAreOwn
  <2>5. Accepting' = Accepting
    BY <1>1 DEF Accepting
  <2>6. /\ popupLog'[c.id] = popupLog[c.id] + 1 /\ popupLog[c.id] \in Nat /\ LogFits'
        /\ \A i \in 1 .. service.next : i # c.id => popupLog'[i] = popupLog[i]
    BY <1>1, <2>1, <2>2, <2>4, <2>5, LogGrows
  <2>7. PopupShapes' /\ IdsAreOwn'
    BY <1>1, <2>2, <2>3 DEF PopupInv, PopupShapes, IdsAreOwn
  <2>8. EndsAreTold'
    <3>1. ASSUME NEW i \in 1 .. service.next
          PROVE  Counted(i, Ids(service'.records)) + Counted(i, host.told) + popupLog'[i] = 1
      <4>1. Counted(i, Ids(service.records)) + Counted(i, host.told) + popupLog[i] = 1
        BY CountsAre DEF PopupInv
      <4>2. CASE i = c.id
        BY <2>3, <2>6, <4>1, <4>2 DEF Counted
      <4>3. CASE i # c.id
        BY <2>3, <2>6, <4>1, <4>3 DEF Counted
      <4> QED
        BY <4>2, <4>3
    <3> QED
      BY <1>1, <2>2, <3>1 DEF EndsAreTold, Counted
  <2> QED
    BY <2>6, <2>7, <2>8 DEF PopupInv
<1> QED
  BY <1>2, <1>3

LEMMA ReportShownKeeps == ASSUME PopupInv, NEW c, ReportShown(c) PROVE PopupInv'
<1> DEFINE Seen(r) == IF r.id = c.id /\ ~Stopped(r) THEN [r EXCEPT !.shown = TRUE] ELSE r
<1>1. /\ service' = [service EXCEPT !.records = {Seen(r) : r \in service.records}]
      /\ UNCHANGED <<host, popupLog, popupLeft>>
  BY DEF ReportShown
<1>2. \A r \in PopupRecords : Seen(r) \in PopupRecords /\ Seen(r).id = r.id
  BY DEF PopupRecords
<1> HIDE DEF Seen
<1>3. service.records \in SUBSET PopupRecords
  BY DEF PopupInv, PopupShapes, Services
<1>4. service'.records = {Seen(r) : r \in service.records} /\ service'.next = service.next /\ service' \in Services
  BY <1>1, <1>2, <1>3 DEF PopupInv, PopupShapes, Services
<1>5. Ids(service'.records) = Ids(service.records)
  BY <1>2, <1>3, <1>4 DEF Ids
<1>6. \A r, other \in service'.records : r.id = other.id => r = other
  BY <1>2, <1>3, <1>4 DEF PopupInv, IdsAreOwn
<1>7. PopupShapes' /\ IdsAreOwn'
  BY <1>1, <1>4, <1>5, <1>6 DEF PopupInv, PopupShapes, IdsAreOwn
<1>8. LogFits' /\ EndsAreTold'
  BY <1>1, <1>4, <1>5 DEF PopupInv, LogFits, Accepting, EndsAreTold
<1> QED
  BY <1>7, <1>8 DEF PopupInv

\* What else happens to the page, its window, the sessions and the switch.
LEMMA OtherPopupSteps ==
    ASSUME PopupInv,
           \/ \E s \in Session : StopSession(s)
           \/ TogglePopups
           \/ \E l \in Legacy : EnqueueLegacy(l) \/ SendLegacy(l) \/ HoldLegacy(l) \/ EndLegacy(l)
           \/ ReadyNotifications \/ PageStarts \/ Fetch \/ Answer \/ Compare \/ ApplySnapshot
           \/ CloseSurface \/ SetMeasure
           \/ \E item \in toast.items : EndItem(item)
           \/ \E c \in calls : \/ Reposition(c) \/ TokenAfterStage(c) \/ PresentNotifications(c)
                               \/ RevealNotifications(c) \/ CloseForgets(c) \/ CloseDestroys(c)
    PROVE  PopupInv'
<1>1. service \in Services /\ popupLeft \in [PopupEvents -> Nat]
  BY DEF PopupInv, PopupShapes
<1>2. {"stops", "toggles", "olds", "ends"} \subseteq PopupEvents
  BY DEF PopupEvents
<1>3. ASSUME NEW s \in Session, StopSession(s)
      PROVE  /\ UNCHANGED <<host, popupLog>> /\ service' \in Services /\ Spend("stops")
             /\ service'.records = service.records /\ service'.next = service.next
  BY <1>1, <1>3 DEF StopSession, Services
<1>4. CASE TogglePopups
  <2>1. /\ UNCHANGED <<host, popupLog>> /\ service' \in Services /\ Spend("toggles")
        /\ service'.records = service.records /\ service'.next = service.next
    BY <1>1, <1>4 DEF TogglePopups, Services
  <2> QED
    BY <1>1, <1>2, <2>1, OthersMayBeSpent, OthersKeepEnds
<1>5. ASSUME NEW l \in Legacy, EnqueueLegacy(l) \/ SendLegacy(l) \/ HoldLegacy(l) \/ EndLegacy(l)
      PROVE  /\ UNCHANGED <<service, host, popupLog>>
             /\ UNCHANGED popupLeft \/ Spend("olds")
  BY <1>5 DEF EnqueueLegacy, SendLegacy, HoldLegacy, EndLegacy
<1>6. ASSUME \/ ReadyNotifications \/ PageStarts \/ Fetch \/ Answer \/ Compare \/ ApplySnapshot
             \/ CloseSurface \/ SetMeasure
      PROVE  UNCHANGED <<service, host, popupLog, popupLeft>>
  BY <1>6 DEF ReadyNotifications, PageStarts, Fetch, Answer, Compare, ApplySnapshot, CloseSurface, SetMeasure
<1>7. ASSUME NEW item \in toast.items, EndItem(item)
      PROVE  UNCHANGED <<service, host, popupLog>> /\ Spend("ends")
  BY <1>7 DEF EndItem
<1>8. ASSUME NEW c \in calls, \/ Reposition(c) \/ TokenAfterStage(c) \/ PresentNotifications(c)
                              \/ RevealNotifications(c) \/ CloseForgets(c) \/ CloseDestroys(c)
      PROVE  UNCHANGED <<service, host, popupLog, popupLeft>>
  BY <1>8 DEF Reposition, TokenAfterStage, PresentNotifications, RevealNotifications, CloseForgets, CloseDestroys
<1>9. ASSUME UNCHANGED <<service, host, popupLog>>, UNCHANGED popupLeft \/ \E event \in PopupEvents : Spend(event)
      PROVE  PopupInv'
  BY <1>1, <1>9, OthersMayBeSpent, OthersKeepEnds
<1>10. ASSUME NEW s \in Session, StopSession(s) PROVE PopupInv'
  BY <1>1, <1>2, <1>3, <1>10, OthersMayBeSpent, OthersKeepEnds
<1> QED
  BY <1>2, <1>4, <1>5, <1>6, <1>7, <1>8, <1>9, <1>10, Zenon

\* A popup that was accepted is on record, is about to be told of, or was told of once: for
\* any sessions, names, limit of the records, and number of popups (desktop.rs:207, :221,
\* :273).
THEOREM EndsAreToldOnce == PopupSpec => []EndsAreTold
<1>1. PopupInv /\ [PopupNext]_popupVars => PopupInv'
  <2> SUFFICES ASSUME PopupInv, [PopupNext]_popupVars PROVE PopupInv'
    OBVIOUS
  <2>1. CASE UNCHANGED popupVars
    BY <2>1 DEF popupVars, PopupInv, PopupShapes, IdsAreOwn, LogFits, Accepting, EndsAreTold, Ids
  <2>2. ASSUME NEW s \in Session, NEW k \in PopupKey, ShowPopup(s, k) \/ DismissPopup(s, k) PROVE PopupInv'
    BY <2>2, ShowPopupKeeps, DismissPopupKeeps
  <2>3. CASE RecordPopup \/ Cleanup \/ TellEnd \/ Announce
    BY <2>3, RecordPopupKeeps, CleanupKeeps, TellEndKeeps, AnnounceKeeps
  <2>4. ASSUME NEW c \in calls, ReportEnd(c) \/ ReportShown(c) PROVE PopupInv'
    BY <2>4, ReportEndKeeps, ReportShownKeeps
  <2>5. CASE PopupNext
    BY <2>2, <2>3, <2>4, <2>5, OtherPopupSteps, Zenon DEF PopupNext
  <2> QED
    BY <2>1, <2>5
<1>2. PopupInv => EndsAreTold
  BY DEF PopupInv
<1>3. PopupInit => PopupInv
  BY PopupInvInit
<1> QED
  BY <1>1, <1>2, <1>3, PTL DEF PopupSpec

--------------------------------------------------------------------------------
(****************************************************************************)
(* SurfaceFrames.  Where windows go is arithmetic over what is measured:     *)
(* each operator is given a lemma that says what it returns for every        *)
(* rectangle, and the steps put them together.                               *)
(****************************************************************************)

LEMMA Halved == ASSUME NEW n \in Nat PROVE n \div 2 \in Nat /\ n \div 2 <= n /\ 2 * (n \div 2) <= n
OBVIOUS

\* clamp, for bounds in the right order.
LEMMA ClampIs ==
    ASSUME NEW v \in Int, NEW low \in Int, NEW high \in Int, low <= high
    PROVE /\ Clamp(v, low, high) \in Int /\ low <= Clamp(v, low, high) /\ Clamp(v, low, high) <= high
          /\ Clamp(v, low, high) = IF v < low THEN low ELSE IF v > high THEN high ELSE v
BY DEF Clamp, Least, Greatest

LEMMA LeastIs ==
    ASSUME NEW a \in Int, NEW b \in Int
    PROVE Least(a, b) \in {a, b} /\ Least(a, b) <= a /\ Least(a, b) <= b
BY DEF Least

LEMMA GreatestIs ==
    ASSUME NEW a \in Int, NEW b \in Int
    PROVE Greatest(a, b) \in {a, b} /\ Greatest(a, b) >= a /\ Greatest(a, b) >= b
BY DEF Greatest

\* What is measured is made as small as the work area.
LEMMA SizeFits ==
    ASSUME NEW area, IsRectangle(area), NEW size \in [w : Nat \ {0}, h : Nat \ {0}]
    PROVE /\ Least(size.w, area.w) \in Nat \ {0} /\ Least(size.w, area.w) <= area.w
          /\ Least(size.h, area.h) \in Nat \ {0} /\ Least(size.h, area.h) <= area.h
BY DEF Least, IsRectangle

\* Over a tile and within the area, at the distance from its sides that there is room for.
LEMMA HorizontallyFits ==
    ASSUME NEW area, IsRectangle(area), NEW tile, IsRectangle(tile), NEW inset \in Nat,
           NEW w \in Nat \ {0}, w <= area.w
    PROVE LET x == Horizontally(area, tile, w, inset)
              kept == Least(inset, (area.w - w) \div 2)
          IN  /\ x \in Int /\ kept \in Nat /\ kept <= inset
              /\ area.x + kept <= x /\ x + w <= Right(area) - kept
              /\ \/ x = Center(tile) - w \div 2
                 \/ x = area.x + kept /\ Center(tile) - w \div 2 < x
                 \/ x = Right(area) - w - kept /\ Center(tile) - w \div 2 > x
<1> DEFINE x == Horizontally(area, tile, w, inset)
           kept == Least(inset, (area.w - w) \div 2)
<1>1. /\ area.x \in Int /\ area.w \in Nat \ {0} /\ tile.x \in Int /\ tile.w \in Nat \ {0}
      /\ area.w - w \in Nat /\ Right(area) = area.x + area.w
  BY DEF IsRectangle, Right
<1>2. /\ (area.w - w) \div 2 \in Nat /\ 2 * ((area.w - w) \div 2) <= area.w - w
      /\ tile.w \div 2 \in Nat /\ w \div 2 \in Nat
  BY <1>1, Halved
<1>3. kept \in Nat /\ kept <= inset /\ 2 * kept <= area.w - w
  <2> DEFINE half == (area.w - w) \div 2
  <2>1. half \in Nat /\ 2 * half <= area.w - w /\ kept = Least(inset, half)
    BY <1>2
  <2> HIDE DEF half, kept
  <2>2. kept \in {inset, half} /\ kept <= inset /\ kept <= half
    BY <2>1, LeastIs
  <2> QED
    BY <1>1, <2>1, <2>2
<1>4. Center(tile) \in Int
  BY <1>1, <1>2 DEF Center
<1> HIDE DEF kept
<1>5. /\ Center(tile) - w \div 2 \in Int /\ area.x + kept \in Int /\ Right(area) - w - kept \in Int
      /\ area.x + kept <= Right(area) - w - kept
  BY <1>1, <1>2, <1>3, <1>4
<1>6. x = Clamp(Center(tile) - w \div 2, area.x + kept, Right(area) - w - kept)
  BY DEF Horizontally, kept
<1>7. x = IF Center(tile) - w \div 2 < area.x + kept THEN area.x + kept
          ELSE IF Center(tile) - w \div 2 > Right(area) - w - kept THEN Right(area) - w - kept
          ELSE Center(tile) - w \div 2
  BY <1>5, <1>6, ClampIs
<1> HIDE DEF x
<1>8. x \in Int /\ area.x + kept <= x /\ x + w <= Right(area) - kept
  BY <1>1, <1>3, <1>5, <1>7
<1> QED
  BY <1>3, <1>5, <1>7, <1>8 DEF x, kept

\* On the inner side of the bar, at its distance where there is room.
LEMMA VerticallyFits ==
    ASSUME NEW area, IsRectangle(area), NEW tile, IsRectangle(tile), NEW gap \in Nat,
           NEW reserve \in Nat, NEW h \in Nat \ {0}, h <= area.h, NEW edge
    PROVE LET y == Vertically(area, tile, h, edge, gap, reserve)
          IN  /\ y \in Int /\ area.y <= y /\ y + h <= Below(area)
              /\ edge = "top" /\ Below(area) - Below(tile) >= h + gap - reserve
                     => y + reserve >= Below(tile) + gap
              /\ edge # "top" /\ tile.y - area.y >= h + gap - reserve
                     => y + h - reserve <= tile.y - gap
<1> DEFINE y == Vertically(area, tile, h, edge, gap, reserve)
           wish == IF edge = "top" THEN Below(tile) + gap - reserve ELSE tile.y - h - gap + reserve
<1>1. /\ area.y \in Int /\ area.h \in Nat \ {0} /\ Below(area) = area.y + area.h
      /\ tile.y \in Int /\ tile.h \in Nat \ {0} /\ Below(tile) = tile.y + tile.h
  BY DEF IsRectangle, Below
<1>2. wish \in Int /\ area.y <= Below(area) - h /\ Below(area) - h \in Int
  BY <1>1
<1>3. y = Clamp(wish, area.y, Below(area) - h)
  BY DEF Vertically
<1>4. y = IF wish < area.y THEN area.y ELSE IF wish > Below(area) - h THEN Below(area) - h ELSE wish
  <2> HIDE DEF wish, y
  <2> QED
    BY <1>1, <1>2, <1>3, ClampIs
<1> HIDE DEF y
<1>5. y \in Int /\ area.y <= y /\ y + h <= Below(area)
  <2> HIDE DEF wish
  <2> QED
    BY <1>1, <1>2, <1>4
<1>6. CASE edge = "top"
  BY <1>1, <1>4, <1>5, <1>6 DEF y
<1>7. CASE edge # "top"
  BY <1>1, <1>4, <1>5, <1>7 DEF y
<1> QED
  BY <1>6, <1>7 DEF y

\* A flyout lies in the area, and its arrow reaches the middle of its tile.
LEMMA FlyoutFits ==
    ASSUME NEW area, IsRectangle(area), NEW tile, IsRectangle(tile), NEW edge, NEW inset \in Nat,
           NEW gap \in Nat, NEW reserve \in Nat, NEW size \in [w : Nat \ {0}, h : Nat \ {0}]
    PROVE LET placed == FlyoutFrame(area, tile, size, edge, inset, gap, reserve)
              at == placed.frame
              side == inset + Least(reserve, at.w \div 2)
          IN  /\ Covers(area, at)
              /\ edge = "top" /\ Below(area) - Below(tile) >= at.h + gap - reserve
                     => at.y + reserve >= Below(tile) + gap
              /\ edge # "top" /\ tile.y - area.y >= at.h + gap - reserve
                     => Below(at) - reserve <= tile.y - gap
              /\ area.x + side <= Center(tile) /\ Center(tile) <= Right(area) - side
                     => at.x + placed.pointer = Center(tile)
<1> DEFINE placed == FlyoutFrame(area, tile, size, edge, inset, gap, reserve)
           at == placed.frame
           w == Least(size.w, area.w)
           h == Least(size.h, area.h)
           x == Horizontally(area, tile, w, inset)
           y == Vertically(area, tile, h, edge, gap, reserve)
           low == Least(reserve, w \div 2)
           kept == Least(inset, (area.w - w) \div 2)
<1>1. w \in Nat \ {0} /\ w <= area.w /\ h \in Nat \ {0} /\ h <= area.h
  BY SizeFits
<1>2. /\ area.x \in Int /\ area.y \in Int /\ area.w \in Nat \ {0} /\ area.h \in Nat \ {0}
      /\ Right(area) = area.x + area.w /\ Below(area) = area.y + area.h
      /\ tile.x \in Int /\ tile.w \in Nat \ {0} /\ tile.y \in Int
  BY DEF IsRectangle, Right, Below
<1>3. Center(tile) \in Int /\ w \div 2 \in Nat /\ 2 * (w \div 2) <= w /\ low \in Nat /\ low <= w \div 2
  <2>1. tile.w \div 2 \in Nat /\ w \div 2 \in Nat /\ 2 * (w \div 2) <= w
    BY <1>1, <1>2, Halved
  <2>2. Center(tile) \in Int
    BY <1>2, <2>1 DEF Center
  <2> QED
    BY <2>1, <2>2 DEF Least
<1>4. /\ x \in Int /\ kept \in Nat /\ kept <= inset
      /\ area.x + kept <= x /\ x + w <= Right(area) - kept
      /\ \/ x = Center(tile) - w \div 2
         \/ x = area.x + kept /\ Center(tile) - w \div 2 < x
         \/ x = Right(area) - w - kept /\ Center(tile) - w \div 2 > x
  <2> HIDE DEF w
  <2> QED
    BY <1>1, HorizontallyFits
<1>5. /\ y \in Int /\ area.y <= y /\ y + h <= Below(area)
      /\ edge = "top" /\ Below(area) - Below(tile) >= h + gap - reserve
             => y + reserve >= Below(tile) + gap
      /\ edge # "top" /\ tile.y - area.y >= h + gap - reserve
             => y + h - reserve <= tile.y - gap
  <2> HIDE DEF h
  <2> QED
    BY <1>1, VerticallyFits
<1>6. placed = [frame |-> Rectangle(x, y, w, h), pointer |-> Clamp(Center(tile) - x, low, w - low)]
  BY DEF FlyoutFrame
<1> HIDE DEF w, h, x, y, low, kept, placed
<1>7. at.x = x /\ at.y = y /\ at.w = w /\ at.h = h
  <2>1. at = Rectangle(x, y, w, h) /\ x \in Int /\ y \in Int
    BY <1>4, <1>5, <1>6
  <2> HIDE DEF at
  <2> QED
    BY <1>1, <2>1 DEF Rectangle, IsRectangle
<1>8. Right(at) = x + w /\ Below(at) = y + h
  BY <1>7 DEF Right, Below
<1>9. Covers(area, at)
  BY <1>1, <1>2, <1>4, <1>5, <1>7, <1>8 DEF Covers
<1>10. ASSUME area.x + (inset + low) <= Center(tile), Center(tile) <= Right(area) - (inset + low)
       PROVE x + placed.pointer = Center(tile)
  <2>1. low <= Center(tile) - x /\ Center(tile) - x <= w - low
    BY <1>1, <1>2, <1>3, <1>4, <1>10
  <2>2. Center(tile) - x \in Int /\ low \in Int /\ w - low \in Int /\ low <= w - low
    BY <1>1, <1>3, <1>4
  <2>3. Clamp(Center(tile) - x, low, w - low) = Center(tile) - x
    BY <2>1, <2>2, ClampIs
  <2> QED
    BY <1>3, <1>4, <1>6, <2>3
<1>11. inset + Least(reserve, at.w \div 2) = inset + low
  BY <1>7 DEF low
<1> HIDE DEF at
<1>12. /\ edge = "top" /\ Below(area) - Below(tile) >= at.h + gap - reserve
               => at.y + reserve >= Below(tile) + gap
       /\ edge # "top" /\ tile.y - area.y >= at.h + gap - reserve
               => Below(at) - reserve <= tile.y - gap
  <2>1. CASE edge = "top"
    BY <1>5, <1>7, <1>8, <2>1
  <2>2. CASE edge # "top"
    BY <1>1, <1>2, <1>5, <1>7, <1>8, <2>2
  <2> QED
    BY <2>1, <2>2
<1>13. LET side == inset + Least(reserve, at.w \div 2)
       IN  area.x + side <= Center(tile) /\ Center(tile) <= Right(area) - side
               => at.x + placed.pointer = Center(tile)
  BY <1>7, <1>10, <1>11
<1> QED
  BY <1>9, <1>12, <1>13 DEF placed, at

\* So does a tooltip.
LEMMA TooltipFits ==
    ASSUME NEW area, IsRectangle(area), NEW tile, IsRectangle(tile), NEW edge, NEW inset \in Nat,
           NEW gap \in Nat, NEW size \in [w : Nat \ {0}, h : Nat \ {0}]
    PROVE LET at == TooltipFrame(area, tile, size, edge, inset, gap)
          IN  /\ Covers(area, at)
              /\ edge = "top" /\ Below(area) - Below(tile) >= at.h + gap - 0
                     => at.y + 0 >= Below(tile) + gap
              /\ edge # "top" /\ tile.y - area.y >= at.h + gap - 0
                     => Below(at) - 0 <= tile.y - gap
<1> DEFINE at == TooltipFrame(area, tile, size, edge, inset, gap)
           w == Least(size.w, area.w)
           h == Least(size.h, area.h)
           x == Horizontally(area, tile, w, inset)
           y == Vertically(area, tile, h, edge, gap, 0)
<1>1. w \in Nat \ {0} /\ w <= area.w /\ h \in Nat \ {0} /\ h <= area.h
  BY SizeFits
<1>2. /\ area.x \in Int /\ area.y \in Int /\ area.w \in Nat \ {0} /\ area.h \in Nat \ {0}
      /\ Right(area) = area.x + area.w /\ Below(area) = area.y + area.h
  BY DEF IsRectangle, Right, Below
<1>3. x \in Int /\ area.x <= x /\ x + w <= Right(area)
  <2> HIDE DEF w
  <2>1. LET kept == Least(inset, (area.w - w) \div 2)
        IN  x \in Int /\ kept \in Nat /\ area.x + kept <= x /\ x + w <= Right(area) - kept
    BY <1>1, HorizontallyFits
  <2> QED
    BY <1>1, <1>2, <2>1
<1>4. /\ y \in Int /\ area.y <= y /\ y + h <= Below(area)
      /\ edge = "top" /\ Below(area) - Below(tile) >= h + gap - 0 => y + 0 >= Below(tile) + gap
      /\ edge # "top" /\ tile.y - area.y >= h + gap - 0 => y + h - 0 <= tile.y - gap
  <2> HIDE DEF h
  <2> QED
    BY <1>1, VerticallyFits
<1>5. at = Rectangle(x, y, w, h)
  BY DEF TooltipFrame
<1> HIDE DEF w, h, x, y, at
<1>6. at.x = x /\ at.y = y /\ at.w = w /\ at.h = h
  BY <1>5 DEF Rectangle
<1>7. Right(at) = x + w /\ Below(at) = y + h
  BY <1>6 DEF Right, Below
<1> QED
  BY <1>1, <1>2, <1>3, <1>4, <1>6, <1>7 DEF Covers, at

\* A menu opens at its point, or on the other side of it.
LEMMA MenuSideFits ==
    ASSUME NEW point \in Int, NEW span \in Nat \ {0}, NEW low \in Int, NEW high \in Int,
           NEW inset \in Nat, low + inset <= high - span - inset
    PROVE LET at == MenuSide(point, span, low, high, inset)
          IN  /\ at \in Int /\ low <= at /\ at + span <= high
              /\ low <= point /\ point <= high => at <= point + inset /\ point - inset <= at + span
<1> DEFINE at == MenuSide(point, span, low, high, inset)
           wish == IF point + span + inset <= high THEN point ELSE point - span
<1>1. wish \in Int /\ at = Clamp(wish, low + inset, high - span - inset)
  BY DEF MenuSide
<1> HIDE DEF at, wish
<1>0. low + inset \in Int /\ high - span - inset \in Int
  OBVIOUS
<1>2. at = IF wish < low + inset THEN low + inset
           ELSE IF wish > high - span - inset THEN high - span - inset ELSE wish
  BY <1>0, <1>1, ClampIs
<1> USE DEF wish
<1>3. CASE point + span + inset <= high
  BY <1>1, <1>2, <1>3 DEF at
<1>4. CASE ~(point + span + inset <= high)
  BY <1>1, <1>2, <1>4 DEF at
<1> QED
  BY <1>3, <1>4

LEMMA MenuFits ==
    ASSUME NEW area, IsRectangle(area), NEW point, point.x \in Int, point.y \in Int,
           NEW panel \in [w : Nat \ {0}, h : Nat \ {0}], NEW inset \in Nat
    PROVE LET at == MenuFrame(area, point, panel, inset)
          IN  /\ Covers(area, at)
              /\ area.x <= point.x /\ point.x <= Right(area)
                     => at.x <= point.x + inset /\ point.x - inset <= Right(at)
<1> DEFINE at == MenuFrame(area, point, panel, inset)
           w == Least(2 * panel.w + 2 * inset, area.w)
           h == Least(panel.h + 2 * inset, area.h)
           across == Least(inset, (area.w - w) \div 2)
           down == Least(inset, (area.h - h) \div 2)
           x == MenuSide(point.x, w, area.x, Right(area), across)
           y == MenuSide(point.y, h, area.y, Below(area), down)
<1>1. /\ area.x \in Int /\ area.y \in Int /\ area.w \in Nat \ {0} /\ area.h \in Nat \ {0}
      /\ Right(area) = area.x + area.w /\ Below(area) = area.y + area.h
  BY DEF IsRectangle, Right, Below
<1>2. w \in Nat \ {0} /\ w <= area.w /\ h \in Nat \ {0} /\ h <= area.h
  BY <1>1 DEF Least
<1> HIDE DEF w, h
<1>3. /\ area.w - w \in Nat /\ (area.w - w) \div 2 \in Nat /\ 2 * ((area.w - w) \div 2) <= area.w - w
      /\ area.h - h \in Nat /\ (area.h - h) \div 2 \in Nat /\ 2 * ((area.h - h) \div 2) <= area.h - h
  BY <1>1, <1>2, Halved
<1>4. /\ across \in Nat /\ across <= inset /\ 2 * across <= area.w - w
      /\ down \in Nat /\ 2 * down <= area.h - h
  BY <1>3 DEF Least
<1> HIDE DEF across, down
<1>5. /\ x \in Int /\ area.x <= x /\ x + w <= Right(area)
      /\ area.x <= point.x /\ point.x <= Right(area)
             => x <= point.x + across /\ point.x - across <= x + w
  <2>1. area.x + across <= Right(area) - w - across /\ Right(area) \in Int
    BY <1>1, <1>2, <1>4
  <2> QED
    BY <1>1, <1>2, <1>4, <2>1, MenuSideFits
<1>6. y \in Int /\ area.y <= y /\ y + h <= Below(area)
  <2>1. area.y + down <= Below(area) - h - down /\ Below(area) \in Int
    BY <1>1, <1>2, <1>4
  <2> QED
    BY <1>1, <1>2, <1>4, <2>1, MenuSideFits
<1>7. at = Rectangle(x, y, w, h)
  BY DEF MenuFrame, w, h, across, down
<1> HIDE DEF x, y, at
<1>8. at.x = x /\ at.y = y /\ at.w = w /\ at.h = h
  BY <1>7 DEF Rectangle
<1>9. Right(at) = x + w /\ Below(at) = y + h
  BY <1>8 DEF Right, Below
<1>10. Covers(area, at)
  BY <1>1, <1>2, <1>5, <1>6, <1>8, <1>9 DEF Covers
<1>11. area.x <= point.x /\ point.x <= Right(area) => at.x <= point.x + inset /\ point.x - inset <= Right(at)
  BY <1>1, <1>2, <1>4, <1>5, <1>8, <1>9
<1> QED
  BY <1>10, <1>11 DEF at

\* A window anchored to a corner or an edge lies in the area, and keeps its distance to the bar
\* it would cover; at the other edge it keeps its inset.
LEMMA AnchoredFits ==
    ASSUME NEW area, IsRectangle(area), NEW size \in [w : Nat \ {0}, h : Nat \ {0}], NEW across,
           NEW up, NEW inset \in Nat, NEW rect, IsRectangle(rect), NEW avoided \in {{}, {rect}},
           NEW gap \in Nat
    PROVE LET at == AnchoredFrame(area, size, across, up, inset, avoided, gap)
          IN  /\ IsRectangle(at) /\ Covers(area, at)
              /\ avoided = {rect} /\ up = "top" /\ Below(area) - Below(rect) >= at.h + gap
                     => ~Overlaps(at, rect)
              /\ avoided = {rect} /\ up # "top" /\ rect.y - area.y >= at.h + gap => ~Overlaps(at, rect)
              /\ avoided = {} /\ up # "top" /\ Below(area) - Below(rect) >= at.h + inset
                     => ~Overlaps(at, rect)
              /\ avoided = {} /\ up = "top" /\ rect.y - area.y >= at.h + inset => ~Overlaps(at, rect)
<1> DEFINE at == AnchoredFrame(area, size, across, up, inset, avoided, gap)
           w == Least(size.w, area.w)
           h == Least(size.h, area.h)
           wish == CASE across = "left" -> area.x + inset
                     [] across = "right" -> Right(area) - w - inset
                     [] OTHER -> area.x + (area.w - w) \div 2
           x == Clamp(wish, area.x, Right(area) - w)
           start == IF up = "top" THEN area.y + inset ELSE Below(area) - h - inset
           inTheWay == {b \in avoided : x < Right(b) /\ x + w > b.x}
           clear(b) == IF up = "top" THEN Greatest(start, Below(b) + gap) ELSE Least(start, b.y - h - gap)
           height == IF inTheWay = {} THEN start ELSE clear(CHOOSE b \in inTheWay : TRUE)
           y == Clamp(height, area.y, Below(area) - h)
           hit == avoided = {rect} /\ x < Right(rect) /\ x + w > rect.x
<1>1. /\ area.x \in Int /\ area.y \in Int /\ area.w \in Nat \ {0} /\ area.h \in Nat \ {0}
      /\ Right(area) = area.x + area.w /\ Below(area) = area.y + area.h
      /\ rect.x \in Int /\ rect.y \in Int /\ rect.w \in Nat \ {0} /\ rect.h \in Nat \ {0}
      /\ Right(rect) = rect.x + rect.w /\ Below(rect) = rect.y + rect.h
  BY DEF IsRectangle, Right, Below
<1>2. w \in Nat \ {0} /\ w <= area.w /\ h \in Nat \ {0} /\ h <= area.h
  BY SizeFits
<1>3. at = Rectangle(x, y, w, h)
  BY DEF AnchoredFrame
<1> HIDE DEF w, h
<1>4. wish \in Int
  <2>1. area.w - w \in Nat
    BY <1>1, <1>2
  <2>2. (area.w - w) \div 2 \in Nat
    BY <2>1, Halved
  <2>3. CASE across = "left"
    BY <1>1, <2>3
  <2>4. CASE across = "right"
    BY <1>1, <1>2, <2>4
  <2>5. CASE across # "left" /\ across # "right"
    BY <1>1, <2>2, <2>5
  <2> QED
    BY <2>3, <2>4, <2>5
<1> HIDE DEF wish
<1>5. x \in Int /\ area.x <= x /\ x + w <= Right(area)
  <2>1. Right(area) - w \in Int /\ area.x <= Right(area) - w
    BY <1>1, <1>2
  <2>2. x \in Int /\ area.x <= x /\ x <= Right(area) - w
    BY <1>1, <1>4, <2>1, ClampIs
  <2> HIDE DEF x
  <2> QED
    BY <1>1, <1>2, <2>2
<1> HIDE DEF x
<1>6. start \in Int
  BY <1>1, <1>2
<1>7. height = IF ~hit THEN start
               ELSE IF up = "top" THEN Greatest(start, Below(rect) + gap) ELSE Least(start, rect.y - h - gap)
  <2>1. inTheWay = IF hit THEN {rect} ELSE {}
    OBVIOUS
  <2> HIDE DEF inTheWay, hit
  <2>2. CASE hit
    <3>1. (CHOOSE b \in inTheWay : TRUE) = rect
      BY <2>1, <2>2
    <3> QED
      BY <2>1, <2>2, <3>1
  <2> QED
    BY <2>1, <2>2
<1> HIDE DEF height
<1>8. /\ height \in Int
      /\ hit /\ up = "top" => height >= Below(rect) + gap
      /\ hit /\ up # "top" => height <= rect.y - h - gap
      /\ ~hit => height = start
  <2> HIDE DEF start, hit
  <2> QED
    BY <1>1, <1>2, <1>6, <1>7 DEF Greatest, Least
<1>9. /\ y \in Int /\ area.y <= y /\ y + h <= Below(area)
      /\ y = IF height < area.y THEN area.y
             ELSE IF height > Below(area) - h THEN Below(area) - h ELSE height
  <2>1. Below(area) - h \in Int /\ area.y <= Below(area) - h
    BY <1>1, <1>2
  <2>2. /\ y \in Int /\ area.y <= y /\ y <= Below(area) - h
        /\ y = IF height < area.y THEN area.y
               ELSE IF height > Below(area) - h THEN Below(area) - h ELSE height
    BY <1>1, <1>8, <2>1, ClampIs
  <2> HIDE DEF y
  <2> QED
    BY <1>1, <1>2, <2>2
<1> HIDE DEF y, at
<1>10. at.x = x /\ at.y = y /\ at.w = w /\ at.h = h /\ IsRectangle(at)
  <2>1. x \in Int /\ y \in Int
    BY <1>5, <1>9
  <2> QED
    BY <1>2, <1>3, <2>1 DEF Rectangle, IsRectangle
<1>11. Right(at) = x + w /\ Below(at) = y + h
  BY <1>10 DEF Right, Below
<1>12. Covers(area, at)
  BY <1>1, <1>2, <1>5, <1>9, <1>10, <1>11 DEF Covers
<1>13. Overlaps(at, rect) <=> x < Right(rect) /\ rect.x < x + w /\ y < Below(rect) /\ rect.y < y + h
  BY <1>10, <1>11 DEF Overlaps
<1>14. ASSUME avoided = {rect}, up = "top", Below(area) - Below(rect) >= at.h + gap PROVE ~Overlaps(at, rect)
  BY <1>1, <1>2, <1>5, <1>8, <1>9, <1>10, <1>13, <1>14
<1>15. ASSUME avoided = {rect}, up # "top", rect.y - area.y >= at.h + gap PROVE ~Overlaps(at, rect)
  BY <1>1, <1>2, <1>5, <1>8, <1>9, <1>10, <1>13, <1>15
<1>16. ASSUME avoided = {}, up # "top", Below(area) - Below(rect) >= at.h + inset PROVE ~Overlaps(at, rect)
  BY <1>1, <1>2, <1>5, <1>8, <1>9, <1>10, <1>13, <1>16
<1>17. ASSUME avoided = {}, up = "top", rect.y - area.y >= at.h + inset PROVE ~Overlaps(at, rect)
  BY <1>1, <1>2, <1>5, <1>8, <1>9, <1>10, <1>13, <1>17
<1> QED
  BY <1>10, <1>12, <1>14, <1>15, <1>16, <1>17 DEF at

\* The smallest rectangle around two that the area covers.
LEMMA UnionFits ==
    ASSUME NEW area, IsRectangle(area), NEW r, IsRectangle(r), NEW s, IsRectangle(s),
           Covers(area, r), Covers(area, s)
    PROVE Covers(area, Union(r, s))
<1> DEFINE x == Least(r.x, s.x)
           y == Least(r.y, s.y)
           w == Greatest(Right(r), Right(s)) - x
           h == Greatest(Below(r), Below(s)) - y
<1>1. /\ r.x \in Int /\ r.y \in Int /\ s.x \in Int /\ s.y \in Int
      /\ Right(r) \in Int /\ Right(s) \in Int /\ Below(r) \in Int /\ Below(s) \in Int
      /\ Right(r) > r.x /\ Below(r) > r.y
      /\ area.x \in Int /\ area.y \in Int /\ Right(area) \in Int /\ Below(area) \in Int
  BY DEF IsRectangle, Right, Below
<1>2. /\ area.x <= r.x /\ area.y <= r.y /\ area.x <= s.x /\ area.y <= s.y
      /\ Right(r) <= Right(area) /\ Right(s) <= Right(area)
      /\ Below(r) <= Below(area) /\ Below(s) <= Below(area)
  BY DEF Covers
<1>3. x \in Int /\ area.x <= x /\ x + w <= Right(area) /\ w \in Nat \ {0}
  <2>1. x \in {r.x, s.x} /\ x <= r.x
    BY <1>1, LeastIs
  <2>2. /\ Greatest(Right(r), Right(s)) \in {Right(r), Right(s)}
        /\ Greatest(Right(r), Right(s)) >= Right(r)
    BY <1>1, GreatestIs
  <2> HIDE DEF x
  <2>3. w \in Int /\ w > 0 /\ x + w = Greatest(Right(r), Right(s)) /\ x \in Int
    BY <1>1, <2>1, <2>2
  <2> QED
    BY <1>1, <1>2, <2>1, <2>2, <2>3
<1>4. y \in Int /\ area.y <= y /\ y + h <= Below(area) /\ h \in Nat \ {0}
  BY <1>1, <1>2 DEF Least, Greatest
<1>5. Union(r, s) = Rectangle(x, y, w, h)
  BY DEF Union
<1> HIDE DEF x, y, w, h
<1>6. /\ Union(r, s).x = x /\ Union(r, s).y = y /\ Union(r, s).w = w /\ Union(r, s).h = h
  BY <1>5 DEF Rectangle
<1> QED
  BY <1>3, <1>4, <1>6 DEF Covers, Right, Below

--------------------------------------------------------------------------------
\* The bar: where it is, how far it is out, and the strip that was set for it.
Docked ==
    /\ dock.edge \in Side /\ dock.behavior \in {"reserve", "autohide"} /\ dock.offset \in Nat
    /\ IsRectangle(dock.frame) /\ Covers(Area, dock.frame)
    /\ IsRectangle(dock.rows) /\ dock.rows.x = 0 /\ dock.rows.w = dock.frame.w
    /\ dock.rows.y \in Nat /\ Below(dock.rows) <= dock.frame.h
    /\ dock = [edge |-> dock.edge, behavior |-> dock.behavior, frame |-> dock.frame,
               rows |-> dock.rows, offset |-> dock.offset]
FrameInv ==
    /\ layout \in Layouts /\ framesLeft \in [FrameEvents -> Nat]
    /\ dock = NoDock \/ Docked
    /\ WindowsFit
\* A strip is set for the bar that keeps windows out, where it is, as long as the bar is out
\* when it is set and no monitor comes or goes around it.
StripInv ==
    /\ framesLeft["blind"] = 0 /\ framesLeft["around"] = 0
    /\ strut = IF dock.behavior = "reserve" THEN StrutFor(RowsAt(dock.frame, dock.rows), dock.edge)
               ELSE NoStrut

LEMMA Screens ==
    ASSUME layout \in Layouts
    PROVE /\ Here \in DOMAIN layout /\ IsRectangle(Area)
          /\ \A m \in DOMAIN layout : /\ IsRectangle(layout[m].frame) /\ IsRectangle(layout[m].area)
                                      /\ Covers(layout[m].frame, layout[m].area)
BY FrameAssumption DEF Area

\* The rows of the bar, where the bar is now.
LEMMA BarIs == ASSUME layout \in Layouts, Docked
               PROVE /\ IsRectangle(Bar) /\ Bar.w = dock.frame.w /\ Bar.x = dock.frame.x
                     /\ Area.x <= Bar.x /\ Right(Bar) <= Right(Area)
<1> DEFINE moved == Moved(dock.frame, dock.edge, dock.offset)
<1>1. /\ dock.frame = [x |-> dock.frame.x, y |-> dock.frame.y, w |-> dock.frame.w, h |-> dock.frame.h]
      /\ dock.frame.x \in Int /\ dock.frame.y \in Int /\ dock.frame.w \in Nat \ {0}
  BY DEF Docked, IsRectangle
<1>2. moved.x = dock.frame.x /\ moved.y \in Int
  BY <1>1 DEF Moved, Docked
<1>3. /\ dock.rows = [x |-> dock.rows.x, y |-> dock.rows.y, w |-> dock.rows.w, h |-> dock.rows.h]
      /\ dock.rows.x = 0 /\ dock.rows.y \in Int /\ dock.rows.h \in Nat \ {0}
      /\ dock.rows.w = dock.frame.w
  BY DEF Docked, IsRectangle
<1>4. Bar = Rectangle(moved.x + dock.rows.x, moved.y + dock.rows.y, dock.rows.w, dock.rows.h)
  BY DEF Bar, RowsAt
<1> HIDE DEF moved
<1>5. moved.x + dock.rows.x = dock.frame.x /\ moved.y + dock.rows.y \in Int
  BY <1>1, <1>2, <1>3
<1>6. IsRectangle(Bar) /\ Bar.x = dock.frame.x /\ Bar.w = dock.frame.w
  BY <1>1, <1>3, <1>4, <1>5 DEF Rectangle, IsRectangle
<1>7. Area.x <= dock.frame.x /\ dock.frame.x + dock.frame.w <= Right(Area)
  BY DEF Docked, Covers, Right
<1> QED
  BY <1>6, <1>7 DEF Right

LEMMA TileIs == ASSUME layout \in Layouts, Docked, NEW tile \in TilesOfBar PROVE IsRectangle(tile)
<1>1. /\ Bar.x \in Int /\ Bar.y \in Int /\ Bar.w \in Nat \ {0} /\ Bar.h \in Nat \ {0}
      /\ Right(Bar) \in Int
  BY BarIs DEF IsRectangle, Right
<1>2. PICK x \in Bar.x .. (Right(Bar) - 1), w \in {1, Bar.w} : tile = Rectangle(x, Bar.y, w, Bar.h)
  BY DEF TilesOfBar, Tiles
<1>3. x \in Int /\ w \in Nat \ {0}
  BY <1>1, <1>2
<1> QED
  BY <1>1, <1>2, <1>3 DEF Rectangle, IsRectangle

\* A window that is placed fits, and nothing else moves while it is there.
LEMMA FlyoutMeasured == ASSUME FrameInv, MeasureFlyout PROVE FrameInv'
<1>1. PICK tile \in TilesOfBar, size \in Contents, inset \in Insets, gap \in Gaps, reserve \in Reserves :
          LET placed == FlyoutFrame(Area, tile, size, dock.edge, inset, gap, reserve)
          IN  Shows([kind |-> "flyout", at |-> placed.frame, pointer |-> placed.pointer, tile |-> tile,
                     inset |-> inset, gap |-> gap, reserve |-> reserve])
  BY DEF MeasureFlyout
<1> DEFINE placed == FlyoutFrame(Area, tile, size, dock.edge, inset, gap, reserve)
           shown == [kind |-> "flyout", at |-> placed.frame, pointer |-> placed.pointer, tile |-> tile,
                      inset |-> inset, gap |-> gap, reserve |-> reserve]
<1>2. dock # NoDock /\ beside' = shown /\ UNCHANGED <<layout, dock, strut, framesLeft>>
  BY <1>1 DEF Shows
<1>3. layout \in Layouts /\ Docked /\ IsRectangle(Area) /\ IsRectangle(tile)
  BY <1>2, Screens, TileIs DEF FrameInv
<1>4. /\ size \in [w : Nat \ {0}, h : Nat \ {0}] /\ inset \in Nat /\ gap \in Nat /\ reserve \in Nat
  BY FrameAssumption
<1>5. LET at == placed.frame
          side == inset + Least(reserve, at.w \div 2)
      IN  /\ Covers(Area, at)
          /\ dock.edge = "top" /\ Below(Area) - Below(tile) >= at.h + gap - reserve
                 => at.y + reserve >= Below(tile) + gap
          /\ dock.edge # "top" /\ tile.y - Area.y >= at.h + gap - reserve
                 => Below(at) - reserve <= tile.y - gap
          /\ Area.x + side <= Center(tile) /\ Center(tile) <= Right(Area) - side
                 => at.x + placed.pointer = Center(tile)
  BY <1>3, <1>4, FlyoutFits
<1> HIDE DEF placed
<1>6. /\ shown.at = placed.frame /\ shown.pointer = placed.pointer /\ shown.tile = tile
      /\ shown.inset = inset /\ shown.gap = gap /\ shown.reserve = reserve /\ shown.kind = "flyout"
  OBVIOUS
<1> HIDE DEF shown
<1>7. Room(shown) => KeepsDistance(shown)
  BY <1>5, <1>6 DEF Room, KeepsDistance
<1>8. Reachable(shown) => shown.at.x + shown.pointer = Center(shown.tile)
  BY <1>5, <1>6 DEF Reachable
<1>9. Area' = Area /\ (Room(beside) => KeepsDistance(beside))'
      /\ (Reachable(beside) => beside.at.x + beside.pointer = Center(beside.tile))'
  BY <1>2, <1>7, <1>8 DEF Area, Room, KeepsDistance, Reachable
<1>10. WindowsFit'
  BY <1>2, <1>5, <1>6, <1>9 DEF WindowsFit
<1> QED
  BY <1>2, <1>9, <1>10 DEF FrameInv, Docked

LEMMA TooltipMeasured == ASSUME FrameInv, MeasureTooltip PROVE FrameInv'
<1>1. PICK tile \in TilesOfBar, size \in Contents, inset \in Insets, gap \in Gaps :
          Shows([kind |-> "tooltip", tile |-> tile, inset |-> inset, gap |-> gap, reserve |-> 0,
                 at |-> TooltipFrame(Area, tile, size, dock.edge, inset, gap)])
  BY DEF MeasureTooltip
<1> DEFINE at == TooltipFrame(Area, tile, size, dock.edge, inset, gap)
           shown == [kind |-> "tooltip", tile |-> tile, inset |-> inset, gap |-> gap, reserve |-> 0,
                      at |-> at]
<1>2. dock # NoDock /\ beside' = shown /\ UNCHANGED <<layout, dock, strut, framesLeft>>
  BY <1>1 DEF Shows
<1>3. layout \in Layouts /\ Docked /\ IsRectangle(Area) /\ IsRectangle(tile)
  BY <1>2, Screens, TileIs DEF FrameInv
<1>4. size \in [w : Nat \ {0}, h : Nat \ {0}] /\ inset \in Nat /\ gap \in Nat
  BY FrameAssumption
<1>5. /\ Covers(Area, at)
      /\ dock.edge = "top" /\ Below(Area) - Below(tile) >= at.h + gap - 0
             => at.y + 0 >= Below(tile) + gap
      /\ dock.edge # "top" /\ tile.y - Area.y >= at.h + gap - 0
             => Below(at) - 0 <= tile.y - gap
  BY <1>3, <1>4, TooltipFits
<1> HIDE DEF at
<1>6. /\ shown.at = at /\ shown.tile = tile /\ shown.gap = gap /\ shown.reserve = 0
      /\ shown.kind = "tooltip"
  OBVIOUS
<1> HIDE DEF shown
<1>7. Room(shown) => KeepsDistance(shown)
  BY <1>5, <1>6 DEF Room, KeepsDistance
<1>8. Area' = Area /\ (Room(beside) => KeepsDistance(beside))'
  BY <1>2, <1>7 DEF Area, Room, KeepsDistance
<1>9. WindowsFit'
  BY <1>2, <1>5, <1>6, <1>8 DEF WindowsFit
<1> QED
  BY <1>2, <1>8, <1>9 DEF FrameInv, Docked

LEMMA MenuMeasured == ASSUME FrameInv, MeasureMenu PROVE FrameInv'
<1>1. PICK x \in Bar.x .. (Right(Bar) - 1), panel \in Contents, inset \in Insets :
          Shows([kind |-> "menu", point |-> [x |-> x, y |-> Bar.y], inset |-> inset,
                 at |-> MenuFrame(Area, [x |-> x, y |-> Bar.y], panel, inset)])
  BY DEF MeasureMenu
<1> DEFINE point == [x |-> x, y |-> Bar.y]
           at == MenuFrame(Area, point, panel, inset)
           shown == [kind |-> "menu", point |-> point, inset |-> inset, at |-> at]
<1>2. dock # NoDock /\ beside' = shown /\ UNCHANGED <<layout, dock, strut, framesLeft>>
  BY <1>1 DEF Shows
<1>3. layout \in Layouts /\ Docked /\ IsRectangle(Area)
  BY <1>2, Screens DEF FrameInv
<1>4. panel \in [w : Nat \ {0}, h : Nat \ {0}] /\ inset \in Nat
  BY FrameAssumption
<1>5. /\ Bar.x \in Int /\ Bar.y \in Int /\ Right(Bar) \in Int
      /\ Area.x \in Int /\ Right(Area) \in Int /\ Area.x <= Bar.x /\ Right(Bar) <= Right(Area)
  BY <1>3, BarIs DEF IsRectangle, Right
<1>6. /\ point.x \in Int /\ point.y \in Int /\ Area.x <= point.x /\ point.x <= Right(Area)
  BY <1>5
<1> HIDE DEF point
<1>7. Covers(Area, at) /\ at.x <= point.x + inset /\ point.x - inset <= Right(at)
  BY <1>3, <1>4, <1>6, MenuFits
<1> HIDE DEF at
<1>8. shown.at = at /\ shown.point = point /\ shown.inset = inset /\ shown.kind = "menu"
  OBVIOUS
<1> HIDE DEF shown
<1>9. Area' = Area
  BY <1>2 DEF Area
<1>10. WindowsFit'
  BY <1>2, <1>7, <1>8, <1>9 DEF WindowsFit
<1> QED
  BY <1>2, <1>9, <1>10 DEF FrameInv, Docked

LEMMA NotesMeasured == ASSUME FrameInv, MeasureNotes PROVE FrameInv'
<1>1. PICK size \in Contents, across \in {"left", "center", "right"}, up \in Side, inset \in Insets,
           gap \in Gaps :
          LET popup == Popups(size, across, up, inset, gap)
              notice == Notice(size, inset, gap)
          IN  Shows([kind |-> "popups", at |-> Union(popup, notice), popup |-> popup, notice |-> notice,
                     gap |-> gap, apart |-> IF up = dock.edge THEN gap ELSE inset])
  BY DEF MeasureNotes
<1> DEFINE popup == Popups(size, across, up, inset, gap)
           notice == Notice(size, inset, gap)
           apart == IF up = dock.edge THEN gap ELSE inset
           shown == [kind |-> "popups", at |-> Union(popup, notice), popup |-> popup, notice |-> notice,
                      gap |-> gap, apart |-> apart]
<1>2. dock # NoDock /\ beside' = shown /\ UNCHANGED <<layout, dock, strut, framesLeft>>
  BY <1>1 DEF Shows
<1>3. layout \in Layouts /\ Docked /\ IsRectangle(Area) /\ IsRectangle(Bar)
  BY <1>2, Screens, BarIs DEF FrameInv
<1>4. size \in [w : Nat \ {0}, h : Nat \ {0}] /\ inset \in Nat /\ gap \in Nat
  BY FrameAssumption
<1>5. dock.edge \in {"top", "bottom"} /\ up \in {"top", "bottom"}
  BY <1>3 DEF Docked, Side
<1>6. IsRectangle(popup) /\ Covers(Area, popup) /\ ClearsBar(popup, apart)
  <2> DEFINE avoided == IF up = dock.edge THEN {Bar} ELSE {}
  <2>1. popup = AnchoredFrame(Area, size, across, up, inset, avoided, gap)
    BY DEF Popups
  <2>2. avoided \in {{}, {Bar}} /\ (up = dock.edge => avoided = {Bar}) /\ (up # dock.edge => avoided = {})
    OBVIOUS
  <2> HIDE DEF avoided, popup
  <2>3. /\ IsRectangle(popup) /\ Covers(Area, popup)
        /\ avoided = {Bar} /\ up = "top" /\ Below(Area) - Below(Bar) >= popup.h + gap
               => ~Overlaps(popup, Bar)
        /\ avoided = {Bar} /\ up # "top" /\ Bar.y - Area.y >= popup.h + gap => ~Overlaps(popup, Bar)
        /\ avoided = {} /\ up # "top" /\ Below(Area) - Below(Bar) >= popup.h + inset
               => ~Overlaps(popup, Bar)
        /\ avoided = {} /\ up = "top" /\ Bar.y - Area.y >= popup.h + inset => ~Overlaps(popup, Bar)
    BY <1>3, <1>4, <2>1, <2>2, AnchoredFits
  <2>4. CASE up = dock.edge
    BY <1>5, <2>2, <2>3, <2>4 DEF ClearsBar
  <2>5. CASE up # dock.edge
    BY <1>5, <2>2, <2>3, <2>5 DEF ClearsBar
  <2> QED
    BY <2>3, <2>4, <2>5
<1>7. IsRectangle(notice) /\ Covers(Area, notice) /\ ClearsBar(notice, gap)
  <2>1. notice = AnchoredFrame(Area, size, "center", dock.edge, inset, {Bar}, gap)
    BY DEF Notice
  <2> HIDE DEF notice
  <2>2. /\ IsRectangle(notice) /\ Covers(Area, notice)
        /\ dock.edge = "top" /\ Below(Area) - Below(Bar) >= notice.h + gap => ~Overlaps(notice, Bar)
        /\ dock.edge # "top" /\ Bar.y - Area.y >= notice.h + gap => ~Overlaps(notice, Bar)
    BY <1>3, <1>4, <2>1, AnchoredFits
  <2> QED
    BY <2>2 DEF ClearsBar
<1> HIDE DEF popup, notice, apart
<1>8. Covers(Area, Union(popup, notice))
  BY <1>3, <1>6, <1>7, UnionFits
<1>9. /\ shown.at = Union(popup, notice) /\ shown.popup = popup /\ shown.notice = notice
      /\ shown.gap = gap /\ shown.apart = apart /\ shown.kind = "popups"
  OBVIOUS
<1> HIDE DEF shown
<1>10. /\ Area' = Area /\ (ClearsBar(beside.popup, beside.apart))'
       /\ (ClearsBar(beside.notice, beside.gap))'
  BY <1>2, <1>6, <1>7, <1>9 DEF Area, Bar, ClearsBar
<1>11. WindowsFit'
  BY <1>2, <1>6, <1>7, <1>8, <1>9, <1>10 DEF WindowsFit
<1> QED
  BY <1>2, <1>10, <1>11 DEF FrameInv, Docked

\* bar_surface_frame: in the area, in the middle of its edge.
LEMMA BarFrameFits ==
    ASSUME NEW area, IsRectangle(area), NEW size \in [w : Nat \ {0}, h : Nat \ {0}], NEW edge
    PROVE IsRectangle(BarFrame(area, size, edge)) /\ Covers(area, BarFrame(area, size, edge))
<1> DEFINE at == BarFrame(area, size, edge)
           w == Clamp(size.w, 1, area.w)
           h == Clamp(size.h, 1, area.h)
           x == area.x + (area.w - w) \div 2
           y == IF edge = "top" THEN area.y ELSE area.y + area.h - h
<1>1. /\ area.x \in Int /\ area.y \in Int /\ area.w \in Nat \ {0} /\ area.h \in Nat \ {0}
      /\ Right(area) = area.x + area.w /\ Below(area) = area.y + area.h
  BY DEF IsRectangle, Right, Below
<1>2. w \in Nat \ {0} /\ w <= area.w /\ h \in Nat \ {0} /\ h <= area.h
  <2>0. size.w \in Int /\ size.h \in Int /\ 1 \in Int /\ area.w \in Int /\ area.h \in Int
        /\ 1 <= area.w /\ 1 <= area.h
    BY <1>1
  <2>1. w \in Int /\ 1 <= w /\ w <= area.w
    BY <2>0, ClampIs
  <2>2. h \in Int /\ 1 <= h /\ h <= area.h
    BY <2>0, ClampIs
  <2> HIDE DEF w, h
  <2> QED
    BY <2>1, <2>2
<1>3. at = Rectangle(x, y, w, h)
  BY DEF BarFrame
<1> HIDE DEF w, h
<1>4. x \in Int /\ area.x <= x /\ x + w <= Right(area)
  <2> DEFINE half == (area.w - w) \div 2
  <2>1. half \in Nat /\ half <= area.w - w
    BY <1>1, <1>2, Halved
  <2>2. x = area.x + half
    OBVIOUS
  <2> HIDE DEF half, x
  <2> QED
    BY <1>1, <1>2, <2>1, <2>2
<1>5. y \in Int /\ area.y <= y /\ y + h <= Below(area)
  BY <1>1, <1>2
<1> HIDE DEF x, y, at
<1>6. at.x = x /\ at.y = y /\ at.w = w /\ at.h = h /\ IsRectangle(at)
  BY <1>2, <1>3, <1>4, <1>5 DEF Rectangle, IsRectangle
<1>7. Covers(area, at)
  BY <1>1, <1>2, <1>4, <1>5, <1>6 DEF Covers, Right, Below
<1> QED
  BY <1>6, <1>7 DEF at

\* What moves the bar leaves no window beside it.
LEMMA BudgetSpent ==
    ASSUME FrameInv, NEW event \in FrameEvents, SpendFrame(event)
    PROVE /\ framesLeft' \in [FrameEvents -> Nat] /\ framesLeft[event] > 0
          /\ \A other \in FrameEvents \ {event} : framesLeft'[other] = framesLeft[other]
BY DEF FrameInv, SpendFrame

\* The strip depends on the monitors and on where the rows are.
LEMMA StrutOf ==
    ASSUME NEW frame, NEW rows, NEW edge, UNCHANGED layout,
           dock'.frame = frame, dock'.rows = rows, dock'.edge = edge
    PROVE StrutFor(RowsAt(dock.frame, dock.rows), dock.edge)' = StrutFor(RowsAt(frame, rows), edge)
<1>1. RowsAt(dock.frame, dock.rows)' = RowsAt(frame, rows)
  BY DEF RowsAt
<1>2. RootHeight' = RootHeight
  BY DEF RootHeight
<1> DEFINE at == RowsAt(frame, rows)
<1>3. (HitsForeign(Strip(RowsAt(dock.frame, dock.rows), dock.edge)))' <=> HitsForeign(Strip(at, edge))
  BY <1>1, <1>2 DEF HitsForeign, Strip
<1> QED
  BY <1>1, <1>2, <1>3 DEF StrutFor

LEMMA DockKeeps == ASSUME FrameInv, DockBar PROVE FrameInv' /\ (StripInv => StripInv')
<1>1. PICK edge \in Side, size \in BarSizes, behavior \in {"reserve", "autohide"} :
        LET frame == BarFrame(Area, size, edge)
            rows  == Rectangle(0, IF edge = "top" THEN 0 ELSE frame.h - Greatest(1, frame.h - 1),
                               frame.w, Greatest(1, frame.h - 1))
        IN  /\ dock' = [edge |-> edge, behavior |-> behavior, frame |-> frame, rows |-> rows,
                        offset |-> 0]
            /\ strut' = IF behavior = "reserve" THEN StrutFor(RowsAt(frame, rows), edge) ELSE NoStrut
  BY DEF DockBar
<1> DEFINE frame == BarFrame(Area, size, edge)
           high == Greatest(1, frame.h - 1)
           below == IF edge = "top" THEN 0 ELSE frame.h - high
           rows == Rectangle(0, below, frame.w, high)
<1>2. /\ dock' = [edge |-> edge, behavior |-> behavior, frame |-> frame, rows |-> rows, offset |-> 0]
      /\ strut' = IF behavior = "reserve" THEN StrutFor(RowsAt(frame, rows), edge) ELSE NoStrut
      /\ beside = NoWindow /\ UNCHANGED <<layout, beside>> /\ SpendFrame("dock")
  BY <1>1 DEF DockBar
<1>3. layout \in Layouts /\ IsRectangle(Area) /\ size \in [w : Nat \ {0}, h : Nat \ {0}]
  BY Screens, FrameAssumption DEF FrameInv
<1>4. IsRectangle(frame) /\ Covers(Area, frame)
  BY <1>3, BarFrameFits
<1> HIDE DEF frame
<1>5. frame.h \in Nat \ {0} /\ frame.w \in Nat \ {0}
  BY <1>4 DEF IsRectangle
<1>6. high \in Nat \ {0} /\ high <= frame.h
  BY <1>5 DEF Greatest
<1> HIDE DEF high
<1>7. below \in Nat /\ below + high <= frame.h
  BY <1>5, <1>6
<1> HIDE DEF below
<1>8. /\ IsRectangle(rows) /\ rows.x = 0 /\ rows.w = frame.w /\ rows.y = below /\ rows.h = high
  <2>1. 0 \in Int /\ below \in Int
    BY <1>7
  <2> QED
    BY <1>5, <1>6, <2>1 DEF Rectangle, IsRectangle
<1> HIDE DEF rows
<1>9. Area' = Area
  BY <1>2 DEF Area
<1>10. Docked'
  BY <1>2, <1>4, <1>7, <1>8, <1>9 DEF Docked, Below
<1>11. /\ framesLeft' \in [FrameEvents -> Nat]
       /\ framesLeft'["blind"] = framesLeft["blind"] /\ framesLeft'["around"] = framesLeft["around"]
  BY <1>2, BudgetSpent DEF FrameEvents
<1>12. ASSUME StripInv PROVE StripInv'
  <2>1. /\ dock'.behavior = behavior /\ dock'.frame = frame /\ dock'.rows = rows /\ dock'.edge = edge
    BY <1>2
  <2>2. StrutFor(RowsAt(dock.frame, dock.rows), dock.edge)' = StrutFor(RowsAt(frame, rows), edge)
    BY <1>2, <2>1, StrutOf
  <2> QED
    BY <1>2, <1>11, <1>12, <2>1, <2>2 DEF StripInv
<1>13. WindowsFit'
  BY <1>2 DEF WindowsFit
<1> QED
  BY <1>2, <1>3, <1>10, <1>11, <1>12, <1>13 DEF FrameInv

LEMMA RetractKeeps == ASSUME FrameInv, RetractBar PROVE FrameInv' /\ (StripInv => StripInv')
<1>1. PICK visible \in Visible :
          dock' = [dock EXCEPT !.offset = HiddenOffset(dock.frame, layout[Here].frame, dock.edge, visible)]
  BY DEF RetractBar
<1>2. /\ dock.behavior = "autohide" /\ beside = NoWindow /\ UNCHANGED <<layout, strut, beside>>
      /\ SpendFrame("retract")
  BY DEF RetractBar
<1>3. Docked
  BY <1>2 DEF FrameInv, NoDock
<1> DEFINE offset == HiddenOffset(dock.frame, layout[Here].frame, dock.edge, visible)
<1>4. offset \in Nat
  <2>1. /\ layout[Here].frame.y \in Int /\ Below(layout[Here].frame) \in Int
        /\ dock.frame.y \in Int /\ Below(dock.frame) \in Int /\ visible \in Nat
    <3>1. IsRectangle(layout[Here].frame) /\ IsRectangle(dock.frame)
      BY <1>3, Screens DEF FrameInv, Docked
    <3>2. visible \in Nat
      BY FrameAssumption
    <3> QED
      BY <3>1, <3>2 DEF IsRectangle, Below
  <2>2. Greatest(1, visible) \in Int
    BY <2>1, GreatestIs
  <2> QED
    BY <2>1, <2>2 DEF HiddenOffset, Greatest
<1> HIDE DEF offset
<1>5. /\ dock'.edge = dock.edge /\ dock'.behavior = dock.behavior /\ dock'.frame = dock.frame
      /\ dock'.rows = dock.rows /\ dock'.offset = offset
      /\ dock' = [edge |-> dock.edge, behavior |-> dock.behavior, frame |-> dock.frame,
                  rows |-> dock.rows, offset |-> offset]
  BY <1>1, <1>3 DEF Docked, offset
<1>6. Docked'
  BY <1>2, <1>3, <1>4, <1>5 DEF Docked, Area
<1>7. /\ framesLeft' \in [FrameEvents -> Nat]
      /\ framesLeft'["blind"] = framesLeft["blind"] /\ framesLeft'["around"] = framesLeft["around"]
  BY <1>2, BudgetSpent DEF FrameEvents
<1> QED
  BY <1>2, <1>5, <1>6, <1>7 DEF FrameInv, StripInv, WindowsFit

LEMMA TurnKeeps == ASSUME FrameInv, TurnReserve PROVE FrameInv' /\ (StripInv => StripInv')
<1>1. /\ dock.behavior = "autohide" /\ beside = NoWindow /\ UNCHANGED <<layout, beside>>
      /\ SpendFrame(IF dock.offset > 0 THEN "blind" ELSE "turn")
      /\ strut' = StrutFor(RowsAt(Moved(dock.frame, dock.edge, dock.offset), dock.rows), dock.edge)
      /\ dock' = [dock EXCEPT !.behavior = "reserve", !.offset = 0]
  BY DEF TurnReserve
<1>2. Docked
  BY <1>1 DEF FrameInv, NoDock
<1>3. dock' = [edge |-> dock.edge, behavior |-> "reserve", frame |-> dock.frame, rows |-> dock.rows,
               offset |-> 0]
  <2> DEFINE e == dock.edge
             b == dock.behavior
             f == dock.frame
             r == dock.rows
             o == dock.offset
  <2>1. dock = [edge |-> e, behavior |-> b, frame |-> f, rows |-> r, offset |-> o]
    BY <1>2 DEF Docked
  <2> HIDE DEF e, b, f, r, o
  <2>2. dock' = [edge |-> e, behavior |-> "reserve", frame |-> f, rows |-> r, offset |-> 0]
    BY <1>1, <2>1
  <2> QED
    BY <2>2 DEF e, f, r
<1>4. /\ dock'.edge = dock.edge /\ dock'.behavior = "reserve" /\ dock'.frame = dock.frame
      /\ dock'.rows = dock.rows /\ dock'.offset = 0
  BY <1>3
<1>5. Docked'
  <2>1. Area' = Area /\ 0 \in Nat
    BY <1>1 DEF Area
  <2> QED
    BY <1>2, <1>3, <1>4, <2>1 DEF Docked
<1>6. ASSUME NEW event \in {"blind", "turn"}, SpendFrame(event)
      PROVE /\ framesLeft' \in [FrameEvents -> Nat] /\ framesLeft[event] > 0
            /\ framesLeft["blind"] = 0 => framesLeft'["blind"] = 0
            /\ framesLeft'["around"] = framesLeft["around"]
  BY <1>6, BudgetSpent DEF FrameEvents
<1>7. ASSUME StripInv PROVE StripInv'
  <2>1. framesLeft["blind"] = 0 /\ framesLeft["around"] = 0
    BY <1>7 DEF StripInv
  <2>2. ~SpendFrame("blind")
    BY <1>6, <2>1
  <2>3. dock.offset = 0 /\ SpendFrame("turn")
    BY <1>1, <1>2, <2>2 DEF Docked
  <2>4. framesLeft'["blind"] = 0 /\ framesLeft'["around"] = 0
    BY <1>6, <2>1, <2>3
  <2>5. Moved(dock.frame, dock.edge, dock.offset) = dock.frame
    BY <1>2, <2>3 DEF Moved, Docked, IsRectangle
  <2>6. StrutFor(RowsAt(dock.frame, dock.rows), dock.edge)' = StrutFor(RowsAt(dock.frame, dock.rows), dock.edge)
    BY <1>1, <1>4, StrutOf
  <2> QED
    BY <1>1, <1>4, <2>4, <2>5, <2>6 DEF StripInv
<1> QED
  BY <1>1, <1>5, <1>6, <1>7 DEF FrameInv, WindowsFit

LEMMA ReplugKeeps == ASSUME FrameInv, Replug PROVE FrameInv' /\ (StripInv => StripInv')
<1>1. /\ SpendFrame(IF dock.behavior = "reserve" THEN "around" ELSE "replug") /\ beside = NoWindow
      /\ layout' \in Layouts /\ layout'[Here] = layout[Here] /\ UNCHANGED <<dock, strut, beside>>
  BY DEF Replug
<1>2. Docked => Docked'
  BY <1>1 DEF Docked, Area
<1>3. ASSUME NEW event \in {"around", "replug"}, SpendFrame(event)
      PROVE /\ framesLeft' \in [FrameEvents -> Nat] /\ framesLeft[event] > 0
            /\ framesLeft["around"] = 0 => framesLeft'["around"] = 0
            /\ framesLeft'["blind"] = framesLeft["blind"]
  BY <1>3, BudgetSpent DEF FrameEvents
<1>4. ASSUME StripInv PROVE StripInv'
  <2>1. framesLeft["blind"] = 0 /\ framesLeft["around"] = 0
    BY <1>4 DEF StripInv
  <2>2. ~SpendFrame("around")
    BY <1>3, <2>1
  <2>3. dock.behavior # "reserve" /\ SpendFrame("replug")
    BY <1>1, <2>2
  <2>4. framesLeft'["blind"] = 0 /\ framesLeft'["around"] = 0
    BY <1>3, <2>1, <2>3
  <2> QED
    BY <1>1, <1>4, <2>3, <2>4 DEF StripInv
<1> QED
  BY <1>1, <1>2, <1>3, <1>4 DEF FrameInv, WindowsFit

LEMMA FrameStep ==
    ASSUME FrameInv, [FrameNext]_frameVars PROVE FrameInv' /\ (StripInv => StripInv')
<1>1. CASE DockBar
  BY <1>1, DockKeeps
<1>2. CASE RetractBar
  BY <1>2, RetractKeeps
<1>3. CASE TurnReserve
  BY <1>3, TurnKeeps
<1>4. CASE Replug
  BY <1>4, ReplugKeeps
<1>5. ASSUME UNCHANGED <<layout, dock, strut, framesLeft>> PROVE StripInv => StripInv'
  BY <1>5 DEF StripInv, StrutFor, RowsAt, HitsForeign, Strip, RootHeight
<1>6. CASE MeasureFlyout
  <2>1. UNCHANGED <<layout, dock, strut, framesLeft>>
    BY <1>6 DEF MeasureFlyout, Shows
  <2> QED
    BY <1>5, <1>6, <2>1, FlyoutMeasured
<1>7. CASE MeasureTooltip
  <2>1. UNCHANGED <<layout, dock, strut, framesLeft>>
    BY <1>7 DEF MeasureTooltip, Shows
  <2> QED
    BY <1>5, <1>7, <2>1, TooltipMeasured
<1>8. CASE MeasureMenu
  <2>1. UNCHANGED <<layout, dock, strut, framesLeft>>
    BY <1>8 DEF MeasureMenu, Shows
  <2> QED
    BY <1>5, <1>8, <2>1, MenuMeasured
<1>9. CASE MeasureNotes
  <2>1. UNCHANGED <<layout, dock, strut, framesLeft>>
    BY <1>9 DEF MeasureNotes, Shows
  <2> QED
    BY <1>5, <1>9, <2>1, NotesMeasured
<1>10. CASE Gone
  <2>1. beside' = NoWindow /\ UNCHANGED <<layout, dock, strut, framesLeft>>
    BY <1>10 DEF Gone
  <2>2. WindowsFit'
    BY <2>1 DEF WindowsFit
  <2>3. Docked => Docked'
    BY <2>1 DEF Docked, Area
  <2> QED
    BY <1>5, <2>1, <2>2, <2>3 DEF FrameInv
<1>11. CASE UNCHANGED frameVars
  <2>1. UNCHANGED <<layout, dock, strut, framesLeft, beside>>
    BY <1>11 DEF frameVars
  <2>2. FrameInv'
    BY <2>1 DEF FrameInv, Docked, Area, WindowsFit, Room, KeepsDistance, Reachable, ClearsBar, Bar
  <2> QED
    BY <1>5, <2>1, <2>2
<1> QED
  BY <1>1, <1>2, <1>3, <1>4, <1>6, <1>7, <1>8, <1>9, <1>10, <1>11 DEF FrameNext

LEMMA FrameStarts == FrameInit => FrameInv
<1> SUFFICES ASSUME FrameInit PROVE FrameInv
  OBVIOUS
<1>1. framesLeft \in [FrameEvents -> Nat]
  BY FrameAssumption DEF FrameInit
<1> QED
  BY <1>1 DEF FrameInit, FrameInv, WindowsFit

\* surfaces.rs: a flyout, a tooltip, a menu and the popups are wholly on the bar's monitor, keep their
\* distance to what they belong to where there is room, and a flyout's arrow points at the middle
\* of its tile, for any monitors, sizes and distances.
THEOREM WindowsAlwaysFit == FrameSpec => []WindowsFit
<1>1. FrameInv /\ [FrameNext]_frameVars => FrameInv'
  BY FrameStep
<1>2. FrameInv => WindowsFit
  BY DEF FrameInv
<1> QED
  BY FrameStarts, <1>1, <1>2, PTL DEF FrameSpec

--------------------------------------------------------------------------------
\* X11's coordinates begin at the corner of all monitors.
FromTheCorner ==
    \A l \in Layouts : \A m \in DOMAIN l : l[m].frame.x \in Nat /\ l[m].frame.y \in Nat
\* The bar is out when its behavior becomes reserve, and no monitor comes or goes around a bar
\* that keeps windows out.
OutAndAlone == \A b \in FrameBudgets : b["blind"] = 0 /\ b["around"] = 0

\* Some monitor reaches down the farthest.
LEMMA RootIs ==
    ASSUME layout \in Layouts
    PROVE /\ RootHeight \in Int /\ \A m \in DOMAIN layout : Below(layout[m].frame) <= RootHeight
<1> DEFINE far == {Below(layout[m].frame) : m \in DOMAIN layout}
<1>1. PICK m \in DOMAIN layout : \A n \in DOMAIN layout : Below(layout[n].frame) <= Below(layout[m].frame)
  BY FrameAssumption
<1>2. \E y \in far : \A z \in far : z <= y
  BY <1>1
<1>3. RootHeight = CHOOSE y \in far : \A z \in far : z <= y
  BY DEF RootHeight
<1>4. RootHeight \in far /\ \A z \in far : z <= RootHeight
  <2> HIDE DEF far
  <2> QED
    BY <1>2, <1>3
<1>5. ASSUME NEW n \in DOMAIN layout PROVE Below(layout[n].frame) \in Int
  <2>1. IsRectangle(layout[n].frame)
    BY Screens
  <2> QED
    BY <2>1 DEF IsRectangle, Below
<1> QED
  BY <1>4, <1>5

LEMMA RowsAre ==
    ASSUME FromTheCorner, layout \in Layouts, Docked
    PROVE LET rows == RowsAt(dock.frame, dock.rows)
          IN  /\ IsRectangle(rows) /\ rows.x \in Nat /\ rows.y \in Nat
              /\ Below(rows) <= RootHeight /\ RootHeight \in Int
<1> DEFINE rows == RowsAt(dock.frame, dock.rows)
           screen == layout[Here].frame
<1>1. /\ dock.frame.x \in Int /\ dock.frame.y \in Int /\ dock.frame.w \in Nat \ {0}
      /\ Below(dock.frame) = dock.frame.y + dock.frame.h
      /\ dock.rows.x = 0 /\ dock.rows.y \in Nat /\ dock.rows.w = dock.frame.w
      /\ dock.rows.h \in Nat \ {0} /\ dock.rows.y + dock.rows.h <= dock.frame.h
      /\ dock.frame.h \in Nat \ {0}
  BY DEF Docked, IsRectangle, Below
<1>2. rows = Rectangle(dock.frame.x + dock.rows.x, dock.frame.y + dock.rows.y, dock.rows.w, dock.rows.h)
  BY DEF RowsAt
<1> HIDE DEF rows
<1>3. /\ IsRectangle(rows) /\ rows.x = dock.frame.x + dock.rows.x
      /\ rows.y = dock.frame.y + dock.rows.y /\ rows.h = dock.rows.h
  <2> DEFINE x == dock.frame.x + dock.rows.x
             y == dock.frame.y + dock.rows.y
             w == dock.rows.w
             h == dock.rows.h
  <2>1. x \in Int /\ y \in Int /\ w \in Nat \ {0} /\ h \in Nat \ {0}
    BY <1>1
  <2>2. rows = Rectangle(x, y, w, h)
    BY <1>2
  <2> HIDE DEF x, y, w, h
  <2>3. IsRectangle(rows) /\ rows.x = x /\ rows.y = y /\ rows.h = h
    BY <2>1, <2>2 DEF Rectangle, IsRectangle
  <2> QED
    BY <2>3 DEF x, y, h
<1>4. /\ screen.x <= Area.x /\ screen.y <= Area.y /\ Below(Area) <= Below(screen)
      /\ screen.x \in Nat /\ screen.y \in Nat /\ Below(screen) \in Int
      /\ Area.x \in Int /\ Area.y \in Int /\ Below(Area) \in Int
  <2>1. Covers(screen, Area) /\ IsRectangle(screen) /\ IsRectangle(Area) /\ Here \in DOMAIN layout
    BY Screens DEF Area
  <2>2. screen.x \in Nat /\ screen.y \in Nat
    BY <2>1 DEF FromTheCorner
  <2> QED
    BY <2>1, <2>2 DEF Covers, IsRectangle, Below
<1>5. Area.x <= dock.frame.x /\ Area.y <= dock.frame.y /\ Below(dock.frame) <= Below(Area)
  BY DEF Docked, Covers
<1>6. Below(screen) <= RootHeight /\ RootHeight \in Int
  BY RootIs, Screens
<1> HIDE DEF screen
<1>7. rows.x \in Nat /\ rows.y \in Nat /\ Below(rows) <= RootHeight
  BY <1>1, <1>3, <1>4, <1>5, <1>6 DEF Below
<1> QED
  BY <1>3, <1>6, <1>7 DEF rows

\* What the window manager keeps free is the strip that was compared with the other monitors.
LEMMA StripHolds ==
    ASSUME FromTheCorner, FrameInv, StripInv PROVE StripIsTheBars
<1> DEFINE rows == RowsAt(dock.frame, dock.rows)
           strip == Strip(rows, dock.edge)
<1>0. layout \in Layouts
  BY DEF FrameInv
<1>1. CASE strut = NoStrut
  <2>1. Kept(strut) = Rectangle(0, 0, 0, 0)
    BY <1>1 DEF Kept, NoStrut
  <2>2. ASSUME NEW m \in DOMAIN layout PROVE ~Overlaps(Kept(strut), layout[m].frame)
    <3>1. layout[m].frame.x \in Nat
      BY <1>0 DEF FromTheCorner
    <3>2. Right(Kept(strut)) = 0
      BY <2>1 DEF Right, Rectangle
    <3> QED
      BY <3>1, <3>2 DEF Overlaps
  <2>3. ASSUME dock.behavior = "reserve" PROVE HitsForeign(strip)
    <3>1. dock.edge \in Side /\ strut = StrutFor(rows, dock.edge)
      BY <2>3 DEF StripInv, FrameInv, NoDock, Docked
    <3>2. strut.edge = "none"
      BY <1>1 DEF NoStrut
    <3> HIDE DEF rows
    <3> QED
      BY <3>1, <3>2 DEF StrutFor, Side
  <2> QED
    BY <1>1, <2>2, <2>3 DEF StripIsTheBars
<1>2. CASE strut # NoStrut
  <2>1. dock.behavior = "reserve" /\ strut = StrutFor(rows, dock.edge) /\ ~HitsForeign(strip) /\ Docked
    BY <1>2 DEF StripInv, FrameInv, StrutFor, NoDock
  <2>2. dock.edge \in {"top", "bottom"}
    BY <2>1 DEF Docked, Side
  <2>3. /\ IsRectangle(rows) /\ rows.x \in Nat /\ rows.y \in Nat
        /\ Below(rows) <= RootHeight /\ RootHeight \in Int
    BY <1>0, <2>1, RowsAre
  <2> HIDE DEF rows
  <2>4. /\ rows.w \in Nat \ {0} /\ rows.h \in Nat \ {0} /\ Below(rows) = rows.y + rows.h
        /\ Right(rows) = rows.x + rows.w
    BY <2>3 DEF IsRectangle, Below, Right
  <2>5. strut = [edge |-> dock.edge, from |-> rows.x, to |-> Right(rows) - 1,
                 thick |-> IF dock.edge = "top" THEN Below(rows) ELSE RootHeight - rows.y]
    BY <2>1, <2>3, <2>4 DEF StrutFor, Greatest
  <2>6. /\ strut.edge = dock.edge /\ strut.from = rows.x /\ strut.to = Right(rows) - 1
        /\ strut.thick = IF dock.edge = "top" THEN Below(rows) ELSE RootHeight - rows.y
    BY <2>5
  <2>7. strut.to - strut.from + 1 = rows.w /\ RootHeight - (RootHeight - rows.y) = rows.y
    BY <2>3, <2>4, <2>6
  <2>8. Kept(strut) = strip
    BY <2>2, <2>6, <2>7 DEF Kept, Strip
  <2>9. Covers(strip, rows)
    BY <2>2, <2>3, <2>4 DEF Covers, Strip, Right, Below, Rectangle
  <2> QED
    BY <1>2, <2>1, <2>8, <2>9 DEF StripIsTheBars, HitsForeign, rows
<1> QED
  BY <1>1, <1>2

\* strut.rs, "refuse instead of wrecking the neighbour monitor's layout": the strip holds the
\* rows of the bar and nothing of another monitor, for any monitors and bars, as long as the bar is
\* out when it is set and no monitor comes or goes around it.
THEOREM StripsAreTheBars == ASSUME FromTheCorner, OutAndAlone PROVE FrameSpec => []StripIsTheBars
<1>1. FrameInit => FrameInv /\ StripInv
  <2>1. FrameInit => framesLeft["blind"] = 0 /\ framesLeft["around"] = 0
    BY DEF FrameInit, OutAndAlone
  <2> QED
    BY <2>1, FrameStarts DEF FrameInit, StripInv, NoDock
<1>2. FrameInv /\ StripInv /\ [FrameNext]_frameVars => FrameInv' /\ StripInv'
  BY FrameStep
<1>3. FrameInv /\ StripInv => StripIsTheBars
  BY StripHolds
<1> QED
  BY <1>1, <1>2, <1>3, PTL DEF FrameSpec

--------------------------------------------------------------------------------
(****************************************************************************)
(* BarSurface.  What the page is told, asks and reports keeps up with the    *)
(* config: the newest report and the newest question are on their way, or    *)
(* have set the space and the offset, for any changes, monitors,             *)
(* generations and failures.                                                 *)
(****************************************************************************)

\* What the page is told, asks and reports keeps up with the config.

\* The shapes of the state.
BarConfigs == [position : Edge, behavior : Behavior, monitor : Monitor \cup {NoMonitor}]
BarChanges == [old : BarConfigs, new : BarConfigs]
BarLayouts == [position : Edge, behavior : Behavior]
BarReports == [edge : Edge, behavior : Behavior, size : {1, 2}]
Handled    == {<<c>> : c \in BarChanges}
IsBarOp(op) ==
    \/ /\ op.step = "reconcile" /\ op.after = <<>>
       /\ op = [step |-> op.step, displays |-> op.displays, after |-> op.after]
    \/ /\ op.step \in {"relocate", "move"} /\ op.after \in Handled \cup {<<>>}
       /\ op = [step |-> op.step, displays |-> op.displays, after |-> op.after,
                effective |-> op.effective]
    \/ /\ op.step \in {"prepare", "edge", "layout"} /\ op.after \in Handled
       /\ op = [step |-> op.step, displays |-> op.displays, after |-> op.after]
    \/ /\ op.step \in {"place", "claim", "show"} /\ op.after = <<>>
       /\ op.gen \in Nat /\ op.config \in BarConfigs /\ op.size \in {1, 2}
       /\ op = [step |-> op.step, after |-> op.after, gen |-> op.gen, config |-> op.config,
                size |-> op.size]
    \/ /\ op.step = "settle" /\ op.after = <<>> /\ op.gen \in Nat
       /\ op = [step |-> op.step, after |-> op.after, gen |-> op.gen, space |-> op.space]
    \/ /\ op.step = "glide" /\ op.after = <<>> /\ op.gen \in Nat
       /\ op = [step |-> op.step, after |-> op.after, gen |-> op.gen, target |-> op.target]
PageTypes ==
    /\ barPage = [position |-> barPage.position, behavior |-> barPage.behavior,
                  size |-> barPage.size, reported |-> barPage.reported, inbox |-> barPage.inbox,
                  sent |-> barPage.sent, held |-> barPage.held, asked |-> barPage.asked,
                  asks |-> barPage.asks]
    /\ barPage.position \in Edge /\ barPage.behavior \in Behavior /\ barPage.size \in {1, 2}
    /\ barPage.inbox \in Seq(BarLayouts \cup {Context}) /\ barPage.sent \in Seq(BarReports)
    /\ barPage.held \in BOOLEAN /\ barPage.asked \in BOOLEAN /\ barPage.asks \in Seq(BOOLEAN)
LifeTypes ==
    /\ bar = [relocation |-> bar.relocation, frameGen |-> bar.frameGen, geometry |-> bar.geometry,
              frame |-> bar.frame, motion |-> bar.motion, offset |-> bar.offset,
              revealed |-> bar.revealed, reservation |-> bar.reservation, blind |-> bar.blind,
              overruled |-> bar.overruled, displays |-> bar.displays, monitor |-> bar.monitor]
    /\ bar.frameGen \in Nat /\ bar.motion \in Nat /\ bar.reservation \in Nat
    /\ bar.revealed \in BOOLEAN /\ bar.blind \in BOOLEAN /\ bar.overruled \in BOOLEAN
BarTypes ==
    /\ barConfig \in BarConfigs /\ changes \in Seq(BarChanges)
    /\ LifeTypes /\ PageTypes
    /\ barWindow = [opaque |-> barWindow.opaque, at |-> barWindow.at, offset |-> barWindow.offset,
                    space |-> barWindow.space]
    /\ \A op \in barOps : IsBarOp(op)

\* The changes follow one another; the loop has one in hand at most.
LayoutOf(c) == [position |-> c.position, behavior |-> c.behavior]
InHand(op)  == op \in barOps /\ op.after # <<>>
FirstConfig == IF changes = <<>> THEN barConfig ELSE changes[1].old
Chain ==
    /\ \A i \in 1..(Len(changes) - 1) : changes[i].new = changes[i + 1].old
    /\ changes # <<>> => changes[Len(changes)].new = barConfig
    /\ \A op \in barOps : InHand(op) => op.after[1].new = FirstConfig
    /\ \A op, other \in barOps : InHand(op) /\ InHand(other) => op = other
    /\ \A op \in barOps : op.step \in {"prepare", "edge"} =>
           op.after[1].old.position # op.after[1].new.position
    /\ \A i \in 1..Len(changes) :
           \/ changes[i].new.position = barConfig.position
           \/ \E j \in 1..Len(changes) : j > i /\ changes[j].old.position # changes[j].new.position
\* What the page was told last is what the loop has handled.
Shown == LayoutOf(barPage)
ToldLast(l) ==
    \/ l = Shown /\ \A i \in 1..Len(barPage.inbox) : barPage.inbox[i] = Context
    \/ /\ l # Context
       /\ \E k \in 1..Len(barPage.inbox) :
              /\ barPage.inbox[k] = l
              /\ \A j \in 1..Len(barPage.inbox) : j > k => barPage.inbox[j] = Context
IsTold ==
    /\ (\A op \in barOps : op.after = <<>>) => ToldLast(LayoutOf(FirstConfig))
    /\ \A op \in barOps : InHand(op) => ToldLast(LayoutOf(op.after[1].old))

\* What the page will still be told; then it reports, and may ask.
Comes(l) ==
    \/ \E i \in 1..Len(barPage.inbox) : l = barPage.inbox[i]
    \/ \E op \in barOps : InHand(op) /\ l = LayoutOf(op.after[1].new)
    \/ \E i \in 1..Len(changes) : l = LayoutOf(changes[i].new)
News ==
    \/ barPage.sent # <<>> \/ \E op \in barOps : op.step = "move"
    \/ \E l \in BarLayouts \cup {Context} : Comes(l) /\ l # Shown
AskComes ==
    \/ barPage.asks # <<>>
    \/ ~barPage.asked /\ \E l \in BarLayouts : Comes(l) /\ l.behavior # "autohide"

\* What was sent last is what the page measures; what was asked last is what it wants.
Measurement == [edge |-> barPage.position, behavior |-> barPage.behavior, size |-> barPage.size]
Reports ==
    /\ \/ \E i \in 1..Len(barPage.inbox) : barPage.inbox[i] = Context
       \/ barPage.reported = Measurement
    /\ barPage.sent # <<>> => barPage.sent[Len(barPage.sent)] = barPage.reported
    /\ barPage.asked = Wants(barPage)
    /\ barPage.asks # <<>> => barPage.asks[Len(barPage.asks)] = barPage.asked

\* Generations: reports place the bar in the order they came.
Places(op) == op.step \in {"place", "claim", "show"}
Aim == IF bar.revealed THEN "shown" ELSE "hidden"
Generations ==
    /\ \A op \in barOps : Places(op) => op.gen <= bar.frameGen
    /\ \A op, other \in barOps :
           op.step = "place" /\ other.step = "place" /\ op.gen = other.gen => op = other
    /\ \A op, other \in barOps : op.step = "claim" /\ other.step = "place" => op.gen < other.gen
    /\ \A op \in barOps : op.step = "place" => bar.relocation # NoEdge
    /\ \A op \in barOps : op.step = "settle" => op.gen <= bar.reservation
    /\ \A op, other \in barOps :
           op.step = "settle" /\ other.step = "settle" /\ op.gen = other.gen => op = other
    /\ \A op \in barOps : op.step = "glide" =>
           op.gen <= bar.motion /\ (op.gen = bar.motion => op.target = Aim)
\* A relocation is to the edge of the config, unless a change of the edge is still to come.
Unprepared ==
    \/ \E i \in 1..Len(changes) : changes[i].old.position # changes[i].new.position
    \/ \E op \in barOps : /\ InHand(op) /\ op.step \in {"relocate", "prepare"}
                          /\ op.after[1].old.position # op.after[1].new.position
Relocates ==
    \/ bar.overruled \/ Unprepared
    \/ /\ bar.relocation \in {NoEdge, barConfig.position}
       /\ \A op \in barOps :
              Places(op) /\ op.gen = bar.frameGen => op.config.position = barConfig.position

\* The space is right, or the newest placement or the newest deferred reservation will set it.
Due == Reserved(barPage.behavior, barPage.position, barPage.size)
SpaceFits ==
    \/ \E op \in barOps :
           /\ op.step = "place"
           /\ \A other \in barOps : other.step = "place" => other.gen <= op.gen
           /\ Reserved(op.config.behavior, op.config.position, op.size) = Due
    \/ /\ \A op \in barOps : op.step # "place"
       /\ \/ \E op \in barOps : op.step = "settle" /\ op.gen = bar.reservation /\ op.space = Due
          \/ /\ \A op \in barOps : op.step = "settle" => op.gen # bar.reservation
             /\ barWindow.space = Due
SpaceOwed == bar.overruled \/ News \/ SpaceFits
\* So is the offset.
FrameOwed == bar.frame = Unplaced => News \/ \E op \in barOps : op.step = "place"
RevealOwed == AskComes \/ bar.revealed = barPage.asked
OffsetOwed ==
    /\ barWindow.offset = bar.offset
    /\ \/ bar.frame = Unplaced \/ AskComes \/ bar.offset = Aim
       \/ \E op \in barOps : op.step = "glide" /\ op.gen = bar.motion
       \/ bar.blind /\ bar.offset = "shown"
BarInv ==
    /\ BarTypes /\ Chain /\ IsTold /\ Reports /\ Generations /\ Relocates
    /\ SpaceOwed /\ FrameOwed /\ RevealOwed /\ OffsetOwed

LEMMA BarDomains ==
  /\ "top" \in Edge /\ "bottom" \in Edge /\ NoEdge \notin Edge /\ "reserve" \in Behavior
  /\ Context \notin BarLayouts /\ \A r \in BarReports : r # NoReport
  /\ \A c \in BarConfigs : LayoutOf(c) \in BarLayouts
  BY DEF Edge, Behavior, NoEdge, Context, BarLayouts, BarReports, NoReport, BarConfigs, LayoutOf

\* Sequences of one, and the ends of sequences.
LEMMA OneLong ==
  ASSUME NEW c
  PROVE  <<c>> # <<>> /\ <<c>>[1] = c
  OBVIOUS

LEMMA Longer ==
  ASSUME NEW R, NEW s \in Seq(R), NEW r \in R
  PROVE  /\ Append(s, r) \in Seq(R) /\ Append(s, r) # <<>> /\ Len(s) \in Nat
         /\ Len(Append(s, r)) = Len(s) + 1 /\ Append(s, r)[Len(s) + 1] = r
         /\ \A i \in 1..Len(s) : Append(s, r)[i] = s[i]
  BY AppendProperties, LenProperties

LEMMA Shorter ==
  ASSUME NEW R, NEW s \in Seq(R), s # <<>>
  PROVE  /\ Tail(s) \in Seq(R) /\ Head(s) \in R /\ Head(s) = s[1] /\ Len(s) \in Nat \ {0}
         /\ Len(Tail(s)) = Len(s) - 1 /\ \A i \in 1..(Len(s) - 1) : Tail(s)[i] = s[i + 1]
         /\ Tail(s) = <<>> <=> Len(s) = 1
<1>1. Len(s) \in Nat /\ Len(s) # 0
  BY LenProperties, EmptySeq
<1>2. /\ Tail(s) \in Seq(R) /\ Head(s) \in R /\ Len(Tail(s)) = Len(s) - 1
      /\ \A i \in 1..Len(Tail(s)) : Tail(s)[i] = s[i + 1]
  BY HeadTailProperties
<1>3. Head(s) = s[1]
  BY DEF Head
<1>4. Tail(s) = <<>> <=> Len(Tail(s)) = 0
  BY <1>2, EmptySeq
<1> QED
  BY <1>1, <1>2, <1>3, <1>4

LEMMA InRange ==
  ASSUME NEW R, NEW s \in Seq(R)
  PROVE  Len(s) \in Nat /\ (\A i \in 1..Len(s) : s[i] \in R) /\ (s = <<>> <=> Len(s) = 0)
  BY LenProperties, ElementOfSeq, EmptySeq

LEMMA HandFacts ==
  ASSUME NEW op, IsBarOp(op), op.after # <<>>
  PROVE  /\ op.after = <<op.after[1]>> /\ op.after[1] \in BarChanges
         /\ op.after[1].old \in BarConfigs /\ op.after[1].new \in BarConfigs
         /\ op.step \in {"relocate", "move", "prepare", "edge", "layout"}
<1>1. op.after \in Handled /\ op.step \in {"relocate", "move", "prepare", "edge", "layout"}
  BY DEF IsBarOp
<1>2. PICK c \in BarChanges : op.after = <<c>>
  BY <1>1 DEF Handled
<1>3. op.after[1] = c
  BY <1>2, OneLong
<1>4. c.old \in BarConfigs /\ c.new \in BarConfigs
  BY DEF BarChanges
<1> QED
  BY <1>1, <1>2, <1>3, <1>4

\* The operations whose place in the queue of generations matters; the others are the loop's.
Late(op) == op.step \in {"place", "claim", "show", "settle", "glide"}
LEMMA LateFacts ==
  ASSUME NEW op, IsBarOp(op), Late(op)
  PROVE  /\ op.after = <<>> /\ op.gen \in Nat
         /\ Places(op) => op.config \in BarConfigs /\ op.size \in {1, 2}
  BY DEF IsBarOp, Late, Places

--------------------------------------------------------------------------------
\* What the page has not heard yet.

LEMMA ToldComes ==
  ASSUME NEW l, ToldLast(l), l # Shown
  PROVE  Comes(l)
  BY DEF ToldLast, Comes

LEMMA ConfigComes ==
  ASSUME BarTypes, Chain, IsTold, LayoutOf(barConfig) # Shown
  PROVE  Comes(LayoutOf(barConfig))
<1>1. CASE changes # <<>>
  <2>1. Len(changes) \in 1..Len(changes)
    BY <1>1, Shorter DEF BarTypes
  <2> QED
    BY <1>1, <2>1 DEF Chain, Comes
<1>2. CASE changes = <<>> /\ \E op \in barOps : op.after # <<>>
  BY <1>2 DEF Chain, Comes, InHand, FirstConfig
<1>3. CASE changes = <<>> /\ \A op \in barOps : op.after = <<>>
  BY <1>3, ToldComes DEF IsTold, FirstConfig
<1> QED
  BY <1>1, <1>2, <1>3

NothingNew == \A l \in BarLayouts : Comes(l) => l = Shown
\* If nothing new is to come, the page is at the config, and no change in hand or queued is one of
\* the edge or the behavior.
LEMMA Agreement ==
  ASSUME BarTypes, Chain, IsTold, NothingNew
  PROVE  /\ LayoutOf(barConfig) = Shown
         /\ \A i \in 1..Len(changes) : LayoutOf(changes[i].old) = Shown /\ LayoutOf(changes[i].new) = Shown
         /\ \A op \in barOps : InHand(op) =>
                LayoutOf(op.after[1].old) = Shown /\ LayoutOf(op.after[1].new) = Shown
<1>1. ASSUME NEW l \in BarLayouts, Comes(l) PROVE l = Shown
  BY <1>1 DEF NothingNew
<1>2. ASSUME NEW l \in BarLayouts, ToldLast(l) PROVE l = Shown
  BY <1>1, <1>2, ToldComes
<1>3. LayoutOf(barConfig) \in BarLayouts
  BY BarDomains DEF BarTypes
<1>4. LayoutOf(barConfig) = Shown
  BY <1>1, <1>3, ConfigComes
<1>5. ASSUME NEW i \in 1..Len(changes)
      PROVE  /\ LayoutOf(changes[i].new) = Shown
             /\ changes[i].old \in BarConfigs /\ changes[i].new \in BarConfigs
  <2>1. changes[i] \in BarChanges
    BY InRange DEF BarTypes
  <2>2. changes[i].old \in BarConfigs /\ changes[i].new \in BarConfigs
    BY <2>1 DEF BarChanges
  <2>3. Comes(LayoutOf(changes[i].new))
    BY DEF Comes
  <2> QED
    BY <1>1, <2>2, <2>3, BarDomains
<1>6. ASSUME NEW op \in barOps, InHand(op)
      PROVE  LayoutOf(op.after[1].old) = Shown /\ LayoutOf(op.after[1].new) = Shown
  <2>1. op.after[1].old \in BarConfigs /\ op.after[1].new \in BarConfigs
    BY <1>6, HandFacts DEF InHand, BarTypes
  <2>2. Comes(LayoutOf(op.after[1].new)) /\ ToldLast(LayoutOf(op.after[1].old))
    BY <1>6 DEF Comes, IsTold
  <2> QED
    BY <1>1, <1>2, <2>1, <2>2, BarDomains
<1>7. ASSUME changes # <<>> PROVE LayoutOf(FirstConfig) = Shown
  <2>1. 1 \in 1..Len(changes) /\ FirstConfig = changes[1].old
    BY <1>7, Shorter DEF BarTypes, FirstConfig
  <2>2. LayoutOf(FirstConfig) \in BarLayouts
    BY <1>5, <2>1, BarDomains
  <2>3. CASE \E op \in barOps : op.after # <<>>
    BY <1>6, <2>3 DEF Chain, InHand
  <2>4. CASE \A op \in barOps : op.after = <<>>
    BY <1>2, <2>2, <2>4 DEF IsTold
  <2> QED
    BY <2>3, <2>4
<1>8. ASSUME NEW i \in 1..Len(changes) PROVE LayoutOf(changes[i].old) = Shown
  <2>1. Len(changes) \in Nat
    BY InRange DEF BarTypes
  <2>2. CASE i = 1
    <3>1. changes # <<>>
      BY InRange DEF BarTypes
    <3> QED
      BY <1>7, <2>2, <3>1 DEF FirstConfig
  <2>3. CASE i # 1
    <3>1. i - 1 \in 1..Len(changes) /\ i - 1 \in 1..(Len(changes) - 1) /\ (i - 1) + 1 = i
      BY <2>1, <2>3
    <3>2. changes[i - 1].new = changes[(i - 1) + 1].old
      BY <3>1 DEF Chain
    <3> QED
      BY <1>5, <3>1, <3>2
  <2> QED
    BY <2>2, <2>3
<1> QED
  BY <1>4, <1>5, <1>6, <1>8

LEMMA NewIsNews ==
  ~News => NothingNew
  BY DEF News, NothingNew

LEMMA UnpreparedIsNew ==
  ASSUME BarTypes, Chain, IsTold, Unprepared
  PROVE  ~NothingNew
<1> SUFFICES ASSUME NothingNew PROVE FALSE
  OBVIOUS
<1>1. ASSUME NEW c, LayoutOf(c.old) = Shown, LayoutOf(c.new) = Shown PROVE c.old.position = c.new.position
  BY <1>1 DEF LayoutOf
<1>2. ~\E i \in 1..Len(changes) : changes[i].old.position # changes[i].new.position
  BY <1>1, Agreement
<1>3. ~\E op \in barOps : InHand(op) /\ op.after[1].old.position # op.after[1].new.position
  BY <1>1, Agreement
<1> QED
  BY <1>2, <1>3 DEF Unprepared

\* No step before the last is in the way of a bar at rest.
LEMMA QuietIsNoNews ==
  ASSUME BarTypes, BarQuiet
  PROVE  ~News /\ ~AskComes
<1>1. Len(barPage.inbox) = 0 /\ Len(changes) = 0
  BY InRange DEF BarTypes, PageTypes, BarQuiet
<1>2. ~\E l : Comes(l)
  BY <1>1 DEF Comes, BarQuiet, InHand
<1> QED
  BY <1>2 DEF BarQuiet, News, AskComes

--------------------------------------------------------------------------------
\* The config loop and the monitor watcher pass on what they have in hand.

PassesTo(op, steps) ==
    \/ op.after = <<>> /\ barOps' = barOps \ {op}
    \/ \E next : /\ IsBarOp(next) /\ next.step \in steps /\ next.after = op.after
                 /\ barOps' = (barOps \ {op}) \cup {next}
Ahead(op) == IF op.after = <<>> THEN "end" ELSE AfterMonitor(op.after[1])
HandOf(c) == [step |-> "reconcile", displays |-> bar.displays, after |-> <<c>>]

LEMMA UnmovedPasses ==
  ASSUME NEW op, op.after \in Handled \cup {<<>>}, Unmoved(op)
  PROVE  PassesTo(op, {Ahead(op)})
<1>1. CASE op.after = <<>>
  <2>1. barOps' = (barOps \ {op}) \cup {}
    BY <1>1 DEF Unmoved, Goes
  <2> QED
    BY <1>1, <2>1 DEF PassesTo
<1>2. CASE op.after # <<>>
  <2> DEFINE next == [step |-> Ahead(op), displays |-> {}, after |-> op.after]
  <2>1. barOps' = (barOps \ {op}) \cup {next}
    BY <1>2 DEF Unmoved, Goes, Ahead
  <2>2. op.after \in Handled /\ next.step \in {"prepare", "layout"} /\ next.after = op.after
    BY <1>2 DEF Ahead, AfterMonitor
  <2>3. next = [step |-> next.step, displays |-> next.displays, after |-> next.after]
    OBVIOUS
  <2>4. next.step = Ahead(op)
    OBVIOUS
  <2> HIDE DEF next
  <2>5. IsBarOp(next)
    BY <2>2, <2>3 DEF IsBarOp
  <2> QED
    BY <2>1, <2>2, <2>4, <2>5 DEF PassesTo
<1> QED
  BY <1>1, <1>2

LEMMA DecidePasses ==
  ASSUME NEW op, op.after \in Handled \cup {<<>>}, Decide(op)
  PROVE  /\ PassesTo(op, {"relocate", Ahead(op)})
         /\ bar' = [bar EXCEPT !.displays = op.displays] \/ bar' = bar
         /\ barWindow' = [barWindow EXCEPT !.opaque = FALSE] \/ barWindow' = barWindow
<1> DEFINE effective == Chosen(barConfig.monitor, op.displays)
<1>1. CASE effective # bar.monitor
  <2> DEFINE next == [step |-> "relocate", displays |-> op.displays, after |-> op.after,
                      effective |-> effective]
  <2>1. barOps' = (barOps \ {op}) \cup {next}
    BY <1>1 DEF Decide
  <2>2. next.step = "relocate" /\ next.after = op.after
        /\ next = [step |-> next.step, displays |-> next.displays, after |-> next.after,
                   effective |-> next.effective]
    OBVIOUS
  <2> HIDE DEF next
  <2>3. IsBarOp(next)
    BY <2>2 DEF IsBarOp
  <2>4. PassesTo(op, {"relocate", Ahead(op)})
    BY <2>1, <2>2, <2>3 DEF PassesTo
  <2>5. bar' = bar /\ barWindow' = [barWindow EXCEPT !.opaque = FALSE]
    BY <1>1 DEF Decide
  <2> QED
    BY <2>4, <2>5
<1>2. CASE ~(effective # bar.monitor)
  <2>1. Unmoved(op) /\ bar' = [bar EXCEPT !.displays = op.displays] /\ barWindow' = barWindow
    BY <1>2 DEF Decide
  <2>2. PassesTo(op, {Ahead(op)})
    BY <2>1, UnmovedPasses
  <2>3. PassesTo(op, {"relocate", Ahead(op)})
    BY <2>2 DEF PassesTo
  <2> QED
    BY <2>1, <2>3
<1> QED
  BY <1>1, <1>2

LEMMA AfterFacts ==
  ASSUME NEW op, IsBarOp(op)
  PROVE  op.after \in Handled \cup {<<>>}
  BY DEF IsBarOp

LEMMA ReconcilePasses ==
  ASSUME BarTypes, NEW op \in barOps, Reconcile(op)
  PROVE  /\ PassesTo(op, {"relocate", Ahead(op)}) /\ UNCHANGED <<barConfig, changes, barPage>>
         /\ bar' = [bar EXCEPT !.displays = op.displays] \/ bar' = bar
         /\ barWindow' = [barWindow EXCEPT !.opaque = FALSE] \/ barWindow' = barWindow
  BY AfterFacts, DecidePasses DEF BarTypes, Reconcile

LEMMA StaysPasses ==
  ASSUME BarTypes, NEW op \in barOps, MonitorStays(op)
  PROVE  /\ PassesTo(op, {"relocate", Ahead(op)}) /\ UNCHANGED <<barConfig, changes, barPage, bar>>
         /\ barWindow' = [barWindow EXCEPT !.opaque = TRUE]
<1>1. PassesTo(op, {Ahead(op)})
  BY AfterFacts, UnmovedPasses DEF BarTypes, MonitorStays
<1>2. PassesTo(op, {"relocate", Ahead(op)})
  BY <1>1 DEF PassesTo
<1> QED
  BY <1>2 DEF MonitorStays

LEMMA PrepareMonitorPasses ==
  ASSUME BarTypes, NEW op \in barOps, PrepareMonitor(op)
  PROVE  \E next : /\ IsBarOp(next) /\ next.step = "move" /\ next.after = op.after
                   /\ barOps' = (barOps \ {op}) \cup {next}
<1> DEFINE next == [op EXCEPT !.step = "move"]
<1>1. /\ op = [step |-> op.step, displays |-> op.displays, after |-> op.after,
               effective |-> op.effective]
      /\ op.after \in Handled \cup {<<>>}
  BY DEF BarTypes, IsBarOp, PrepareMonitor
<1>2. next = [step |-> "move", displays |-> op.displays, after |-> op.after, effective |-> op.effective]
  BY <1>1
<1>3. /\ next.step = "move" /\ next.after = op.after
      /\ next = [step |-> next.step, displays |-> next.displays, after |-> next.after,
                 effective |-> next.effective]
  BY <1>2
<1>4. barOps' = (barOps \ {op}) \cup {next}
  BY DEF PrepareMonitor, Becomes
<1> HIDE DEF next
<1>5. IsBarOp(next)
  BY <1>1, <1>3 DEF IsBarOp
<1> QED
  BY <1>3, <1>4, <1>5

LEMMA PrepareEdgePasses ==
  ASSUME BarTypes, NEW op \in barOps, PrepareEdge(op)
  PROVE  \E next : /\ IsBarOp(next) /\ next.step = "edge" /\ next.after = op.after
                   /\ barOps' = (barOps \ {op}) \cup {next}
<1> DEFINE next == [op EXCEPT !.step = "edge"]
<1>1. /\ op = [step |-> op.step, displays |-> op.displays, after |-> op.after]
      /\ op.after \in Handled
  BY DEF BarTypes, IsBarOp, PrepareEdge
<1>2. next = [step |-> "edge", displays |-> op.displays, after |-> op.after]
  BY <1>1
<1>3. /\ next.step = "edge" /\ next.after = op.after
      /\ next = [step |-> next.step, displays |-> next.displays, after |-> next.after]
  BY <1>2
<1>4. barOps' = (barOps \ {op}) \cup {next}
  BY DEF PrepareEdge, Becomes
<1> HIDE DEF next
<1>5. IsBarOp(next)
  BY <1>1, <1>3 DEF IsBarOp
<1> QED
  BY <1>3, <1>4, <1>5

LEMMA MovePasses ==
  ASSUME BarTypes, NEW op \in barOps, MoveMonitor(op)
  PROVE  PassesTo(op, {"layout"})
<1>1. CASE op.after = <<>>
  <2>1. barOps' = (barOps \ {op}) \cup {}
    BY <1>1 DEF MoveMonitor, Goes
  <2> QED
    BY <1>1, <2>1 DEF PassesTo
<1>2. CASE op.after # <<>>
  <2> DEFINE next == [step |-> "layout", displays |-> {}, after |-> op.after]
  <2>1. barOps' = (barOps \ {op}) \cup {next}
    BY <1>2 DEF MoveMonitor, Goes
  <2>2. op.after \in Handled
    BY <1>2, AfterFacts DEF BarTypes
  <2>3. /\ next.step = "layout" /\ next.after = op.after
        /\ next = [step |-> next.step, displays |-> next.displays, after |-> next.after]
    OBVIOUS
  <2> HIDE DEF next
  <2>4. IsBarOp(next)
    BY <2>2, <2>3 DEF IsBarOp
  <2> QED
    BY <2>1, <2>3, <2>4 DEF PassesTo
<1> QED
  BY <1>1, <1>2

\* The loop takes the first change in hand, when it has none.
LEMMA TakePasses ==
  ASSUME BarTypes, TakeChange
  PROVE  /\ changes # <<>> /\ changes' = Tail(changes) /\ UNCHANGED <<barConfig, barPage>>
         /\ \A op \in barOps : op.after = <<>>
         /\ PassesTo(HandOf(changes[1]), {"relocate", Ahead(HandOf(changes[1]))})
         /\ bar' = [bar EXCEPT !.displays = bar.displays] \/ bar' = bar
         /\ barWindow' = [barWindow EXCEPT !.opaque = FALSE] \/ barWindow' = barWindow
<1> DEFINE c == Head(changes)
           op == HandOf(c)
<1>1. changes # <<>> /\ c = changes[1] /\ c \in BarChanges
  BY Shorter DEF BarTypes, TakeChange
<1>2. op.after = <<c>> /\ op.displays = bar.displays
  BY DEF HandOf
<1>3. op.after \in Handled \cup {<<>>}
  BY <1>1, <1>2 DEF Handled
<1>4. CASE c.old.monitor # c.new.monitor
  <2>1. Decide(op)
    BY <1>4 DEF TakeChange, HandOf
  <2> HIDE DEF op
  <2> QED
    BY <1>1, <1>2, <1>3, <2>1, DecidePasses DEF op, TakeChange
<1>5. CASE ~(c.old.monitor # c.new.monitor)
  <2>1. Unmoved(op) /\ UNCHANGED <<bar, barWindow>>
    BY <1>5 DEF TakeChange, HandOf
  <2>2. PassesTo(op, {Ahead(op)})
    BY <1>3, <2>1, UnmovedPasses
  <2>3. PassesTo(op, {"relocate", Ahead(op)})
    BY <2>2 DEF PassesTo
  <2> QED
    BY <1>1, <2>1, <2>3 DEF TakeChange
<1> QED
  BY <1>4, <1>5

--------------------------------------------------------------------------------
\* What the other steps do to the operations.

\* A report of another size than the last is placed at once, and its space deferred.
LEMMA PlacedAtOnce ==
  ASSUME BarTypes, NEW size \in {1, 2}, NEW op, Placed(barConfig, size, FALSE, op)
  PROVE  LET frame   == [edge |-> barConfig.position, on |-> bar.monitor, size |-> size]
             changed == frame # bar.frame
             aim     == Target(barConfig.behavior, bar.revealed)
         IN  /\ LifeTypes' /\ bar'.frame = frame /\ bar'.reservation = bar.reservation + 1
             /\ UNCHANGED <<bar.relocation, bar.frameGen, bar.revealed, bar.overruled>>
             /\ bar'.motion = IF changed THEN bar.motion + 1 ELSE bar.motion
             /\ bar'.offset = IF changed THEN aim ELSE bar.offset
             /\ bar'.blind = IF changed THEN barConfig.behavior # barConfig.behavior ELSE bar.blind
             /\ barWindow' = [opaque |-> barWindow.opaque, at |-> frame, space |-> barWindow.space,
                              offset |-> IF changed THEN aim ELSE barWindow.offset]
             /\ \E next : /\ IsBarOp(next) /\ next.step = "settle" /\ next.gen = bar.reservation + 1
                          /\ next.space = Reserved(barConfig.behavior, barConfig.position, size)
                          /\ barOps' = (barOps \ {op}) \cup {next}
<1> DEFINE frame   == [edge |-> barConfig.position, on |-> bar.monitor, size |-> size]
           changed == frame # bar.frame
           aim     == Target(barConfig.behavior, bar.revealed)
           space   == Reserved(barConfig.behavior, barConfig.position, size)
           next    == [step |-> "settle", after |-> <<>>, gen |-> bar.reservation + 1, space |-> space]
<1>1. barOps' = (barOps \ {op}) \cup {next}
  BY DEF Placed
<1>2. /\ next.step = "settle" /\ next.gen = bar.reservation + 1 /\ next.space = space /\ next.after = <<>>
      /\ next = [step |-> next.step, after |-> next.after, gen |-> next.gen, space |-> next.space]
  OBVIOUS
<1>3. /\ bar' = [bar EXCEPT !.geometry = [frame EXCEPT !.on = NoMonitor], !.frame = frame,
                     !.motion = IF changed THEN @ + 1 ELSE @, !.offset = IF changed THEN aim ELSE bar.offset,
                     !.blind = IF changed THEN barConfig.behavior # barConfig.behavior ELSE @,
                     !.reservation = @ + 1]
      /\ barWindow' = [barWindow EXCEPT !.at = frame,
                           !.offset = IF changed THEN IF changed THEN aim ELSE bar.offset ELSE @,
                           !.space = @]
  BY DEF Placed
<1> HIDE DEF next
<1>4. IsBarOp(next)
  BY <1>2 DEF IsBarOp, BarTypes, LifeTypes
<1>5. barWindow' = [opaque |-> barWindow.opaque, at |-> frame, space |-> barWindow.space,
                    offset |-> IF changed THEN aim ELSE barWindow.offset]
  <2> HIDE DEF changed, aim, frame
  <2> QED
    BY <1>3 DEF BarTypes
<1>6. /\ LifeTypes' /\ bar'.frame = frame /\ bar'.reservation = bar.reservation + 1
      /\ UNCHANGED <<bar.relocation, bar.frameGen, bar.revealed, bar.overruled>>
      /\ bar'.motion = IF changed THEN bar.motion + 1 ELSE bar.motion
      /\ bar'.offset = IF changed THEN aim ELSE bar.offset
      /\ bar'.blind = IF changed THEN barConfig.behavior # barConfig.behavior ELSE bar.blind
  <2> DEFINE blind == barConfig.behavior # barConfig.behavior
  <2>1. blind \in BOOLEAN /\ changed \in BOOLEAN
    OBVIOUS
  <2> DEFINE still == IF changed THEN blind ELSE bar.blind
             moved == IF changed THEN aim ELSE bar.offset
             steps == IF changed THEN bar.motion + 1 ELSE bar.motion
             where == [frame EXCEPT !.on = NoMonitor]
  <2>2. bar' = [bar EXCEPT !.geometry = where, !.frame = frame, !.motion = steps, !.offset = moved,
                           !.blind = still, !.reservation = bar.reservation + 1]
    BY <1>3
  <2>3. still \in BOOLEAN /\ steps \in Nat
    <3>1. bar.blind \in BOOLEAN /\ bar.motion \in Nat /\ bar.motion + 1 \in Nat
      BY DEF BarTypes, LifeTypes
    <3> HIDE DEF changed, blind
    <3>2. CASE changed
      BY <2>1, <3>1, <3>2
    <3>3. CASE ~changed
      BY <2>1, <3>1, <3>3
    <3> QED
      BY <3>2, <3>3
  <2> HIDE DEF changed, aim, frame, blind, still, moved, steps, where
  <2>4. bar' = [relocation |-> bar.relocation, frameGen |-> bar.frameGen, geometry |-> where,
                frame |-> frame, motion |-> steps, offset |-> moved, revealed |-> bar.revealed,
                reservation |-> bar.reservation + 1, blind |-> still, overruled |-> bar.overruled,
                displays |-> bar.displays, monitor |-> bar.monitor]
    BY <2>2 DEF BarTypes, LifeTypes
  <2>5. /\ LifeTypes' /\ bar'.frame = frame /\ bar'.reservation = bar.reservation + 1
        /\ UNCHANGED <<bar.relocation, bar.frameGen, bar.revealed, bar.overruled>>
        /\ bar'.motion = steps /\ bar'.offset = moved /\ bar'.blind = still
    BY <2>3, <2>4 DEF BarTypes, LifeTypes
  <2> QED
    BY <2>5 DEF still, moved, steps, blind
<1> QED
  BY <1>1, <1>2, <1>4, <1>5, <1>6

\* A report that a relocation waits for is placed later, its space with it.
LEMMA PlacedLater ==
  ASSUME BarTypes, NEW op \in barOps, op.step = "place", Placed(op.config, op.size, TRUE, op)
  PROVE  LET frame   == [edge |-> op.config.position, on |-> bar.monitor, size |-> op.size]
             changed == frame # bar.frame
             aim     == Target(op.config.behavior, bar.revealed)
         IN  /\ LifeTypes' /\ bar'.frame = frame /\ bar'.reservation = bar.reservation + 1
             /\ UNCHANGED <<bar.relocation, bar.frameGen, bar.revealed, bar.overruled>>
             /\ bar'.motion = IF changed THEN bar.motion + 1 ELSE bar.motion
             /\ bar'.offset = IF changed THEN aim ELSE bar.offset
             /\ bar'.blind = IF changed THEN op.config.behavior # barConfig.behavior ELSE bar.blind
             /\ barWindow' = [opaque |-> barWindow.opaque, at |-> frame,
                              space |-> Reserved(op.config.behavior, op.config.position, op.size),
                              offset |-> IF changed THEN aim ELSE barWindow.offset]
             /\ \E next : /\ IsBarOp(next) /\ next.step = "claim" /\ next.gen = op.gen
                          /\ next.config = op.config /\ barOps' = (barOps \ {op}) \cup {next}
<1> DEFINE frame   == [edge |-> op.config.position, on |-> bar.monitor, size |-> op.size]
           changed == frame # bar.frame
           aim     == Target(op.config.behavior, bar.revealed)
           space   == Reserved(op.config.behavior, op.config.position, op.size)
           next    == [op EXCEPT !.step = "claim"]
<1>1. barOps' = (barOps \ {op}) \cup {next}
  BY DEF Placed
<1>2. /\ op = [step |-> op.step, after |-> op.after, gen |-> op.gen, config |-> op.config, size |-> op.size]
      /\ op.after = <<>> /\ op.gen \in Nat /\ op.config \in BarConfigs /\ op.size \in {1, 2}
  BY DEF BarTypes, IsBarOp
<1>3. next = [step |-> "claim", after |-> op.after, gen |-> op.gen, config |-> op.config, size |-> op.size]
  BY <1>2
<1>4. /\ next.step = "claim" /\ next.gen = op.gen /\ next.config = op.config /\ next.size = op.size
      /\ next.after = op.after
      /\ next = [step |-> next.step, after |-> next.after, gen |-> next.gen, config |-> next.config,
                 size |-> next.size]
  BY <1>3
<1>5. /\ bar' = [bar EXCEPT !.geometry = [frame EXCEPT !.on = NoMonitor], !.frame = frame,
                     !.motion = IF changed THEN @ + 1 ELSE @, !.offset = IF changed THEN aim ELSE bar.offset,
                     !.blind = IF changed THEN op.config.behavior # barConfig.behavior ELSE @,
                     !.reservation = @ + 1]
      /\ barWindow' = [barWindow EXCEPT !.at = frame,
                           !.offset = IF changed THEN IF changed THEN aim ELSE bar.offset ELSE @,
                           !.space = space]
  BY DEF Placed
<1> HIDE DEF next
<1>6. IsBarOp(next)
  BY <1>2, <1>4 DEF IsBarOp
<1>7. barWindow' = [opaque |-> barWindow.opaque, at |-> frame, space |-> space,
                    offset |-> IF changed THEN aim ELSE barWindow.offset]
  <2> HIDE DEF changed, aim, frame, space
  <2> QED
    BY <1>5 DEF BarTypes
<1>8. /\ LifeTypes' /\ bar'.frame = frame /\ bar'.reservation = bar.reservation + 1
      /\ UNCHANGED <<bar.relocation, bar.frameGen, bar.revealed, bar.overruled>>
      /\ bar'.motion = IF changed THEN bar.motion + 1 ELSE bar.motion
      /\ bar'.offset = IF changed THEN aim ELSE bar.offset
      /\ bar'.blind = IF changed THEN op.config.behavior # barConfig.behavior ELSE bar.blind
  <2> DEFINE blind == op.config.behavior # barConfig.behavior
  <2>1. blind \in BOOLEAN /\ changed \in BOOLEAN
    OBVIOUS
  <2> DEFINE still == IF changed THEN blind ELSE bar.blind
             moved == IF changed THEN aim ELSE bar.offset
             steps == IF changed THEN bar.motion + 1 ELSE bar.motion
             where == [frame EXCEPT !.on = NoMonitor]
  <2>2. bar' = [bar EXCEPT !.geometry = where, !.frame = frame, !.motion = steps, !.offset = moved,
                           !.blind = still, !.reservation = bar.reservation + 1]
    BY <1>5
  <2>3. still \in BOOLEAN /\ steps \in Nat
    <3>1. bar.blind \in BOOLEAN /\ bar.motion \in Nat /\ bar.motion + 1 \in Nat
      BY DEF BarTypes, LifeTypes
    <3> HIDE DEF changed, blind
    <3>2. CASE changed
      BY <2>1, <3>1, <3>2
    <3>3. CASE ~changed
      BY <2>1, <3>1, <3>3
    <3> QED
      BY <3>2, <3>3
  <2> HIDE DEF changed, aim, frame, blind, still, moved, steps, where
  <2>4. bar' = [relocation |-> bar.relocation, frameGen |-> bar.frameGen, geometry |-> where,
                frame |-> frame, motion |-> steps, offset |-> moved, revealed |-> bar.revealed,
                reservation |-> bar.reservation + 1, blind |-> still, overruled |-> bar.overruled,
                displays |-> bar.displays, monitor |-> bar.monitor]
    BY <2>2 DEF BarTypes, LifeTypes
  <2>5. /\ LifeTypes' /\ bar'.frame = frame /\ bar'.reservation = bar.reservation + 1
        /\ UNCHANGED <<bar.relocation, bar.frameGen, bar.revealed, bar.overruled>>
        /\ bar'.motion = steps /\ bar'.offset = moved /\ bar'.blind = still
    BY <2>3, <2>4 DEF BarTypes, LifeTypes
  <2> QED
    BY <2>5 DEF still, moved, steps, blind
<1> QED
  BY <1>1, <1>4, <1>6, <1>7, <1>8

\* The page sends what it measures, if that is not what it sent last.
LEMMA MeasuresSends ==
  ASSUME NEW view, PageTypes, Measures(view),
         view = [position |-> view.position, behavior |-> view.behavior, size |-> view.size,
                 reported |-> view.reported, inbox |-> view.inbox, sent |-> view.sent,
                 held |-> view.held, asked |-> view.asked, asks |-> view.asks],
         view.position \in Edge, view.behavior \in Behavior, view.size \in {1, 2},
         view.inbox \in Seq(BarLayouts \cup {Context}), view.sent = barPage.sent,
         view.held \in BOOLEAN, view.asked \in BOOLEAN, view.asks \in Seq(BOOLEAN)
  PROVE  /\ PageTypes'
         /\ barPage'.position = view.position /\ barPage'.behavior = view.behavior
         /\ barPage'.size = view.size /\ barPage'.inbox = view.inbox /\ barPage'.held = view.held
         /\ barPage'.asked = view.asked /\ barPage'.asks = view.asks
         /\ barPage'.reported = Measurement' /\ Measurement' \in BarReports
         /\ \/ view.reported = Measurement' /\ barPage'.sent = barPage.sent
            \/ view.reported # Measurement' /\ barPage'.sent = Append(barPage.sent, Measurement')
<1> DEFINE measured == [edge |-> view.position, behavior |-> view.behavior, size |-> view.size]
<1>1. measured \in BarReports
  BY DEF BarReports
<1>2. barPage.sent \in Seq(BarReports)
  BY DEF PageTypes
<1>3. Append(barPage.sent, measured) \in Seq(BarReports)
  BY <1>1, <1>2, Longer
<1> HIDE DEF measured
<1>4. CASE view.reported = measured
  <2>1. barPage' = view
    BY <1>4 DEF Measures, measured
  <2>2. Measurement' = measured
    BY <2>1 DEF Measurement, measured
  <2>3. PageTypes'
    BY <1>2, <1>4, <2>1 DEF PageTypes
  <2> QED
    BY <1>1, <1>4, <2>1, <2>2, <2>3
<1>5. CASE view.reported # measured
  <2>1. barPage' = [view EXCEPT !.reported = measured, !.sent = Append(@, measured)]
    BY <1>5 DEF Measures, measured
  <2>2. barPage' = [position |-> view.position, behavior |-> view.behavior, size |-> view.size,
                    reported |-> measured, inbox |-> view.inbox, sent |-> Append(barPage.sent, measured),
                    held |-> view.held, asked |-> view.asked, asks |-> view.asks]
    BY <2>1
  <2>3. PageTypes'
    BY <1>3, <2>2 DEF PageTypes
  <2>4. Measurement' = measured
    BY <2>2 DEF Measurement, measured
  <2> QED
    BY <1>1, <1>5, <2>2, <2>3, <2>4
<1> QED
  BY <1>4, <1>5

\* A relocation is prepared: the frame is forgotten, what was placed and what moves are void.
LEMMA PreparesLife ==
  ASSUME BarTypes, NEW edge, Prepares(edge)
  PROVE  /\ LifeTypes' /\ bar'.frame = Unplaced /\ bar'.relocation = edge
         /\ bar'.frameGen = bar.frameGen + 1 /\ bar'.motion = bar.motion + 1
         /\ UNCHANGED <<bar.offset, bar.revealed, bar.reservation, bar.overruled>>
<1>1. bar' = [relocation |-> edge, frameGen |-> bar.frameGen + 1, geometry |-> Unplaced, frame |-> Unplaced,
              motion |-> bar.motion + 1, offset |-> bar.offset, revealed |-> bar.revealed,
              reservation |-> bar.reservation, blind |-> bar.blind, overruled |-> bar.overruled,
              displays |-> bar.displays, monitor |-> bar.monitor]
  BY DEF Prepares, BarTypes, LifeTypes
<1> QED
  BY <1>1 DEF BarTypes, LifeTypes

LEMMA InventoryLife ==
  ASSUME BarTypes, NEW displays, NEW monitor, bar' = [bar EXCEPT !.displays = displays, !.monitor = monitor]
  PROVE  /\ LifeTypes'
         /\ UNCHANGED <<bar.frame, bar.relocation, bar.frameGen, bar.motion, bar.offset, bar.revealed,
                        bar.reservation, bar.blind, bar.overruled>>
<1>1. bar' = [relocation |-> bar.relocation, frameGen |-> bar.frameGen, geometry |-> bar.geometry,
              frame |-> bar.frame, motion |-> bar.motion, offset |-> bar.offset,
              revealed |-> bar.revealed, reservation |-> bar.reservation, blind |-> bar.blind,
              overruled |-> bar.overruled, displays |-> displays, monitor |-> monitor]
  BY DEF BarTypes, LifeTypes
<1> QED
  BY <1>1 DEF BarTypes, LifeTypes

LEMMA DisplaysLife ==
  ASSUME BarTypes, NEW displays, bar' = [bar EXCEPT !.displays = displays] \/ bar' = bar
  PROVE  /\ LifeTypes'
         /\ UNCHANGED <<bar.frame, bar.relocation, bar.frameGen, bar.motion, bar.offset, bar.revealed,
                        bar.reservation, bar.blind, bar.overruled>>
<1>1. CASE bar' = bar
  BY <1>1 DEF BarTypes, LifeTypes
<1>2. CASE bar' = [bar EXCEPT !.displays = displays]
  <2>1. bar' = [bar EXCEPT !.displays = displays, !.monitor = bar.monitor]
    BY <1>2 DEF BarTypes, LifeTypes
  <2> QED
    BY <2>1, InventoryLife
<1> QED
  BY <1>1, <1>2

\* What the page is told is kept until it hears it.
LEMMA TellsPage ==
  ASSUME BarTypes, NEW l \in BarLayouts \cup {Context}, barPage' = [barPage EXCEPT !.inbox = Append(@, l)]
  PROVE  /\ PageTypes' /\ barPage'.inbox = Append(barPage.inbox, l)
         /\ UNCHANGED <<barPage.position, barPage.behavior, barPage.size, barPage.reported, barPage.sent,
                        barPage.held, barPage.asked, barPage.asks>>
<1>1. barPage.inbox \in Seq(BarLayouts \cup {Context})
  BY DEF BarTypes, PageTypes
<1>2. Append(barPage.inbox, l) \in Seq(BarLayouts \cup {Context})
  BY <1>1, Longer
<1>3. barPage' = [position |-> barPage.position, behavior |-> barPage.behavior, size |-> barPage.size,
                  reported |-> barPage.reported, inbox |-> Append(barPage.inbox, l),
                  sent |-> barPage.sent, held |-> barPage.held, asked |-> barPage.asked,
                  asks |-> barPage.asks]
  BY DEF BarTypes, PageTypes
<1> QED
  BY <1>2, <1>3 DEF BarTypes, PageTypes

\* The page asks when what it wants has changed.
LEMMA AsksFacts ==
  ASSUME NEW view, view.asked \in BOOLEAN, view.asks \in Seq(BOOLEAN),
         view.held \in BOOLEAN, view.behavior \in Behavior,
         view = [position |-> view.position, behavior |-> view.behavior, size |-> view.size,
                 reported |-> view.reported, inbox |-> view.inbox, sent |-> view.sent,
                 held |-> view.held, asked |-> view.asked, asks |-> view.asks]
  PROVE  LET next == Asks(view)
             asks == IF Wants(view) = view.asked THEN view.asks ELSE Append(view.asks, Wants(view))
         IN  /\ next = [position |-> view.position, behavior |-> view.behavior, size |-> view.size,
                        reported |-> view.reported, inbox |-> view.inbox, sent |-> view.sent,
                        held |-> view.held, asked |-> Wants(view), asks |-> asks]
             /\ Wants(view) \in BOOLEAN /\ asks \in Seq(BOOLEAN)
             /\ asks # view.asks => Wants(view) # view.asked
<1> DEFINE w == Wants(view)
<1>1. w \in BOOLEAN
  BY DEF Wants
<1>2. Asks(view) = IF w = view.asked THEN view ELSE [view EXCEPT !.asked = w, !.asks = Append(@, w)]
  BY DEF Asks
<1> HIDE DEF w
<1>3. Append(view.asks, w) \in Seq(BOOLEAN)
  BY <1>1, Longer
<1>4. CASE w = view.asked
  <2>1. Asks(view) = view
    BY <1>2, <1>4
  <2> QED
    BY <1>1, <1>4, <2>1 DEF w
<1>5. CASE w # view.asked
  <2>1. Asks(view) = [view EXCEPT !.asked = w, !.asks = Append(@, w)]
    BY <1>2, <1>5
  <2>2. Asks(view) = [position |-> view.position, behavior |-> view.behavior, size |-> view.size,
                      reported |-> view.reported, inbox |-> view.inbox, sent |-> view.sent,
                      held |-> view.held, asked |-> w, asks |-> Append(view.asks, w)]
    BY <2>1
  <2> QED
    BY <1>1, <1>3, <1>5, <2>2 DEF w
<1> QED
  BY <1>4, <1>5

\* What the page does of its own, and hears.
IsPage(view) ==
    view = [position |-> view.position, behavior |-> view.behavior, size |-> view.size,
            reported |-> view.reported, inbox |-> view.inbox, sent |-> view.sent,
            held |-> view.held, asked |-> view.asked, asks |-> view.asks]
Sends ==
    /\ barPage'.reported = Measurement' /\ Measurement' \in BarReports
    /\ \/ barPage.reported = Measurement' /\ UNCHANGED barPage.sent
       \/ barPage'.sent = Append(barPage.sent, Measurement')
AsksAnew ==
    \/ barPage'.asked = barPage.asked /\ UNCHANGED barPage.asks
    \/ barPage'.asked # barPage.asked /\ barPage'.asks = Append(barPage.asks, barPage'.asked)

LEMMA PageWith ==
  ASSUME NEW view, IsPage(view), NEW a
  PROVE  /\ [view EXCEPT !.held = a] =
                [position |-> view.position, behavior |-> view.behavior, size |-> view.size,
                 reported |-> view.reported, inbox |-> view.inbox, sent |-> view.sent,
                 held |-> a, asked |-> view.asked, asks |-> view.asks]
         /\ [view EXCEPT !.size = a] =
                [position |-> view.position, behavior |-> view.behavior, size |-> a,
                 reported |-> view.reported, inbox |-> view.inbox, sent |-> view.sent,
                 held |-> view.held, asked |-> view.asked, asks |-> view.asks]
         /\ [view EXCEPT !.inbox = a] =
                [position |-> view.position, behavior |-> view.behavior, size |-> view.size,
                 reported |-> view.reported, inbox |-> a, sent |-> view.sent,
                 held |-> view.held, asked |-> view.asked, asks |-> view.asks]
         /\ [view EXCEPT !.reported = a] =
                [position |-> view.position, behavior |-> view.behavior, size |-> view.size,
                 reported |-> a, inbox |-> view.inbox, sent |-> view.sent,
                 held |-> view.held, asked |-> view.asked, asks |-> view.asks]
         /\ [view EXCEPT !.sent = a] =
                [position |-> view.position, behavior |-> view.behavior, size |-> view.size,
                 reported |-> view.reported, inbox |-> view.inbox, sent |-> a,
                 held |-> view.held, asked |-> view.asked, asks |-> view.asks]
         /\ [view EXCEPT !.asks = a] =
                [position |-> view.position, behavior |-> view.behavior, size |-> view.size,
                 reported |-> view.reported, inbox |-> view.inbox, sent |-> view.sent,
                 held |-> view.held, asked |-> view.asked, asks |-> a]
<1>1. [view EXCEPT !.held = a] =
          [position |-> view.position, behavior |-> view.behavior, size |-> view.size,
           reported |-> view.reported, inbox |-> view.inbox, sent |-> view.sent,
           held |-> a, asked |-> view.asked, asks |-> view.asks]
  BY DEF IsPage
<1>2. [view EXCEPT !.size = a] =
          [position |-> view.position, behavior |-> view.behavior, size |-> a,
           reported |-> view.reported, inbox |-> view.inbox, sent |-> view.sent,
           held |-> view.held, asked |-> view.asked, asks |-> view.asks]
  BY DEF IsPage
<1>3. [view EXCEPT !.inbox = a] =
          [position |-> view.position, behavior |-> view.behavior, size |-> view.size,
           reported |-> view.reported, inbox |-> a, sent |-> view.sent,
           held |-> view.held, asked |-> view.asked, asks |-> view.asks]
  BY DEF IsPage
<1>4. [view EXCEPT !.reported = a] =
          [position |-> view.position, behavior |-> view.behavior, size |-> view.size,
           reported |-> a, inbox |-> view.inbox, sent |-> view.sent,
           held |-> view.held, asked |-> view.asked, asks |-> view.asks]
  BY DEF IsPage
<1>5. [view EXCEPT !.sent = a] =
          [position |-> view.position, behavior |-> view.behavior, size |-> view.size,
           reported |-> view.reported, inbox |-> view.inbox, sent |-> a,
           held |-> view.held, asked |-> view.asked, asks |-> view.asks]
  BY DEF IsPage
<1>6. [view EXCEPT !.asks = a] =
          [position |-> view.position, behavior |-> view.behavior, size |-> view.size,
           reported |-> view.reported, inbox |-> view.inbox, sent |-> view.sent,
           held |-> view.held, asked |-> view.asked, asks |-> a]
  BY DEF IsPage
<1> QED
  BY <1>1, <1>2, <1>3, <1>4, <1>5, <1>6

LEMMA PageHears ==
  ASSUME NEW view, IsPage(view), NEW told, NEW held
  PROVE  [view EXCEPT !.position = told.position, !.held = held, !.behavior = told.behavior] =
            [position |-> told.position, behavior |-> told.behavior, size |-> view.size,
             reported |-> view.reported, inbox |-> view.inbox, sent |-> view.sent,
             held |-> held, asked |-> view.asked, asks |-> view.asks]
<1> DEFINE a == told.position
           c == told.behavior
           x == [view EXCEPT !.position = a]
           y == [x EXCEPT !.held = held]
           z == [y EXCEPT !.behavior = c]
<1>1. z = [view EXCEPT !.position = told.position, !.held = held, !.behavior = told.behavior]
  OBVIOUS
<1> HIDE DEF a, c
<1>2. x = [position |-> a, behavior |-> view.behavior, size |-> view.size,
           reported |-> view.reported, inbox |-> view.inbox, sent |-> view.sent,
           held |-> view.held, asked |-> view.asked, asks |-> view.asks]
  BY DEF IsPage
<1> HIDE DEF x
<1>3. y = [position |-> a, behavior |-> view.behavior, size |-> view.size,
           reported |-> view.reported, inbox |-> view.inbox, sent |-> view.sent,
           held |-> held, asked |-> view.asked, asks |-> view.asks]
  BY <1>2
<1> HIDE DEF y
<1>4. z = [position |-> a, behavior |-> c, size |-> view.size,
           reported |-> view.reported, inbox |-> view.inbox, sent |-> view.sent,
           held |-> held, asked |-> view.asked, asks |-> view.asks]
  BY <1>3
<1> HIDE DEF z
<1>5. [view EXCEPT !.position = told.position, !.held = held, !.behavior = told.behavior] = z
  BY <1>1
<1> QED
  BY <1>4, <1>5 DEF a, c

LEMMA HoldPage ==
  ASSUME BarTypes, Hold
  PROVE  /\ PageTypes' /\ AsksAnew /\ barPage'.asked = Wants(barPage)'
         /\ UNCHANGED <<barPage.position, barPage.behavior, barPage.size, barPage.reported,
                        barPage.inbox, barPage.sent>>
<1> DEFINE view == [barPage EXCEPT !.held = ~@]
           held == ~barPage.held
<1>1. held \in BOOLEAN
  OBVIOUS
<1>2. view = [position |-> barPage.position, behavior |-> barPage.behavior, size |-> barPage.size,
              reported |-> barPage.reported, inbox |-> barPage.inbox, sent |-> barPage.sent,
              held |-> held, asked |-> barPage.asked, asks |-> barPage.asks]
  <2>1. view = [barPage EXCEPT !.held = held]
    OBVIOUS
  <2> HIDE DEF held, view
  <2> QED
    BY <2>1 DEF BarTypes, PageTypes
<1>3. barPage' = Asks(view)
  BY DEF Hold
<1> HIDE DEF held, view
<1>4. /\ view.position = barPage.position /\ view.behavior = barPage.behavior /\ view.size = barPage.size
      /\ view.reported = barPage.reported /\ view.inbox = barPage.inbox /\ view.sent = barPage.sent
      /\ view.held = held /\ view.asked = barPage.asked /\ view.asks = barPage.asks
  BY <1>2
<1>5. IsPage(view)
  BY <1>2, <1>4 DEF IsPage
<1> DEFINE w == Wants(view)
           asks == IF w = view.asked THEN view.asks ELSE Append(view.asks, w)
<1>6. /\ barPage' = [position |-> view.position, behavior |-> view.behavior, size |-> view.size,
                     reported |-> view.reported, inbox |-> view.inbox, sent |-> view.sent,
                     held |-> view.held, asked |-> w, asks |-> asks]
      /\ w \in BOOLEAN /\ asks \in Seq(BOOLEAN)
  <2>1. /\ view.asked \in BOOLEAN /\ view.asks \in Seq(BOOLEAN) /\ view.held \in BOOLEAN
        /\ view.behavior \in Behavior
    BY <1>1, <1>4 DEF BarTypes, PageTypes
  <2> QED
    BY <1>3, <1>5, <2>1, AsksFacts DEF IsPage
<1>7. w = (view.behavior # "autohide" \/ view.held)
  BY DEF Wants
<1>8. /\ w = view.asked => asks = view.asks
      /\ w # view.asked => asks = Append(view.asks, w)
  OBVIOUS
<1> HIDE DEF w, asks
<1>9. /\ PageTypes' /\ barPage'.asked = w /\ barPage'.asks = asks
      /\ barPage'.behavior = view.behavior /\ barPage'.held = view.held
      /\ UNCHANGED <<barPage.position, barPage.behavior, barPage.size, barPage.reported,
                     barPage.inbox, barPage.sent>>
  BY <1>1, <1>4, <1>6 DEF BarTypes, PageTypes
<1>10. barPage'.asked = Wants(barPage)'
  BY <1>7, <1>9 DEF Wants
<1>11. AsksAnew
  BY <1>4, <1>8, <1>9 DEF AsksAnew
<1> QED
  BY <1>9, <1>10, <1>11

LEMMA ResizePage ==
  ASSUME BarTypes, Resize
  PROVE  /\ PageTypes' /\ Sends /\ barPage'.size # barPage.size
         /\ UNCHANGED <<barPage.position, barPage.behavior, barPage.inbox, barPage.held, barPage.asked,
                        barPage.asks>>
<1> DEFINE size == 3 - barPage.size
           view == [barPage EXCEPT !.size = size]
<1>1. view = [position |-> barPage.position, behavior |-> barPage.behavior, size |-> size,
              reported |-> barPage.reported, inbox |-> barPage.inbox, sent |-> barPage.sent,
              held |-> barPage.held, asked |-> barPage.asked, asks |-> barPage.asks]
  <2> HIDE DEF size
  <2> QED
    BY PageWith DEF IsPage, BarTypes, PageTypes
<1>2. Measures(view)
  BY DEF Resize
<1>4. size \in {1, 2} /\ size # barPage.size
  BY DEF BarTypes, PageTypes
<1> HIDE DEF view, size
<1>3. /\ view.position = barPage.position /\ view.behavior = barPage.behavior /\ view.size = size
      /\ view.reported = barPage.reported /\ view.inbox = barPage.inbox /\ view.sent = barPage.sent
      /\ view.held = barPage.held /\ view.asked = barPage.asked /\ view.asks = barPage.asks
      /\ view = [position |-> view.position, behavior |-> view.behavior, size |-> view.size,
                 reported |-> view.reported, inbox |-> view.inbox, sent |-> view.sent,
                 held |-> view.held, asked |-> view.asked, asks |-> view.asks]
  BY <1>1
<1>5. /\ PageTypes /\ view.position \in Edge /\ view.behavior \in Behavior
      /\ view.inbox \in Seq(BarLayouts \cup {Context})
      /\ view.held \in BOOLEAN /\ view.asked \in BOOLEAN /\ view.asks \in Seq(BOOLEAN)
  BY <1>3 DEF BarTypes, PageTypes
<1>6. /\ PageTypes' /\ barPage'.size = size /\ Sends
      /\ UNCHANGED <<barPage.position, barPage.behavior, barPage.inbox, barPage.held, barPage.asked,
                     barPage.asks>>
  <2>1. /\ PageTypes' /\ barPage'.size = size /\ Measurement' \in BarReports
        /\ barPage'.reported = Measurement'
        /\ \/ view.reported = Measurement' /\ barPage'.sent = barPage.sent
           \/ view.reported # Measurement' /\ barPage'.sent = Append(barPage.sent, Measurement')
        /\ UNCHANGED <<barPage.position, barPage.behavior, barPage.inbox, barPage.held, barPage.asked,
                       barPage.asks>>
    BY <1>2, <1>3, <1>4, <1>5, MeasuresSends
  <2> QED
    BY <1>3, <2>1 DEF Sends
<1> QED
  BY <1>4, <1>6

LEMMA HearPage ==
  ASSUME BarTypes, HearLayout
  PROVE  /\ PageTypes' /\ barPage.inbox # <<>> /\ barPage'.inbox = Tail(barPage.inbox) /\ Sends
         /\ UNCHANGED barPage.size
         /\ \/ /\ barPage.inbox[1] = Context /\ barPage'.sent = Append(barPage.sent, Measurement')
               /\ UNCHANGED <<barPage.position, barPage.behavior, barPage.held, barPage.asked, barPage.asks>>
            \/ /\ barPage.inbox[1] \in BarLayouts /\ Shown' = barPage.inbox[1]
               /\ barPage'.held => barPage.held
               /\ AsksAnew /\ barPage'.asked = Wants(barPage)'
<1> DEFINE told == Head(barPage.inbox)
           rest == Tail(barPage.inbox)
           view == [barPage EXCEPT !.inbox = rest]
<1>1. /\ barPage.inbox # <<>> /\ told = barPage.inbox[1] /\ told \in BarLayouts \cup {Context}
      /\ rest \in Seq(BarLayouts \cup {Context})
  <2>1. barPage.inbox \in Seq(BarLayouts \cup {Context}) /\ barPage.inbox # <<>>
    BY DEF HearLayout, BarTypes, PageTypes
  <2> QED
    BY <2>1, Shorter
<1>2. view = [position |-> barPage.position, behavior |-> barPage.behavior, size |-> barPage.size,
              reported |-> barPage.reported, inbox |-> rest, sent |-> barPage.sent,
              held |-> barPage.held, asked |-> barPage.asked, asks |-> barPage.asks]
  <2> HIDE DEF rest
  <2> QED
    BY PageWith DEF IsPage, BarTypes, PageTypes
<1>3. \/ told = Context /\ Measures([view EXCEPT !.reported = NoReport])
      \/ /\ told # Context
         /\ \E held \in BOOLEAN :
                /\ held => view.held
                /\ Measures(Asks([view EXCEPT !.position = told.position, !.held = held,
                                              !.behavior = told.behavior]))
  <2>1. view.held \in BOOLEAN
    BY <1>2 DEF BarTypes, PageTypes
  <2> QED
    BY <2>1 DEF HearLayout
<1> HIDE DEF view, told, rest
<1>4. CASE told = Context /\ Measures([view EXCEPT !.reported = NoReport])
  <2> DEFINE asked == [view EXCEPT !.reported = NoReport]
  <2>1. asked = [position |-> barPage.position, behavior |-> barPage.behavior, size |-> barPage.size,
                 reported |-> NoReport, inbox |-> rest, sent |-> barPage.sent,
                 held |-> barPage.held, asked |-> barPage.asked, asks |-> barPage.asks]
    <3>1. IsPage(view)
      BY <1>2 DEF IsPage
    <3>2. asked = [position |-> view.position, behavior |-> view.behavior, size |-> view.size,
                   reported |-> NoReport, inbox |-> view.inbox, sent |-> view.sent,
                   held |-> view.held, asked |-> view.asked, asks |-> view.asks]
      BY <3>1, PageWith
    <3> HIDE DEF asked
    <3> QED
      BY <1>2, <3>2
  <2>2. Measures(asked)
    BY <1>4
  <2> HIDE DEF asked
  <2>3. /\ asked.position = barPage.position /\ asked.behavior = barPage.behavior
        /\ asked.size = barPage.size /\ asked.reported = NoReport /\ asked.inbox = rest
        /\ asked.sent = barPage.sent
        /\ asked.held = barPage.held /\ asked.asked = barPage.asked /\ asked.asks = barPage.asks
        /\ asked = [position |-> asked.position, behavior |-> asked.behavior, size |-> asked.size,
                    reported |-> asked.reported, inbox |-> asked.inbox, sent |-> asked.sent,
                    held |-> asked.held, asked |-> asked.asked, asks |-> asked.asks]
    BY <2>1
  <2>4. /\ PageTypes' /\ Sends /\ barPage'.inbox = rest /\ barPage'.sent = Append(barPage.sent, Measurement')
        /\ UNCHANGED <<barPage.position, barPage.behavior, barPage.size, barPage.held, barPage.asked,
                       barPage.asks>>
    <3>1. \A r \in BarReports : r # NoReport
      BY BarDomains
    <3>2. /\ PageTypes /\ asked.position \in Edge /\ asked.behavior \in Behavior /\ asked.size \in {1, 2}
          /\ asked.inbox \in Seq(BarLayouts \cup {Context})
          /\ asked.held \in BOOLEAN /\ asked.asked \in BOOLEAN /\ asked.asks \in Seq(BOOLEAN)
      BY <1>1, <2>3 DEF BarTypes, PageTypes
    <3> QED
      <4>1. /\ PageTypes' /\ barPage'.inbox = rest /\ barPage'.reported = Measurement'
            /\ Measurement' \in BarReports
            /\ \/ asked.reported = Measurement' /\ barPage'.sent = barPage.sent
               \/ asked.reported # Measurement' /\ barPage'.sent = Append(barPage.sent, Measurement')
            /\ UNCHANGED <<barPage.position, barPage.behavior, barPage.size, barPage.held, barPage.asked,
                           barPage.asks>>
        BY <2>2, <2>3, <3>2, MeasuresSends
      <4> QED
        BY <2>3, <3>1, <4>1 DEF Sends
  <2> QED
    BY <1>1, <1>4, <2>4 DEF rest
<1>5. ASSUME told # Context, NEW held \in BOOLEAN, held => view.held,
             Measures(Asks([view EXCEPT !.position = told.position, !.held = held,
                                        !.behavior = told.behavior]))
      PROVE  /\ PageTypes' /\ barPage'.inbox = rest /\ Sends /\ UNCHANGED barPage.size
             /\ told \in BarLayouts /\ Shown' = told /\ (barPage'.held => barPage.held)
             /\ AsksAnew /\ barPage'.asked = Wants(barPage)'
  <2> DEFINE heard == [view EXCEPT !.position = told.position, !.held = held, !.behavior = told.behavior]
             next == Asks(heard)
  <2>1. heard = [position |-> told.position, behavior |-> told.behavior, size |-> barPage.size,
                 reported |-> barPage.reported, inbox |-> rest, sent |-> barPage.sent,
                 held |-> held, asked |-> barPage.asked, asks |-> barPage.asks]
    <3>1. IsPage(view)
      BY <1>2 DEF IsPage
    <3>2. heard = [position |-> told.position, behavior |-> told.behavior, size |-> view.size,
                   reported |-> view.reported, inbox |-> view.inbox, sent |-> view.sent,
                   held |-> held, asked |-> view.asked, asks |-> view.asks]
      BY <3>1, PageHears
    <3> HIDE DEF heard
    <3> QED
      BY <1>2, <3>2
  <2>2. told \in BarLayouts
    BY <1>1, <1>5
  <2>3. told.position \in Edge /\ told.behavior \in Behavior
        /\ told = [position |-> told.position, behavior |-> told.behavior]
    BY <2>2 DEF BarLayouts
  <2>4. Measures(next)
    BY <1>5
  <2>5. view.held = barPage.held
    BY <1>2
  <2> HIDE DEF heard
  <2>6. /\ heard.position = told.position /\ heard.behavior = told.behavior /\ heard.size = barPage.size
        /\ heard.reported = barPage.reported /\ heard.inbox = rest /\ heard.sent = barPage.sent
        /\ heard.held = held /\ heard.asked = barPage.asked /\ heard.asks = barPage.asks
    BY <2>1
  <2>7. IsPage(heard)
    BY <2>1, <2>6 DEF IsPage
  <2> DEFINE w == Wants(heard)
             asks == IF w = heard.asked THEN heard.asks ELSE Append(heard.asks, w)
  <2>8. /\ next = [position |-> heard.position, behavior |-> heard.behavior, size |-> heard.size,
                   reported |-> heard.reported, inbox |-> heard.inbox, sent |-> heard.sent,
                   held |-> heard.held, asked |-> w, asks |-> asks]
        /\ w \in BOOLEAN /\ asks \in Seq(BOOLEAN)
    BY <1>5, <2>3, <2>6, <2>7, AsksFacts DEF IsPage, BarTypes, PageTypes
  <2>9. w = (heard.behavior # "autohide" \/ heard.held)
    BY DEF Wants
  <2>10. /\ w = heard.asked => asks = heard.asks
         /\ w # heard.asked => asks = Append(heard.asks, w)
    OBVIOUS
  <2> HIDE DEF next, w, asks
  <2>11. /\ next.position = told.position /\ next.behavior = told.behavior /\ next.size = barPage.size
         /\ next.reported = barPage.reported /\ next.inbox = rest /\ next.sent = barPage.sent
         /\ next.held = held /\ next.asked = w /\ next.asks = asks
         /\ next = [position |-> next.position, behavior |-> next.behavior, size |-> next.size,
                    reported |-> next.reported, inbox |-> next.inbox, sent |-> next.sent,
                    held |-> next.held, asked |-> next.asked, asks |-> next.asks]
    BY <2>6, <2>8
  <2>12. /\ PageTypes' /\ Sends /\ barPage'.inbox = rest /\ UNCHANGED barPage.size
         /\ barPage'.position = told.position /\ barPage'.behavior = told.behavior
         /\ barPage'.held = held /\ barPage'.asked = w /\ barPage'.asks = asks
    <3>1. barPage.size \in {1, 2} /\ PageTypes
      BY DEF BarTypes, PageTypes
    <3>2. /\ next.position \in Edge /\ next.behavior \in Behavior /\ next.size \in {1, 2}
          /\ next.inbox \in Seq(BarLayouts \cup {Context})
          /\ next.held \in BOOLEAN /\ next.asked \in BOOLEAN /\ next.asks \in Seq(BOOLEAN)
      BY <1>1, <1>5, <2>3, <2>8, <2>11, <3>1
    <3>3. /\ PageTypes' /\ barPage'.inbox = next.inbox /\ barPage'.size = next.size
          /\ barPage'.position = next.position /\ barPage'.behavior = next.behavior
          /\ barPage'.held = next.held /\ barPage'.asked = next.asked /\ barPage'.asks = next.asks
      BY <2>4, <2>11, <3>1, <3>2, MeasuresSends
    <3>4. Sends
      <4>1. /\ barPage'.reported = Measurement' /\ Measurement' \in BarReports
            /\ \/ next.reported = Measurement' /\ barPage'.sent = barPage.sent
               \/ next.reported # Measurement' /\ barPage'.sent = Append(barPage.sent, Measurement')
        BY <2>4, <2>11, <3>1, <3>2, MeasuresSends
      <4> QED
        BY <2>11, <4>1 DEF Sends
    <3> QED
      BY <2>11, <3>3, <3>4
  <2>13. Shown' = told
    BY <2>3, <2>12 DEF Shown, LayoutOf
  <2>14. barPage'.asked = Wants(barPage)'
    BY <2>6, <2>9, <2>12 DEF Wants
  <2>15. AsksAnew
    BY <2>6, <2>10, <2>12 DEF AsksAnew
  <2> QED
    BY <1>5, <2>2, <2>5, <2>12, <2>13, <2>14, <2>15
<1> QED
  BY <1>1, <1>3, <1>4, <1>5 DEF rest

--------------------------------------------------------------------------------
\* Steps of what is under way for a report or an animation leave the loop alone; the loop's steps
\* leave those alone.
LoopSame == \A op : ~Late(op) => (op \in barOps' <=> op \in barOps)
LateSame == \A op : Late(op) => (op \in barOps' <=> op \in barOps)

LEMMA HandIsNotLate ==
  ASSUME NEW op, IsBarOp(op)
  PROVE  op.after # <<>> => ~Late(op)
  BY LateFacts

LEMMA LoopStays ==
  ASSUME BarTypes, BarTypes', LoopSame
  PROVE  /\ \A op : InHand(op)' <=> InHand(op)
         /\ (\A op \in barOps' : op.after = <<>>) <=> (\A op \in barOps : op.after = <<>>)
         /\ (\E op \in barOps' : op.step = "move") <=> (\E op \in barOps : op.step = "move")
<1>1. \A op \in barOps : op.after # <<>> => ~Late(op)
  BY HandIsNotLate DEF BarTypes
<1>2. \A op \in barOps' : op.after # <<>> => ~Late(op)
  BY HandIsNotLate DEF BarTypes
<1>3. \A op : op.step = "move" => ~Late(op)
  BY DEF Late
<1>4. \A op : InHand(op)' <=> InHand(op)
  BY <1>1, <1>2 DEF InHand, LoopSame
<1>5. (\A op \in barOps' : op.after = <<>>) <=> (\A op \in barOps : op.after = <<>>)
  BY <1>1, <1>2 DEF LoopSame
<1>6. (\E op \in barOps' : op.step = "move") <=> (\E op \in barOps : op.step = "move")
  BY <1>3 DEF LoopSame
<1> QED
  BY <1>4, <1>5, <1>6

LEMMA ComesStays ==
  ASSUME BarTypes, BarTypes', LoopSame, UNCHANGED <<changes, barPage.inbox>>
  PROVE  \A l : Comes(l)' <=> Comes(l)
  BY LoopStays DEF Comes, InHand

LEMMA UnpreparedStays ==
  ASSUME BarTypes, BarTypes', LoopSame, UNCHANGED changes
  PROVE  Unprepared' <=> Unprepared
<1>1. \A op : InHand(op)' <=> InHand(op)
  BY LoopStays
<1> QED
  BY <1>1 DEF Unprepared, InHand

LEMMA ChainStays ==
  ASSUME BarTypes, BarTypes', Chain, IsTold, LoopSame,
         UNCHANGED <<barConfig, changes, barPage.inbox, barPage.position, barPage.behavior>>
  PROVE  Chain' /\ IsTold' /\ Shown' = Shown
<1>1. \A op : InHand(op)' <=> InHand(op)
  BY LoopStays
<1>2. FirstConfig' = FirstConfig /\ Shown' = Shown
  BY DEF FirstConfig, Shown, LayoutOf
<1>3. Chain'
  <2>1. \A op \in barOps' : op.step \in {"prepare", "edge"} => op \in barOps
    BY DEF LoopSame, Late
  <2> QED
    BY <1>1, <1>2, <2>1 DEF Chain, InHand
<1>4. \A l : ToldLast(l)' <=> ToldLast(l)
  BY <1>2 DEF ToldLast
<1>5. IsTold'
  <2>1. (\A op \in barOps : op.after = <<>>)' => ToldLast(LayoutOf(FirstConfig))'
    BY <1>2, <1>4, LoopStays DEF IsTold, LayoutOf
  <2>2. \A op \in barOps' : InHand(op)' => ToldLast(LayoutOf(op.after[1].old))'
    BY <1>1, <1>4 DEF IsTold, InHand, LayoutOf
  <2> QED
    BY <2>1, <2>2 DEF IsTold, LayoutOf
<1> QED
  BY <1>2, <1>3, <1>5

\* News and questions are as they were, if the page's letters are.
LEMMA NewsStays ==
  ASSUME BarTypes, BarTypes', LoopSame,
         UNCHANGED <<changes, barPage.inbox, barPage.position, barPage.behavior>>
  PROVE  /\ NothingNew' <=> NothingNew
         /\ barPage'.sent # <<>> => News'
         /\ News => News' \/ barPage.sent # <<>>
         /\ (barPage'.sent = <<>> => barPage.sent = <<>>) => (News => News')
<1>1. Shown' = Shown
  BY DEF Shown, LayoutOf
<1>2. \A l : Comes(l)' <=> Comes(l)
  BY ComesStays
<1>3. (\E op \in barOps' : op.step = "move") <=> (\E op \in barOps : op.step = "move")
  BY LoopStays
<1> QED
  BY <1>1, <1>2, <1>3 DEF News, NothingNew

LEMMA AskStays ==
  ASSUME BarTypes, BarTypes', LoopSame, UNCHANGED <<changes, barPage.inbox, barPage.asked>>
  PROVE  /\ barPage'.asks # <<>> => AskComes'
         /\ AskComes => AskComes' \/ barPage.asks # <<>>
         /\ UNCHANGED barPage.asks => (AskComes => AskComes')
<1>1. \A l : Comes(l)' <=> Comes(l)
  BY ComesStays
<1> QED
  BY <1>1 DEF AskComes

\* If the page does not want the bar out and the config does, the page has yet to hear of it.
LEMMA AskIsDue ==
  ASSUME BarTypes, Chain, IsTold, Reports, ~barPage.asked, barConfig.behavior # "autohide"
  PROVE  \E l \in BarLayouts : Comes(l) /\ l.behavior # "autohide"
<1>1. barPage.behavior = "autohide"
  BY DEF Reports, Wants
<1>2. LayoutOf(barConfig) # Shown
  BY <1>1 DEF Shown, LayoutOf
<1>3. Comes(LayoutOf(barConfig)) /\ LayoutOf(barConfig) \in BarLayouts
  BY <1>2, ConfigComes, BarDomains DEF BarTypes
<1>4. LayoutOf(barConfig).behavior # "autohide"
  BY DEF LayoutOf
<1> QED
  BY <1>3, <1>4

--------------------------------------------------------------------------------
\* The steps that end a placement, and the animation.

LEMMA FewerGenerations ==
  ASSUME Generations, barOps' \subseteq barOps,
         UNCHANGED <<bar.relocation, bar.frameGen, bar.reservation, bar.motion, bar.revealed>>
  PROVE  Generations'
<1>1. Aim' = Aim
  BY DEF Aim
<1> QED
  BY <1>1 DEF Generations, Places

LEMMA RelocatesStay ==
  ASSUME Relocates, Unprepared => Unprepared', barConfig'.position = barConfig.position,
         UNCHANGED <<bar.relocation, bar.frameGen, bar.overruled>>,
         \A op \in barOps' : Places(op) => op \in barOps
  PROVE  Relocates'
  BY DEF Relocates, Places

LEMMA PageStays ==
  ASSUME BarTypes, UNCHANGED barPage
  PROVE  /\ PageTypes' /\ Due' = Due /\ (Reports => Reports')
         /\ UNCHANGED <<barPage.inbox, barPage.sent, barPage.asks, barPage.asked, barPage.position,
                        barPage.behavior, barPage.size>>
  BY DEF BarTypes, PageTypes, Due, Reports, Measurement, Wants, Reserved

LEMMA LifeStays ==
  ASSUME BarTypes, UNCHANGED bar
  PROVE  /\ LifeTypes' /\ Aim' = Aim
         /\ UNCHANGED <<bar.frame, bar.relocation, bar.frameGen, bar.motion, bar.offset, bar.revealed,
                        bar.reservation, bar.blind, bar.overruled>>
  BY DEF BarTypes, LifeTypes, Aim

LEMMA WindowWith ==
  ASSUME BarTypes
  PROVE  /\ \A v : [barWindow EXCEPT !.opaque = v] =
                [opaque |-> v, at |-> barWindow.at, offset |-> barWindow.offset, space |-> barWindow.space]
         /\ \A v : [barWindow EXCEPT !.offset = v] =
                [opaque |-> barWindow.opaque, at |-> barWindow.at, offset |-> v, space |-> barWindow.space]
         /\ \A v : [barWindow EXCEPT !.space = v] =
                [opaque |-> barWindow.opaque, at |-> barWindow.at, offset |-> barWindow.offset, space |-> v]
  BY DEF BarTypes
WindowTypes == barWindow = [opaque |-> barWindow.opaque, at |-> barWindow.at,
                            offset |-> barWindow.offset, space |-> barWindow.space]

LEMMA ShowKeeps ==
  ASSUME BarInv, NEW op \in barOps, ShowBar(op)
  PROVE  BarInv'
<1> USE DEF BarInv
<1>1. /\ op.step = "show" /\ barOps' = barOps \ {op} /\ UNCHANGED <<barConfig, changes, bar, barPage>>
      /\ barWindow' = [barWindow EXCEPT !.opaque = TRUE]
  BY DEF ShowBar, Returns
<1>2. WindowTypes' /\ UNCHANGED <<barWindow.offset, barWindow.space>>
  BY <1>1, WindowWith DEF WindowTypes
<1>3. BarTypes'
  BY <1>1, <1>2, PageStays, LifeStays DEF BarTypes, WindowTypes
<1>4. LoopSame
  BY <1>1 DEF LoopSame, Late
<1>5. Chain' /\ IsTold' /\ (Unprepared' <=> Unprepared)
  BY <1>1, <1>3, <1>4, ChainStays, UnpreparedStays, PageStays
<1>6. Reports' /\ Generations' /\ Relocates'
  BY <1>1, <1>5, PageStays, LifeStays, FewerGenerations, RelocatesStay
<1>7. (News => News') /\ (AskComes => AskComes')
  BY <1>1, <1>3, <1>4, NewsStays, AskStays, PageStays
<1>8. SpaceOwed'
  <2>1. SpaceFits => SpaceFits'
    BY <1>1, <1>2, PageStays, LifeStays DEF SpaceFits
  <2> QED
    BY <1>1, <1>7, <2>1 DEF SpaceOwed
<1>9. FrameOwed' /\ RevealOwed' /\ OffsetOwed'
  BY <1>1, <1>2, <1>7, PageStays, LifeStays DEF FrameOwed, RevealOwed, OffsetOwed
<1> QED
  BY <1>3, <1>5, <1>6, <1>8, <1>9

LEMMA SettleKeeps ==
  ASSUME BarInv, NEW op \in barOps, SettleReservation(op)
  PROVE  BarInv'
<1> USE DEF BarInv
<1>1. /\ op.step = "settle" /\ barOps' = barOps \ {op} /\ UNCHANGED <<barConfig, changes, bar, barPage>>
      /\ op.gen = bar.reservation => barWindow' = [barWindow EXCEPT !.space = op.space]
      /\ op.gen # bar.reservation => barWindow' = barWindow
  BY DEF SettleReservation, Returns
<1>2. /\ WindowTypes' /\ UNCHANGED barWindow.offset
      /\ op.gen = bar.reservation => barWindow'.space = op.space
      /\ op.gen # bar.reservation => barWindow'.space = barWindow.space
  BY <1>1, WindowWith DEF WindowTypes, BarTypes
<1>3. BarTypes'
  BY <1>1, <1>2, PageStays, LifeStays DEF BarTypes, WindowTypes
<1>4. LoopSame
  BY <1>1 DEF LoopSame, Late
<1>5. Chain' /\ IsTold' /\ (Unprepared' <=> Unprepared)
  BY <1>1, <1>3, <1>4, ChainStays, UnpreparedStays, PageStays
<1>6. Reports' /\ Generations' /\ Relocates'
  BY <1>1, <1>5, PageStays, LifeStays, FewerGenerations, RelocatesStay
<1>7. (News => News') /\ (AskComes => AskComes')
  BY <1>1, <1>3, <1>4, NewsStays, AskStays, PageStays
<1>8. SpaceOwed'
  <2>1. Due' = Due /\ bar'.reservation = bar.reservation
    BY <1>1, PageStays, LifeStays
  <2>2. \A a, b \in barOps :
            a.step = "settle" /\ b.step = "settle" /\ a.gen = b.gen => a = b
    BY DEF Generations
  <2>3. ASSUME NEW p \in barOps, p.step = "place",
               \A other \in barOps : other.step = "place" => other.gen <= p.gen,
               Reserved(p.config.behavior, p.config.position, p.size) = Due
        PROVE  SpaceFits'
    <3>1. p \in barOps' /\ \A other \in barOps' : other \in barOps
      BY <1>1, <2>3
    <3> QED
      BY <2>1, <2>3, <3>1 DEF SpaceFits
  <2>4. ASSUME \A p \in barOps : p.step # "place",
               NEW s \in barOps, s.step = "settle", s.gen = bar.reservation, s.space = Due
        PROVE  SpaceFits'
    <3>1. CASE s = op
      BY <1>1, <1>2, <2>1, <2>2, <2>4, <3>1 DEF SpaceFits
    <3>2. CASE s # op
      BY <1>1, <1>2, <2>1, <2>4, <3>2 DEF SpaceFits
    <3> QED
      BY <3>1, <3>2
  <2>5. ASSUME \A p \in barOps : p.step # "place",
               \A s \in barOps : s.step = "settle" => s.gen # bar.reservation, barWindow.space = Due
        PROVE  SpaceFits'
    BY <1>1, <1>2, <2>1, <2>5 DEF SpaceFits
  <2>6. SpaceFits => SpaceFits'
    BY <2>3, <2>4, <2>5 DEF SpaceFits
  <2> QED
    BY <1>1, <1>7, <2>6 DEF SpaceOwed
<1>9. FrameOwed' /\ RevealOwed' /\ OffsetOwed'
  BY <1>1, <1>2, <1>7, PageStays, LifeStays DEF FrameOwed, RevealOwed, OffsetOwed
<1> QED
  BY <1>3, <1>5, <1>6, <1>8, <1>9

LEMMA ClaimLife ==
  ASSUME BarTypes, bar' = [bar EXCEPT !.relocation = NoEdge]
  PROVE  /\ LifeTypes' /\ Aim' = Aim /\ bar'.relocation = NoEdge
         /\ UNCHANGED <<bar.frame, bar.frameGen, bar.motion, bar.offset, bar.revealed,
                        bar.reservation, bar.blind, bar.overruled>>
<1>1. bar' = [relocation |-> NoEdge, frameGen |-> bar.frameGen, geometry |-> bar.geometry,
              frame |-> bar.frame, motion |-> bar.motion, offset |-> bar.offset,
              revealed |-> bar.revealed, reservation |-> bar.reservation, blind |-> bar.blind,
              overruled |-> bar.overruled, displays |-> bar.displays, monitor |-> bar.monitor]
  BY DEF BarTypes, LifeTypes
<1> QED
  BY <1>1 DEF BarTypes, LifeTypes, Aim

LEMMA ClaimKeeps ==
  ASSUME BarInv, NEW op \in barOps, Claim(op)
  PROVE  BarInv'
<1> USE DEF BarInv
<1>1. op.step = "claim" /\ UNCHANGED <<barConfig, changes, barWindow, barPage>>
  BY DEF Claim
<1>2. WindowTypes' /\ UNCHANGED <<barWindow.offset, barWindow.space>>
  BY <1>1 DEF BarTypes, WindowTypes
<1>3. CASE bar.relocation = op.config.position /\ bar.frameGen = op.gen
  <2> DEFINE next == [op EXCEPT !.step = "show"]
  <2>1. bar' = [bar EXCEPT !.relocation = NoEdge] /\ barOps' = (barOps \ {op}) \cup {next}
    BY <1>3 DEF Claim, Becomes
  <2>2. /\ op = [step |-> op.step, after |-> op.after, gen |-> op.gen, config |-> op.config, size |-> op.size]
        /\ op.after = <<>> /\ op.gen \in Nat /\ op.config \in BarConfigs /\ op.size \in {1, 2}
    BY <1>1 DEF BarTypes, IsBarOp
  <2>3. next = [step |-> "show", after |-> op.after, gen |-> op.gen, config |-> op.config, size |-> op.size]
    BY <2>2
  <2>4. /\ next.step = "show" /\ next.gen = op.gen /\ next.config = op.config /\ next.size = op.size
        /\ next.after = op.after
        /\ next = [step |-> next.step, after |-> next.after, gen |-> next.gen, config |-> next.config,
                   size |-> next.size]
    BY <2>3
  <2> HIDE DEF next
  <2>5. IsBarOp(next)
    BY <2>2, <2>4 DEF IsBarOp
  <2>6. BarTypes'
    BY <1>1, <1>2, <2>1, <2>5, ClaimLife, PageStays DEF BarTypes, WindowTypes
  <2>7. LoopSame
    BY <1>1, <2>1, <2>4 DEF LoopSame, Late
  <2>8. Chain' /\ IsTold' /\ (Unprepared' <=> Unprepared) /\ Reports'
    BY <1>1, <2>6, <2>7, ChainStays, UnpreparedStays, PageStays
  <2>9. (News => News') /\ (AskComes => AskComes')
    BY <1>1, <2>6, <2>7, NewsStays, AskStays, PageStays
  <2>10. \A p \in barOps' : /\ p.step # "show" => p \in barOps
                            /\ p.step = "show" => p = next \/ p \in barOps
    BY <2>1, <2>4
  <2>11. \A p \in barOps : p # op => p \in barOps'
    BY <2>1
  <2>12. \A p \in barOps : p.step # "place"
    <3> SUFFICES ASSUME NEW p \in barOps, p.step = "place" PROVE FALSE
      OBVIOUS
    <3>1. op.gen < p.gen /\ p.gen <= bar.frameGen
      BY <1>1 DEF Generations, Places
    <3>2. p.gen \in Nat
      BY DEF BarTypes, IsBarOp
    <3> QED
      BY <1>3, <2>2, <3>1, <3>2
  <2>13. Generations'
    <3>1. \A p \in barOps' : Places(p) => p.gen <= bar'.frameGen
      BY <1>1, <2>4, <2>10, <2>1, ClaimLife DEF Generations, Places
    <3>2. \A p \in barOps' : p.step # "place"
      BY <2>10, <2>12
    <3>3. \A p \in barOps' : p.step \in {"settle", "glide"} => p \in barOps
      BY <2>10
    <3> QED
      BY <2>1, <3>1, <3>2, <3>3, ClaimLife DEF Generations
  <2>14. Relocates'
    <3>1. \A p \in barOps' : Places(p) =>
              \E q \in barOps : Places(q) /\ q.gen = p.gen /\ q.config = p.config
      BY <1>1, <2>4, <2>10 DEF Places
    <3> QED
      BY <1>1, <2>1, <2>8, <3>1, ClaimLife DEF Relocates
  <2>15. SpaceFits => SpaceFits'
    <3>1. \A p \in barOps : p.step = "settle" => p \in barOps'
      BY <1>1, <2>11
    <3>2. \A p \in barOps' : p.step \in {"place", "settle"} => p \in barOps
      BY <2>10
    <3>3. Due' = Due /\ bar'.reservation = bar.reservation
      BY <1>1, <2>1, PageStays, ClaimLife
    <3> QED
      BY <1>2, <2>12, <3>1, <3>2, <3>3 DEF SpaceFits
  <2>16. SpaceOwed'
    BY <2>1, <2>9, <2>15, ClaimLife DEF SpaceOwed
  <2>17. FrameOwed' /\ RevealOwed' /\ OffsetOwed'
    <3>1. \A p \in barOps : p.step \in {"place", "glide"} => p \in barOps'
      BY <1>1, <2>11
    <3> QED
      BY <1>1, <1>2, <2>1, <2>9, <3>1, PageStays, ClaimLife DEF FrameOwed, RevealOwed, OffsetOwed
  <2> QED
    BY <2>6, <2>8, <2>13, <2>14, <2>16, <2>17
<1>4. CASE ~(bar.relocation = op.config.position /\ bar.frameGen = op.gen)
  <2>1. bar' = bar /\ barOps' = barOps \ {op}
    BY <1>4 DEF Claim, Returns
  <2>2. BarTypes'
    BY <1>1, <1>2, <2>1, PageStays, LifeStays DEF BarTypes, WindowTypes
  <2>3. LoopSame
    BY <1>1, <2>1 DEF LoopSame, Late
  <2>4. Chain' /\ IsTold' /\ (Unprepared' <=> Unprepared)
    BY <1>1, <2>2, <2>3, ChainStays, UnpreparedStays, PageStays
  <2>5. Reports' /\ Generations' /\ Relocates'
    BY <1>1, <2>1, <2>4, PageStays, LifeStays, FewerGenerations, RelocatesStay
  <2>6. (News => News') /\ (AskComes => AskComes')
    BY <1>1, <2>2, <2>3, NewsStays, AskStays, PageStays
  <2>7. SpaceFits => SpaceFits'
    BY <1>1, <1>2, <2>1, PageStays, LifeStays DEF SpaceFits
  <2>8. SpaceOwed'
    BY <2>1, <2>6, <2>7 DEF SpaceOwed
  <2>9. FrameOwed' /\ RevealOwed' /\ OffsetOwed'
    BY <1>1, <1>2, <2>1, <2>6, PageStays, LifeStays DEF FrameOwed, RevealOwed, OffsetOwed
  <2> QED
    BY <2>2, <2>4, <2>5, <2>8, <2>9
<1> QED
  BY <1>3, <1>4

LEMMA OffsetLife ==
  ASSUME BarTypes, NEW offset, bar' = [bar EXCEPT !.offset = offset]
  PROVE  /\ LifeTypes' /\ Aim' = Aim /\ bar'.offset = offset
         /\ UNCHANGED <<bar.frame, bar.relocation, bar.frameGen, bar.motion, bar.revealed,
                        bar.reservation, bar.blind, bar.overruled>>
<1>1. bar' = [relocation |-> bar.relocation, frameGen |-> bar.frameGen, geometry |-> bar.geometry,
              frame |-> bar.frame, motion |-> bar.motion, offset |-> offset,
              revealed |-> bar.revealed, reservation |-> bar.reservation, blind |-> bar.blind,
              overruled |-> bar.overruled, displays |-> bar.displays, monitor |-> bar.monitor]
  BY DEF BarTypes, LifeTypes
<1> QED
  BY <1>1 DEF BarTypes, LifeTypes, Aim

\* An animation that was overtaken ends; the current one ends at what the bar is to be.
LEMMA GlideKeeps ==
  ASSUME BarInv, NEW op \in barOps, Glide(op)
  PROVE  BarInv'
<1> USE DEF BarInv
<1>1. op.step = "glide" /\ UNCHANGED <<barConfig, changes, barPage>>
  BY DEF Glide
<1>2. PICK offset :
         /\ bar' = bar \/ bar' = [bar EXCEPT !.offset = offset]
         /\ \/ op.gen # bar.motion /\ bar' = bar /\ barWindow' = barWindow /\ barOps' = barOps \ {op}
            \/ /\ op.gen = bar.motion /\ bar' = [bar EXCEPT !.offset = offset]
               /\ barWindow' = [barWindow EXCEPT !.offset = offset]
               /\ (offset = op.target /\ barOps' = barOps \ {op}) \/ barOps' = barOps
  BY DEF Glide, Returns
<1>3. barOps' \subseteq barOps /\ \A p \in barOps : p.step # "glide" => p \in barOps'
  BY <1>1, <1>2
<1>4. /\ LifeTypes' /\ Aim' = Aim
      /\ UNCHANGED <<bar.frame, bar.relocation, bar.frameGen, bar.motion, bar.revealed,
                     bar.reservation, bar.blind, bar.overruled>>
  BY <1>2, OffsetLife, LifeStays
<1>5. /\ WindowTypes' /\ UNCHANGED barWindow.space
      /\ \/ op.gen # bar.motion /\ bar'.offset = bar.offset /\ barWindow'.offset = barWindow.offset
         \/ op.gen = bar.motion /\ bar'.offset = offset /\ barWindow'.offset = offset
  BY <1>2, WindowWith, OffsetLife, LifeStays DEF WindowTypes, BarTypes
<1>6. BarTypes'
  BY <1>1, <1>3, <1>4, <1>5, PageStays DEF BarTypes, WindowTypes
<1>7. LoopSame
  BY <1>1, <1>3 DEF LoopSame, Late
<1>8. Chain' /\ IsTold' /\ (Unprepared' <=> Unprepared)
  BY <1>1, <1>6, <1>7, ChainStays, UnpreparedStays, PageStays
<1>9. Reports' /\ Generations' /\ Relocates'
  BY <1>1, <1>3, <1>4, <1>8, PageStays, FewerGenerations, RelocatesStay
<1>10. (News => News') /\ (AskComes => AskComes')
  BY <1>1, <1>6, <1>7, NewsStays, AskStays, PageStays
<1>11. SpaceOwed'
  <2>1. SpaceFits => SpaceFits'
    <3>1. Due' = Due
      BY <1>1, PageStays
    <3> QED
      BY <1>3, <1>4, <1>5, <3>1 DEF SpaceFits
  <2> QED
    BY <1>4, <1>10, <2>1 DEF SpaceOwed
<1>12. FrameOwed' /\ RevealOwed'
  BY <1>1, <1>3, <1>4, <1>10, PageStays DEF FrameOwed, RevealOwed
<1>13. OffsetOwed'
  <2>1. barWindow.offset = bar.offset
    BY DEF OffsetOwed
  <2>2. barWindow'.offset = bar'.offset
    BY <1>5, <2>1
  <2>3. CASE op.gen # bar.motion
    BY <1>2, <1>4, <1>5, <1>10, <2>2, <2>3 DEF OffsetOwed
  <2>4. CASE op.gen = bar.motion /\ barOps' = barOps
    BY <1>1, <1>4, <2>2, <2>4 DEF OffsetOwed
  <2>5. CASE op.gen = bar.motion /\ barOps' # barOps
    <3>1. offset = op.target /\ op.target = Aim
      BY <1>1, <1>2, <2>5 DEF Generations
    <3> QED
      BY <1>4, <1>5, <2>2, <2>5, <3>1 DEF OffsetOwed
  <2> QED
    BY <2>3, <2>4, <2>5
<1> QED
  BY <1>6, <1>8, <1>9, <1>11, <1>12, <1>13

\* A placement that fails to show sets the relocation back, and the page reports anew.
LEMMA ShowFailsKeeps ==
  ASSUME BarInv, NEW op \in barOps, ShowFails(op)
  PROVE  BarInv'
<1> USE DEF BarInv
<1> DEFINE overruled == bar.overruled \/ op.gen # bar.frameGen
           asked     == [barPage EXCEPT !.reported = NoReport]
<1>1. /\ op.step = "show" /\ barOps' = barOps \ {op} /\ UNCHANGED <<barConfig, changes, barWindow>>
      /\ bar' = [bar EXCEPT !.relocation = op.config.position, !.frameGen = @ + 1, !.overruled = overruled]
      /\ Measures(asked)
  BY DEF ShowFails, Returns
<1>2. /\ op.gen \in Nat /\ op.config \in BarConfigs /\ op.config.position \in Edge
      /\ op.config.position # NoEdge
  <2>1. op.gen \in Nat /\ op.config \in BarConfigs
    BY <1>1 DEF BarTypes, IsBarOp
  <2> QED
    BY <2>1, BarDomains DEF BarConfigs
<1>3. overruled \in BOOLEAN
  OBVIOUS
<1>4. /\ overruled => bar.overruled \/ op.gen # bar.frameGen
      /\ bar.overruled \/ op.gen # bar.frameGen => overruled
  OBVIOUS
<1> HIDE DEF overruled
<1>5. /\ LifeTypes' /\ Aim' = Aim /\ bar'.relocation = op.config.position
      /\ bar'.frameGen = bar.frameGen + 1 /\ bar'.overruled = overruled
      /\ UNCHANGED <<bar.frame, bar.motion, bar.offset, bar.revealed, bar.reservation, bar.blind>>
  <2>1. bar' = [relocation |-> op.config.position, frameGen |-> bar.frameGen + 1, geometry |-> bar.geometry,
                frame |-> bar.frame, motion |-> bar.motion, offset |-> bar.offset,
                revealed |-> bar.revealed, reservation |-> bar.reservation, blind |-> bar.blind,
                overruled |-> overruled, displays |-> bar.displays, monitor |-> bar.monitor]
    BY <1>1 DEF BarTypes, LifeTypes
  <2> QED
    BY <1>3, <2>1 DEF BarTypes, LifeTypes, Aim
<1>6. /\ PageTypes' /\ barPage'.sent = Append(barPage.sent, Measurement')
      /\ barPage'.reported = Measurement' /\ Measurement' \in BarReports
      /\ UNCHANGED <<barPage.position, barPage.behavior, barPage.size, barPage.inbox, barPage.held,
                     barPage.asked, barPage.asks>>
  <2>1. asked = [position |-> barPage.position, behavior |-> barPage.behavior, size |-> barPage.size,
                 reported |-> NoReport, inbox |-> barPage.inbox, sent |-> barPage.sent,
                 held |-> barPage.held, asked |-> barPage.asked, asks |-> barPage.asks]
    BY PageWith DEF IsPage, BarTypes, PageTypes
  <2> HIDE DEF asked
  <2>2. /\ asked.position = barPage.position /\ asked.behavior = barPage.behavior
        /\ asked.size = barPage.size /\ asked.reported = NoReport /\ asked.inbox = barPage.inbox
        /\ asked.sent = barPage.sent
        /\ asked.held = barPage.held /\ asked.asked = barPage.asked /\ asked.asks = barPage.asks
        /\ asked = [position |-> asked.position, behavior |-> asked.behavior, size |-> asked.size,
                    reported |-> asked.reported, inbox |-> asked.inbox, sent |-> asked.sent,
                    held |-> asked.held, asked |-> asked.asked, asks |-> asked.asks]
    BY <2>1
  <2>3. /\ PageTypes /\ asked.position \in Edge /\ asked.behavior \in Behavior /\ asked.size \in {1, 2}
        /\ asked.inbox \in Seq(BarLayouts \cup {Context})
        /\ asked.held \in BOOLEAN /\ asked.asked \in BOOLEAN /\ asked.asks \in Seq(BOOLEAN)
    BY <2>2 DEF BarTypes, PageTypes
  <2>4. /\ PageTypes' /\ barPage'.reported = Measurement' /\ Measurement' \in BarReports
        /\ \/ asked.reported = Measurement' /\ barPage'.sent = barPage.sent
           \/ asked.reported # Measurement' /\ barPage'.sent = Append(barPage.sent, Measurement')
        /\ UNCHANGED <<barPage.position, barPage.behavior, barPage.size, barPage.inbox, barPage.held,
                       barPage.asked, barPage.asks>>
    BY <1>1, <2>2, <2>3, MeasuresSends
  <2> QED
    BY <2>2, <2>4, BarDomains
<1>7. BarTypes'
  BY <1>1, <1>5, <1>6 DEF BarTypes
<1>8. LoopSame
  BY <1>1 DEF LoopSame, Late
<1>9. Chain' /\ IsTold' /\ (Unprepared' <=> Unprepared)
  BY <1>1, <1>6, <1>7, <1>8, ChainStays, UnpreparedStays
<1>10. barPage'.sent # <<>> /\ barPage'.sent[Len(barPage'.sent)] = Measurement'
  <2>1. barPage.sent \in Seq(BarReports)
    BY DEF BarTypes, PageTypes
  <2> QED
    BY <1>6, <2>1, Longer
<1>11. Reports'
  BY <1>6, <1>10 DEF Reports, Wants
<1>12. Generations'
  <2>1. \A p \in barOps' : p \in barOps
    BY <1>1
  <2>2. \A p \in barOps : Places(p) => p.gen \in Nat
    BY DEF BarTypes, IsBarOp, Places
  <2>3. bar.frameGen \in Nat
    BY DEF BarTypes, LifeTypes
  <2>4. \A p \in barOps' : Places(p) => p.gen <= bar'.frameGen
    BY <1>5, <2>1, <2>2, <2>3 DEF Generations, Places
  <2> QED
    BY <1>2, <1>5, <2>1, <2>4 DEF Generations
<1>13. Relocates'
  <2>1. CASE overruled
    BY <1>5, <2>1 DEF Relocates
  <2>2. CASE ~overruled /\ Unprepared
    BY <1>9, <2>2 DEF Relocates
  <2>3. CASE ~overruled /\ ~Unprepared
    <3>1. ~bar.overruled /\ op.gen = bar.frameGen
      BY <1>4, <2>3
    <3>2. op.config.position = barConfig.position
      BY <1>1, <2>3, <3>1 DEF Relocates, Places
    <3>3. \A p \in barOps' : Places(p) => p.gen # bar'.frameGen
      <4>1. \A p \in barOps : Places(p) => p.gen \in Nat /\ p.gen <= bar.frameGen
        BY DEF BarTypes, IsBarOp, Places, Generations
      <4>2. bar.frameGen \in Nat
        BY DEF BarTypes, LifeTypes
      <4> QED
        BY <1>1, <1>5, <4>1, <4>2 DEF Places
    <3> QED
      BY <1>1, <1>5, <3>2, <3>3 DEF Relocates, Places
  <2> QED
    BY <2>1, <2>2, <2>3
<1>14. News' /\ (AskComes => AskComes')
  BY <1>1, <1>6, <1>7, <1>8, <1>10, NewsStays, AskStays
<1>15. SpaceOwed' /\ FrameOwed' /\ RevealOwed' /\ OffsetOwed'
  <2>1. \A p \in barOps : p.step = "glide" => p \in barOps'
    BY <1>1
  <2> QED
    BY <1>1, <1>5, <1>6, <1>14, <2>1 DEF SpaceOwed, FrameOwed, RevealOwed, OffsetOwed
<1> QED
  BY <1>7, <1>9, <1>11, <1>12, <1>13, <1>15

--------------------------------------------------------------------------------
\* The core carries out what the page asked.

LEMMA TargetIsAim ==
  ASSUME NEW behavior, NEW seen \in BOOLEAN
  PROVE  /\ behavior = "autohide" => Target(behavior, seen) = IF seen THEN "shown" ELSE "hidden"
         /\ behavior # "autohide" => Target(behavior, seen) = "shown"
  BY DEF Target

LEMMA RevealLife ==
  ASSUME BarTypes, NEW seen \in BOOLEAN, NEW offset, NEW blind \in BOOLEAN,
         bar' = [relocation |-> bar.relocation, frameGen |-> bar.frameGen, geometry |-> bar.geometry,
                 frame |-> bar.frame, motion |-> bar.motion + 1, offset |-> offset,
                 revealed |-> seen, reservation |-> bar.reservation, blind |-> blind,
                 overruled |-> bar.overruled, displays |-> bar.displays, monitor |-> bar.monitor]
  PROVE  /\ LifeTypes' /\ bar'.revealed = seen /\ bar'.offset = offset /\ bar'.motion = bar.motion + 1
         /\ UNCHANGED <<bar.frame, bar.relocation, bar.frameGen, bar.reservation, bar.overruled>>
  BY DEF BarTypes, LifeTypes

LEMMA RevealEffects ==
  ASSUME BarTypes, NEW instant \in BOOLEAN, Reveal(instant)
  PROVE  \E seen \in BOOLEAN :
         /\ barPage.asks # <<>> /\ UNCHANGED <<barConfig, changes>>
         /\ seen = (barConfig.behavior # "autohide" \/ Head(barPage.asks))
         /\ LifeTypes' /\ bar'.revealed = seen /\ bar'.motion = bar.motion + 1
         /\ UNCHANGED <<bar.frame, bar.relocation, bar.frameGen, bar.reservation, bar.overruled>>
         /\ WindowTypes' /\ UNCHANGED barWindow.space
         /\ \/ /\ bar.frame = Unplaced /\ barOps' = barOps
               /\ bar'.offset = bar.offset /\ barWindow'.offset = barWindow.offset
            \/ /\ barOps' = barOps
               /\ bar'.offset = Aim' /\ barWindow'.offset = Aim'
            \/ /\ bar'.offset = bar.offset /\ barWindow'.offset = barWindow.offset
               /\ \E next : /\ IsBarOp(next) /\ next.step = "glide" /\ next.gen = bar.motion + 1
                            /\ next.target = Aim' /\ barOps' = barOps \cup {next}
<1> DEFINE seen   == barConfig.behavior # "autohide" \/ Head(barPage.asks)
           target == Target(barConfig.behavior, seen)
           still  == instant \/ bar.offset = target
           aim    == IF seen THEN "shown" ELSE "hidden"
           moved  == IF still THEN target ELSE bar.offset
           next   == [step |-> "glide", after |-> <<>>, gen |-> bar.motion + 1, target |-> target]
           first  == [bar EXCEPT !.revealed = seen, !.motion = @ + 1]
<1>1. barPage.asks # <<>> /\ UNCHANGED <<barConfig, changes>>
  BY DEF Reveal
<1>2. Head(barPage.asks) \in BOOLEAN
  BY <1>1, Shorter DEF BarTypes, PageTypes
<1>3. seen \in BOOLEAN /\ still \in BOOLEAN
  BY <1>2
<1>4. target = aim
  <2>1. barConfig.behavior # "autohide" => seen
    OBVIOUS
  <2> HIDE DEF seen
  <2> QED
    BY <1>3, <2>1, TargetIsAim
<1>5. \/ bar.frame = Unplaced /\ bar' = first /\ UNCHANGED <<barWindow, barOps>>
      \/ /\ bar.frame # Unplaced
         /\ bar' = [first EXCEPT !.offset = IF still THEN target ELSE @, !.blind = FALSE]
         /\ barWindow' = IF still THEN [barWindow EXCEPT !.offset = target] ELSE barWindow
         /\ barOps' = IF still THEN barOps ELSE barOps \cup {next}
  BY DEF Reveal
<1>6. seen = (barConfig.behavior # "autohide" \/ Head(barPage.asks))
  OBVIOUS
<1>7. /\ next.step = "glide" /\ next.gen = bar.motion + 1 /\ next.target = target /\ next.after = <<>>
      /\ next = [step |-> next.step, after |-> next.after, gen |-> next.gen, target |-> next.target]
  OBVIOUS
<1> HIDE DEF next
<1>8. IsBarOp(next)
  <2>1. bar.motion + 1 \in Nat
    BY DEF BarTypes, LifeTypes
  <2> QED
    BY <1>7, <2>1 DEF IsBarOp
<1> HIDE DEF seen, still, target
<1>9. first = [relocation |-> bar.relocation, frameGen |-> bar.frameGen, geometry |-> bar.geometry,
               frame |-> bar.frame, motion |-> bar.motion + 1, offset |-> bar.offset,
               revealed |-> seen, reservation |-> bar.reservation, blind |-> bar.blind,
               overruled |-> bar.overruled, displays |-> bar.displays, monitor |-> bar.monitor]
  <2> DEFINE steps == bar.motion + 1
             x     == [bar EXCEPT !.revealed = seen]
             y     == [x EXCEPT !.motion = steps]
  <2>1. x = [relocation |-> bar.relocation, frameGen |-> bar.frameGen, geometry |-> bar.geometry,
             frame |-> bar.frame, motion |-> bar.motion, offset |-> bar.offset,
             revealed |-> seen, reservation |-> bar.reservation, blind |-> bar.blind,
             overruled |-> bar.overruled, displays |-> bar.displays, monitor |-> bar.monitor]
    BY DEF BarTypes, LifeTypes
  <2>2. first = [bar EXCEPT !.revealed = seen, !.motion = steps]
    OBVIOUS
  <2>3. [bar EXCEPT !.revealed = seen, !.motion = steps] = y
    <3> HIDE DEF steps
    <3> QED
      OBVIOUS
  <2> HIDE DEF first, x, steps
  <2>4. y = [relocation |-> bar.relocation, frameGen |-> bar.frameGen, geometry |-> bar.geometry,
             frame |-> bar.frame, motion |-> steps, offset |-> bar.offset,
             revealed |-> seen, reservation |-> bar.reservation, blind |-> bar.blind,
             overruled |-> bar.overruled, displays |-> bar.displays, monitor |-> bar.monitor]
    BY <2>1
  <2> HIDE DEF y
  <2> QED
    BY <2>2, <2>3, <2>4 DEF steps
<1> HIDE DEF first
<1>10. CASE bar.frame = Unplaced /\ bar' = first /\ UNCHANGED <<barWindow, barOps>>
  <2>1. bar.blind \in BOOLEAN
    BY DEF BarTypes, LifeTypes
  <2>2. /\ LifeTypes' /\ bar'.revealed = seen /\ bar'.offset = bar.offset /\ bar'.motion = bar.motion + 1
        /\ UNCHANGED <<bar.frame, bar.relocation, bar.frameGen, bar.reservation, bar.overruled>>
    BY <1>3, <1>9, <1>10, <2>1, RevealLife
  <2>3. WindowTypes' /\ UNCHANGED <<barWindow.space, barWindow.offset>>
    BY <1>10 DEF WindowTypes, BarTypes
  <2> QED
    BY <1>1, <1>3, <1>6, <1>10, <2>2, <2>3
<1>11. CASE /\ bar.frame # Unplaced
            /\ bar' = [first EXCEPT !.offset = IF still THEN target ELSE @, !.blind = FALSE]
            /\ barWindow' = IF still THEN [barWindow EXCEPT !.offset = target] ELSE barWindow
            /\ barOps' = IF still THEN barOps ELSE barOps \cup {next}
  <2>1. bar' = [first EXCEPT !.offset = moved, !.blind = FALSE]
    BY <1>9, <1>11
  <2>2. bar' = [relocation |-> bar.relocation, frameGen |-> bar.frameGen, geometry |-> bar.geometry,
                frame |-> bar.frame, motion |-> bar.motion + 1, offset |-> moved,
                revealed |-> seen, reservation |-> bar.reservation, blind |-> FALSE,
                overruled |-> bar.overruled, displays |-> bar.displays, monitor |-> bar.monitor]
    <3> HIDE DEF moved
    <3> QED
      BY <1>9, <2>1
  <2>3. /\ LifeTypes' /\ bar'.revealed = seen /\ bar'.offset = moved /\ bar'.motion = bar.motion + 1
        /\ UNCHANGED <<bar.frame, bar.relocation, bar.frameGen, bar.reservation, bar.overruled>>
    <3> HIDE DEF moved
    <3> QED
      BY <1>3, <2>2, RevealLife
  <2>4. Aim' = target
    BY <1>4, <2>3 DEF Aim
  <2>5. CASE still
    <3>1. WindowTypes' /\ UNCHANGED barWindow.space /\ barWindow'.offset = target /\ barOps' = barOps
      BY <1>11, <2>5, WindowWith DEF WindowTypes
    <3> QED
      BY <1>1, <1>3, <1>6, <2>3, <2>4, <2>5, <3>1
  <2>6. CASE ~still
    <3>1. /\ WindowTypes' /\ UNCHANGED <<barWindow.space, barWindow.offset>>
          /\ barOps' = barOps \cup {next}
      BY <1>11, <2>6 DEF WindowTypes, BarTypes
    <3> QED
      BY <1>1, <1>3, <1>6, <1>7, <1>8, <2>3, <2>4, <2>6, <3>1
  <2> QED
    BY <1>3, <2>5, <2>6
<1> QED
  BY <1>5, <1>10, <1>11

\* One of its letters has been taken off the page's hands.
LEMMA LetterTaken ==
  ASSUME BarTypes
  PROVE  /\ barPage' = [barPage EXCEPT !.asks = Tail(@)] /\ barPage.asks # <<>> =>
                /\ PageTypes' /\ barPage'.asks = Tail(barPage.asks) /\ Due' = Due
                /\ (Reports => Reports')
                /\ Reports /\ barPage'.asks = <<>> => Head(barPage.asks) = barPage.asked
                /\ UNCHANGED <<barPage.position, barPage.behavior, barPage.size, barPage.inbox,
                               barPage.asked, barPage.sent>>
         /\ barPage' = [barPage EXCEPT !.sent = Tail(@)] /\ barPage.sent # <<>> =>
                /\ PageTypes' /\ barPage'.sent = Tail(barPage.sent) /\ Due' = Due
                /\ (Reports => Reports') /\ Head(barPage.sent) \in BarReports
                /\ Reports /\ barPage'.sent = <<>> => Head(barPage.sent) = barPage.reported
                /\ UNCHANGED <<barPage.position, barPage.behavior, barPage.size, barPage.inbox,
                               barPage.asked, barPage.asks, barPage.reported>>
<1>1. ASSUME barPage' = [barPage EXCEPT !.asks = Tail(@)], barPage.asks # <<>>
      PROVE  /\ PageTypes' /\ barPage'.asks = Tail(barPage.asks) /\ Due' = Due
             /\ (Reports => Reports')
             /\ Reports /\ barPage'.asks = <<>> => Head(barPage.asks) = barPage.asked
             /\ UNCHANGED <<barPage.position, barPage.behavior, barPage.size, barPage.inbox,
                            barPage.asked, barPage.sent>>
  <2> DEFINE asks == Tail(barPage.asks)
  <2>1. barPage.asks \in Seq(BOOLEAN)
    BY DEF BarTypes, PageTypes
  <2>2. /\ asks \in Seq(BOOLEAN) /\ Head(barPage.asks) = barPage.asks[1]
        /\ Len(barPage.asks) \in Nat \ {0} /\ Len(asks) = Len(barPage.asks) - 1
        /\ \A i \in 1..(Len(barPage.asks) - 1) : asks[i] = barPage.asks[i + 1]
        /\ asks = <<>> <=> Len(barPage.asks) = 1
    BY <1>1, <2>1, Shorter
  <2> HIDE DEF asks
  <2>3. barPage' = [position |-> barPage.position, behavior |-> barPage.behavior, size |-> barPage.size,
                    reported |-> barPage.reported, inbox |-> barPage.inbox, sent |-> barPage.sent,
                    held |-> barPage.held, asked |-> barPage.asked, asks |-> asks]
    <3>1. barPage' = [barPage EXCEPT !.asks = asks]
      BY <1>1 DEF asks
    <3> QED
      BY <3>1, PageWith DEF IsPage, BarTypes, PageTypes
  <2>4. /\ PageTypes' /\ barPage'.asks = asks /\ UNCHANGED barPage.held
        /\ UNCHANGED <<barPage.position, barPage.behavior, barPage.size, barPage.inbox, barPage.asked,
                       barPage.sent, barPage.reported>>
    BY <2>2, <2>3 DEF BarTypes, PageTypes
  <2>5. asks # <<>> => asks[Len(asks)] = barPage.asks[Len(barPage.asks)]
    BY <2>2
  <2>6. Reports => Reports'
    BY <1>1, <2>4, <2>5 DEF Reports, Measurement, Wants
  <2>7. Reports /\ asks = <<>> => Head(barPage.asks) = barPage.asked
    BY <1>1, <2>2 DEF Reports
  <2>8. Due' = Due
    BY <2>4 DEF Due, Reserved
  <2> QED
    BY <2>4, <2>6, <2>7, <2>8 DEF asks
<1>2. ASSUME barPage' = [barPage EXCEPT !.sent = Tail(@)], barPage.sent # <<>>
      PROVE  /\ PageTypes' /\ barPage'.sent = Tail(barPage.sent) /\ Due' = Due
             /\ (Reports => Reports') /\ Head(barPage.sent) \in BarReports
             /\ Reports /\ barPage'.sent = <<>> => Head(barPage.sent) = barPage.reported
             /\ UNCHANGED <<barPage.position, barPage.behavior, barPage.size, barPage.inbox,
                            barPage.asked, barPage.asks, barPage.reported>>
  <2> DEFINE sent == Tail(barPage.sent)
  <2>1. barPage.sent \in Seq(BarReports)
    BY DEF BarTypes, PageTypes
  <2>2. /\ sent \in Seq(BarReports) /\ Head(barPage.sent) = barPage.sent[1]
        /\ Head(barPage.sent) \in BarReports
        /\ Len(barPage.sent) \in Nat \ {0} /\ Len(sent) = Len(barPage.sent) - 1
        /\ \A i \in 1..(Len(barPage.sent) - 1) : sent[i] = barPage.sent[i + 1]
        /\ sent = <<>> <=> Len(barPage.sent) = 1
    BY <1>2, <2>1, Shorter
  <2> HIDE DEF sent
  <2>3. barPage' = [position |-> barPage.position, behavior |-> barPage.behavior, size |-> barPage.size,
                    reported |-> barPage.reported, inbox |-> barPage.inbox, sent |-> sent,
                    held |-> barPage.held, asked |-> barPage.asked, asks |-> barPage.asks]
    <3>1. barPage' = [barPage EXCEPT !.sent = sent]
      BY <1>2 DEF sent
    <3> QED
      BY <3>1, PageWith DEF IsPage, BarTypes, PageTypes
  <2>4. /\ PageTypes' /\ barPage'.sent = sent /\ UNCHANGED barPage.held
        /\ UNCHANGED <<barPage.position, barPage.behavior, barPage.size, barPage.inbox, barPage.asked,
                       barPage.asks, barPage.reported>>
    BY <2>2, <2>3 DEF BarTypes, PageTypes
  <2>5. sent # <<>> => sent[Len(sent)] = barPage.sent[Len(barPage.sent)]
    BY <2>2
  <2>6. Reports => Reports'
    BY <1>2, <2>4, <2>5 DEF Reports, Measurement, Wants
  <2>7. Reports /\ sent = <<>> => Head(barPage.sent) = barPage.reported
    BY <1>2, <2>2 DEF Reports
  <2>8. Due' = Due
    BY <2>4 DEF Due, Reserved
  <2> QED
    BY <2>2, <2>4, <2>6, <2>7, <2>8 DEF sent
<1> QED
  BY <1>1, <1>2

LEMMA RevealKeeps ==
  ASSUME BarInv, NEW instant \in BOOLEAN, Reveal(instant)
  PROVE  BarInv'
<1> USE DEF BarInv
<1>1. PICK seen \in BOOLEAN :
         /\ barPage.asks # <<>> /\ UNCHANGED <<barConfig, changes>>
         /\ seen = (barConfig.behavior # "autohide" \/ Head(barPage.asks))
         /\ LifeTypes' /\ bar'.revealed = seen /\ bar'.motion = bar.motion + 1
         /\ UNCHANGED <<bar.frame, bar.relocation, bar.frameGen, bar.reservation, bar.overruled>>
         /\ WindowTypes' /\ UNCHANGED barWindow.space
         /\ \/ /\ bar.frame = Unplaced /\ barOps' = barOps
               /\ bar'.offset = bar.offset /\ barWindow'.offset = barWindow.offset
            \/ /\ barOps' = barOps
               /\ bar'.offset = Aim' /\ barWindow'.offset = Aim'
            \/ /\ bar'.offset = bar.offset /\ barWindow'.offset = barWindow.offset
               /\ \E next : /\ IsBarOp(next) /\ next.step = "glide" /\ next.gen = bar.motion + 1
                            /\ next.target = Aim' /\ barOps' = barOps \cup {next}
  BY RevealEffects
<1>2. barPage' = [barPage EXCEPT !.asks = Tail(@)]
  BY DEF Reveal
<1>3. /\ PageTypes' /\ Due' = Due /\ Reports'
      /\ barPage'.asks = <<>> => Head(barPage.asks) = barPage.asked
      /\ UNCHANGED <<barPage.position, barPage.behavior, barPage.size, barPage.inbox,
                     barPage.asked, barPage.sent>>
  BY <1>1, <1>2, LetterTaken
<1>4. /\ \A p \in barOps' : p \in barOps \/ p.step = "glide"
      /\ \A p \in barOps : p \in barOps'
      /\ \A p \in barOps' : IsBarOp(p)
      /\ \A p \in barOps' : p.step = "glide" =>
             p \in barOps \/ (p.gen = bar.motion + 1 /\ p.target = Aim')
  <2>1. \A p \in barOps : IsBarOp(p)
    BY DEF BarTypes
  <2> DEFINE Glides(next) == /\ IsBarOp(next) /\ next.step = "glide" /\ next.gen = bar.motion + 1
                             /\ next.target = Aim'
  <2>2. \A p \in barOps' : p \in barOps \/ Glides(p)
    BY <1>1
  <2>3. \A p \in barOps : p \in barOps'
    BY <1>1
  <2>4. \A p : Glides(p) => IsBarOp(p) /\ p.step = "glide" /\ p.gen = bar.motion + 1 /\ p.target = Aim'
    OBVIOUS
  <2> HIDE DEF Glides
  <2>5. \A p \in barOps' : p \in barOps \/ p.step = "glide"
    BY <2>2, <2>4
  <2>6. \A p \in barOps' : IsBarOp(p)
    BY <2>1, <2>2, <2>4
  <2>7. \A p \in barOps' : p.step = "glide" =>
            p \in barOps \/ (p.gen = bar.motion + 1 /\ p.target = Aim')
    BY <2>2, <2>4
  <2> QED
    BY <2>3, <2>5, <2>6, <2>7
<1>5. BarTypes'
  BY <1>1, <1>3, <1>4 DEF BarTypes, WindowTypes
<1>6. LoopSame
  BY <1>4 DEF LoopSame, Late
<1>7. Chain' /\ IsTold' /\ (Unprepared' <=> Unprepared)
  BY <1>1, <1>3, <1>5, <1>6, ChainStays, UnpreparedStays
<1>8. (News => News') /\ (barPage'.asks # <<>> => AskComes')
  BY <1>1, <1>3, <1>5, <1>6, NewsStays, AskStays
<1>9. Generations'
  <2>1. bar.motion \in Nat /\ \A p \in barOps : p.step = "glide" => p.gen \in Nat /\ p.gen <= bar.motion
    BY DEF BarTypes, LifeTypes, IsBarOp, Generations
  <2>2. \A p \in barOps' : p.step = "glide" =>
            p.gen <= bar'.motion /\ (p.gen = bar'.motion => p.target = Aim')
    <3>1. bar'.motion = bar.motion + 1
      BY <1>1
    <3> SUFFICES ASSUME NEW p \in barOps', p.step = "glide"
                 PROVE  p.gen <= bar'.motion /\ (p.gen = bar'.motion => p.target = Aim')
      OBVIOUS
    <3>2. CASE p \in barOps
      BY <2>1, <3>1, <3>2
    <3>3. CASE p.gen = bar.motion + 1 /\ p.target = Aim'
      BY <2>1, <3>1, <3>3
    <3> QED
      BY <1>4, <3>2, <3>3
  <2>3. \A p \in barOps' : Places(p) \/ p.step = "settle" => p \in barOps
    BY <1>4 DEF Places
  <2>4. \A p \in barOps' : p.step = "claim" \/ p.step = "place" => p \in barOps
    BY <1>4
  <2> QED
    BY <1>1, <2>2, <2>3, <2>4 DEF Generations
<1>10. Relocates'
  BY <1>1, <1>4, <1>7, RelocatesStay DEF Places
<1>11. SpaceOwed'
  <2>1. \A p \in barOps' : p.step \in {"place", "settle"} => p \in barOps
    BY <1>4
  <2>2. SpaceFits => SpaceFits'
    BY <1>1, <1>3, <1>4, <2>1 DEF SpaceFits
  <2> QED
    BY <1>1, <1>8, <2>2 DEF SpaceOwed
<1>12. FrameOwed'
  BY <1>1, <1>4, <1>8 DEF FrameOwed
<1>13. RevealOwed'
  <2> SUFFICES ASSUME ~AskComes' PROVE bar'.revealed = barPage'.asked
    BY DEF RevealOwed
  <2>1. Head(barPage.asks) = barPage.asked /\ barPage'.asked = barPage.asked
    BY <1>3, <1>8
  <2>2. barPage'.asked \in BOOLEAN
    BY <1>3 DEF PageTypes
  <2>3. CASE barPage.asked
    BY <1>1, <2>1, <2>2, <2>3
  <2>4. CASE ~barPage.asked
    <3>1. barConfig.behavior # "autohide" => AskComes'
      <4>1. \A l : Comes(l)' <=> Comes(l)
        BY <1>1, <1>3, <1>5, <1>6, ComesStays
      <4> QED
        BY <2>1, <2>4, <4>1, AskIsDue DEF AskComes
    <3>2. barConfig.behavior = "autohide"
      BY <1>1, <2>1, <2>4, <3>1
    <3> QED
      BY <1>1, <2>1, <2>2, <2>4, <3>2
  <2> QED
    BY <2>3, <2>4
<1>14. OffsetOwed'
  BY <1>1, <1>4 DEF OffsetOwed
<1> QED
  BY <1>3, <1>5, <1>7, <1>9, <1>10, <1>11, <1>12, <1>13, <1>14

--------------------------------------------------------------------------------
\* A report is placed, at once or later.

\* Where a placement moves the bar, it leaves it as the behavior asks, or the page will ask.
LEMMA MovedAsAsked ==
  ASSUME BarInv, NEW behavior, NEW blind \in BOOLEAN, blind = (behavior # barConfig.behavior)
  PROVE  \/ Target(behavior, bar.revealed) = Aim \/ AskComes
         \/ blind /\ Target(behavior, bar.revealed) = "shown"
<1> USE DEF BarInv
<1>1. bar.revealed \in BOOLEAN
  BY DEF BarTypes, LifeTypes
<1>2. CASE behavior = "autohide"
  BY <1>1, <1>2, TargetIsAim DEF Aim
<1>3. CASE behavior # "autohide"
  <2>1. Target(behavior, bar.revealed) = "shown"
    BY <1>1, <1>3, TargetIsAim
  <2>2. CASE bar.revealed
    BY <2>1, <2>2 DEF Aim
  <2>3. CASE behavior # barConfig.behavior
    BY <2>1, <2>3
  <2>4. CASE ~bar.revealed /\ behavior = barConfig.behavior /\ ~AskComes
    <3>1. ~barPage.asked
      BY <2>4 DEF RevealOwed
    <3> QED
      BY <1>3, <2>4, <3>1, AskIsDue DEF AskComes
  <2> QED
    BY <2>2, <2>3, <2>4
<1> QED
  BY <1>2, <1>3

LEMMA PlaceKeeps ==
  ASSUME BarInv, NEW op \in barOps, PlaceBar(op)
  PROVE  BarInv'
<1> USE DEF BarInv
<1> DEFINE frame   == [edge |-> op.config.position, on |-> bar.monitor, size |-> op.size]
           changed == frame # bar.frame
           aim     == Target(op.config.behavior, bar.revealed)
           space   == Reserved(op.config.behavior, op.config.position, op.size)
           blind   == op.config.behavior # barConfig.behavior
<1>1. /\ op.step = "place" /\ Placed(op.config, op.size, TRUE, op)
      /\ \A other \in barOps : other.step = "place" => op.gen <= other.gen
      /\ UNCHANGED <<barConfig, changes, barPage>>
  BY DEF PlaceBar, Oldest
<1>2. /\ op.gen \in Nat /\ op.config \in BarConfigs /\ op.config.position \in Edge
  <2>1. op.gen \in Nat /\ op.config \in BarConfigs
    BY <1>1 DEF BarTypes, IsBarOp
  <2> QED
    BY <2>1 DEF BarConfigs
<1>3. frame # Unplaced
  BY <1>2, BarDomains DEF Unplaced
<1>4. /\ LifeTypes' /\ bar'.frame = frame /\ bar'.reservation = bar.reservation + 1
      /\ UNCHANGED <<bar.relocation, bar.frameGen, bar.revealed, bar.overruled>>
      /\ bar'.motion = IF changed THEN bar.motion + 1 ELSE bar.motion
      /\ bar'.offset = IF changed THEN aim ELSE bar.offset
      /\ bar'.blind = IF changed THEN op.config.behavior # barConfig.behavior ELSE bar.blind
      /\ barWindow' = [opaque |-> barWindow.opaque, at |-> frame, space |-> space,
                       offset |-> IF changed THEN aim ELSE barWindow.offset]
      /\ \E next : /\ IsBarOp(next) /\ next.step = "claim" /\ next.gen = op.gen
                   /\ next.config = op.config /\ barOps' = (barOps \ {op}) \cup {next}
  BY <1>1, PlacedLater
<1>5. PICK next : /\ IsBarOp(next) /\ next.step = "claim" /\ next.gen = op.gen
                  /\ next.config = op.config /\ barOps' = (barOps \ {op}) \cup {next}
  BY <1>4
<1>6. /\ changed \in BOOLEAN /\ blind \in BOOLEAN /\ (blind = (op.config.behavior # barConfig.behavior))
      /\ ~changed => frame = bar.frame
  OBVIOUS
<1>7. /\ changed => bar'.motion = bar.motion + 1 /\ bar'.offset = aim /\ barWindow'.offset = aim
                    /\ bar'.blind = blind
      /\ ~changed => bar'.motion = bar.motion /\ bar'.offset = bar.offset
                     /\ barWindow'.offset = barWindow.offset /\ bar'.blind = bar.blind
      /\ barWindow'.space = space /\ WindowTypes'
  <2>1. ASSUME NEW v, barWindow' = [opaque |-> barWindow.opaque, at |-> frame, space |-> space, offset |-> v]
        PROVE  barWindow'.offset = v /\ barWindow'.space = space /\ WindowTypes'
    <3> HIDE DEF frame, space
    <3> QED
      BY <2>1 DEF WindowTypes
  <2>2. CASE changed
    BY <1>4, <2>1, <2>2
  <2>3. CASE ~changed
    BY <1>4, <2>1, <2>3
  <2> QED
    BY <2>2, <2>3
<1> HIDE DEF frame, changed, aim, space, blind
<1>8. /\ \A p \in barOps' : p \in barOps \/ p = next
      /\ \A p \in barOps : p # op => p \in barOps'
      /\ \A p \in barOps' : p.step # "claim" => p \in barOps /\ p # op
      /\ \A p \in barOps' : IsBarOp(p)
  BY <1>1, <1>5 DEF BarTypes
<1>9. BarTypes'
  BY <1>1, <1>4, <1>7, <1>8, PageStays DEF BarTypes, WindowTypes
<1>10. LoopSame
  BY <1>1, <1>5 DEF LoopSame, Late
<1>11. Chain' /\ IsTold' /\ (Unprepared' <=> Unprepared) /\ Reports'
  BY <1>1, <1>9, <1>10, ChainStays, UnpreparedStays, PageStays
<1>12. (News => News') /\ (AskComes => AskComes') /\ (\A l : Comes(l)' <=> Comes(l))
  BY <1>1, <1>9, <1>10, NewsStays, AskStays, PageStays, ComesStays
<1>13. ASSUME NEW p \in barOps, p.step = "place", p # op PROVE op.gen < p.gen
  <2>1. op.gen <= p.gen /\ op.gen # p.gen
    BY <1>1, <1>13 DEF Generations
  <2>2. p.gen \in Nat
    BY <1>13 DEF BarTypes, IsBarOp
  <2> QED
    BY <1>2, <2>1, <2>2
<1>14. Generations'
  <2>1. \A p \in barOps' : Places(p) => p.gen <= bar'.frameGen
    BY <1>1, <1>4, <1>5, <1>8 DEF Generations, Places
  <2>2. \A p, q \in barOps' : p.step = "place" /\ q.step = "place" /\ p.gen = q.gen => p = q
    BY <1>8 DEF Generations
  <2>3. \A p, q \in barOps' : p.step = "claim" /\ q.step = "place" => p.gen < q.gen
    BY <1>5, <1>8, <1>13 DEF Generations
  <2>4. \A p \in barOps' : p.step = "place" => bar'.relocation # NoEdge
    BY <1>4, <1>8 DEF Generations
  <2>5. /\ \A p \in barOps' : p.step = "settle" => p.gen <= bar'.reservation
        /\ \A p, q \in barOps' : p.step = "settle" /\ q.step = "settle" /\ p.gen = q.gen => p = q
    <3>1. bar.reservation \in Nat /\ \A p \in barOps : p.step = "settle" => p.gen \in Nat
      BY DEF BarTypes, LifeTypes, IsBarOp
    <3> QED
      BY <1>4, <1>8, <3>1 DEF Generations
  <2>6. \A p \in barOps' : p.step = "glide" =>
            p.gen <= bar'.motion /\ (p.gen = bar'.motion => p.target = Aim')
    <3>1. bar.motion \in Nat /\ \A p \in barOps : p.step = "glide" => p.gen \in Nat
      BY DEF BarTypes, LifeTypes, IsBarOp
    <3>2. Aim' = Aim
      BY <1>4 DEF Aim
    <3>3. CASE changed
      BY <1>7, <1>8, <3>1, <3>3 DEF Generations
    <3>4. CASE ~changed
      BY <1>7, <1>8, <3>2, <3>4 DEF Generations
    <3> QED
      BY <3>3, <3>4
  <2> QED
    BY <2>1, <2>2, <2>3, <2>4, <2>5, <2>6 DEF Generations
<1>15. Relocates'
  <2>1. \A p \in barOps' : Places(p) =>
            \E q \in barOps : Places(q) /\ q.gen = p.gen /\ q.config = p.config
    BY <1>1, <1>5, <1>8 DEF Places
  <2> QED
    BY <1>1, <1>4, <1>11, <2>1 DEF Relocates
<1>16. SpaceFits => SpaceFits'
  <2>1. Due' = Due
    BY <1>1, PageStays
  <2> SUFFICES ASSUME SpaceFits PROVE SpaceFits'
    OBVIOUS
  <2>2. PICK p \in barOps :
           /\ p.step = "place"
           /\ \A other \in barOps : other.step = "place" => other.gen <= p.gen
           /\ Reserved(p.config.behavior, p.config.position, p.size) = Due
    BY <1>1 DEF SpaceFits
  <2>3. CASE p # op
    BY <1>8, <2>1, <2>2, <2>3 DEF SpaceFits
  <2>4. CASE p = op
    <3>1. \A q \in barOps' : q.step # "place"
      <4> SUFFICES ASSUME NEW q \in barOps, q.step = "place", q # op PROVE FALSE
        BY <1>8
      <4>1. op.gen < q.gen /\ q.gen <= op.gen
        BY <1>13, <2>2, <2>4
      <4>2. q.gen \in Nat
        BY DEF BarTypes, IsBarOp
      <4> QED
        BY <1>2, <4>1, <4>2
    <3>2. barWindow'.space = Due'
      BY <1>7, <2>1, <2>2, <2>4 DEF space
    <3>3. \A q \in barOps' : q.step = "settle" => q.gen # bar'.reservation
      <4>1. bar.reservation \in Nat /\ \A q \in barOps : q.step = "settle" => q.gen \in Nat
        BY DEF BarTypes, LifeTypes, IsBarOp
      <4> QED
        BY <1>4, <1>8, <4>1 DEF Generations
    <3> QED
      BY <3>1, <3>2, <3>3 DEF SpaceFits
  <2> QED
    BY <2>3, <2>4
<1>17. SpaceOwed' /\ FrameOwed' /\ RevealOwed'
  BY <1>1, <1>3, <1>4, <1>12, <1>16, PageStays DEF SpaceOwed, FrameOwed, RevealOwed
<1>18. OffsetOwed'
  <2>1. Aim' = Aim
    BY <1>4 DEF Aim
  <2>2. barWindow'.offset = bar'.offset
    BY <1>6, <1>7 DEF OffsetOwed
  <2>3. CASE changed
    <3>1. aim = Aim \/ AskComes \/ (blind /\ aim = "shown")
      BY <1>6, MovedAsAsked DEF aim
    <3> QED
      BY <1>7, <1>12, <2>1, <2>2, <2>3, <3>1 DEF OffsetOwed
  <2>4. CASE ~changed
    <3>1. frame = bar.frame /\ bar.frame # Unplaced
      BY <1>3, <1>6, <2>4
    <3>2. \A p \in barOps : p.step = "glide" => p \in barOps'
      BY <1>1, <1>8
    <3> QED
      BY <1>4, <1>7, <1>12, <2>1, <2>2, <2>4, <3>1, <3>2 DEF OffsetOwed
  <2> QED
    BY <1>6, <2>3, <2>4
<1> QED
  BY <1>9, <1>11, <1>14, <1>15, <1>17, <1>18

LEMMA ReportOps ==
  ASSUME BarTypes, Report
  PROVE  LET report == Head(barPage.sent)
         IN  \/ UNCHANGED <<bar, barWindow, barOps>> /\ barConfig.position # report.edge
             \/ /\ barConfig.position = report.edge /\ bar.relocation = report.edge
                /\ bar' = [bar EXCEPT !.frameGen = @ + 1]
                /\ barWindow' = [barWindow EXCEPT !.opaque = FALSE]
                /\ \E next : /\ IsBarOp(next) /\ next.step = "place" /\ next.gen = bar.frameGen + 1
                             /\ next.config = barConfig /\ next.size = report.size
                             /\ barOps' = barOps \cup {next}
             \/ /\ barConfig.position = report.edge /\ bar.relocation # report.edge
                /\ \E op : op.step = "place" /\ op.gen = bar.frameGen + 1
                           /\ Placed(barConfig, report.size, FALSE, op)
<1> DEFINE report == Head(barPage.sent)
           op == [step |-> "place", after |-> <<>>, gen |-> bar.frameGen + 1,
                  config |-> barConfig, size |-> report.size]
<1>1. \/ barConfig.position # report.edge /\ UNCHANGED <<bar, barWindow, barOps>>
      \/ /\ barConfig.position = report.edge /\ bar.relocation = report.edge
         /\ bar' = [bar EXCEPT !.frameGen = @ + 1]
         /\ barWindow' = [barWindow EXCEPT !.opaque = FALSE]
         /\ barOps' = barOps \cup {op}
      \/ /\ barConfig.position = report.edge /\ bar.relocation # report.edge
         /\ Placed(barConfig, report.size, FALSE, op)
  BY DEF Report
<1>2. /\ op.step = "place" /\ op.gen = bar.frameGen + 1 /\ op.config = barConfig /\ op.size = report.size
      /\ op.after = <<>>
      /\ op = [step |-> op.step, after |-> op.after, gen |-> op.gen, config |-> op.config, size |-> op.size]
  OBVIOUS
<1>3. bar.frameGen + 1 \in Nat /\ barConfig \in BarConfigs
  BY DEF BarTypes, LifeTypes
<1>4. report \in BarReports
  BY Shorter DEF Report, BarTypes, PageTypes
<1>5. report.size \in {1, 2}
  BY <1>4 DEF BarReports
<1> HIDE DEF op, report
<1>6. IsBarOp(op)
  BY <1>2, <1>3, <1>5 DEF IsBarOp
<1> QED
  BY <1>1, <1>2, <1>6 DEF report

LEMMA FrameGenLife ==
  ASSUME BarTypes, bar' = [bar EXCEPT !.frameGen = @ + 1]
  PROVE  /\ LifeTypes' /\ Aim' = Aim /\ bar'.frameGen = bar.frameGen + 1
         /\ UNCHANGED <<bar.frame, bar.relocation, bar.motion, bar.offset, bar.revealed,
                        bar.reservation, bar.blind, bar.overruled>>
<1>1. bar' = [relocation |-> bar.relocation, frameGen |-> bar.frameGen + 1, geometry |-> bar.geometry,
              frame |-> bar.frame, motion |-> bar.motion, offset |-> bar.offset,
              revealed |-> bar.revealed, reservation |-> bar.reservation, blind |-> bar.blind,
              overruled |-> bar.overruled, displays |-> bar.displays, monitor |-> bar.monitor]
  BY DEF BarTypes, LifeTypes
<1> QED
  BY <1>1 DEF BarTypes, LifeTypes, Aim

\* A report that leaves no news behind is what the page measures, for the config that is.
LEMMA LastReport ==
  ASSUME BarInv, BarTypes', LoopSame, barPage' = [barPage EXCEPT !.sent = Tail(@)], barPage.sent # <<>>,
         UNCHANGED <<barConfig, changes>>, ~News'
  PROVE  /\ Head(barPage.sent) = [edge |-> barConfig.position, behavior |-> barConfig.behavior,
                                  size |-> barPage.size]
         /\ barConfig.position = barPage.position /\ barConfig.behavior = barPage.behavior
         /\ ~Unprepared
<1> USE DEF BarInv
<1>1. /\ barPage'.sent = <<>> => Head(barPage.sent) = barPage.reported
      /\ UNCHANGED <<barPage.position, barPage.behavior, barPage.inbox>>
  BY LetterTaken
<1>2. /\ NothingNew' <=> NothingNew
      /\ barPage'.sent # <<>> => News'
      /\ \A l : Comes(l)' <=> Comes(l)
  BY <1>1, NewsStays, ComesStays
<1>3. NothingNew
  BY <1>2, NewIsNews DEF News, NothingNew
<1>4. LayoutOf(barConfig) = Shown /\ ~Unprepared
  BY <1>3, Agreement, UnpreparedIsNew
<1>5. barConfig.position = barPage.position /\ barConfig.behavior = barPage.behavior
  BY <1>4 DEF LayoutOf, Shown
<1>6. barPage.reported = Measurement
  <2>1. ~Comes(Context)
    <3>1. Context # Shown'
      <4>1. Shown' \in BarLayouts
        BY DEF BarTypes, PageTypes, Shown, LayoutOf, BarLayouts
      <4> QED
        BY <4>1, BarDomains
    <3>2. ~Comes(Context)'
      BY <3>1 DEF News
    <3> QED
      BY <1>2, <3>2
  <2> QED
    BY <2>1 DEF Comes, Reports
<1> QED
  BY <1>1, <1>2, <1>4, <1>5, <1>6 DEF Measurement

LEMMA ReportKeeps ==
  ASSUME BarInv, Report
  PROVE  BarInv'
<1> USE DEF BarInv
<1> DEFINE report == Head(barPage.sent)
<1>1. /\ barPage.sent # <<>> /\ barPage' = [barPage EXCEPT !.sent = Tail(@)]
      /\ UNCHANGED <<barConfig, changes>>
  BY DEF Report
<1>2. /\ PageTypes' /\ Due' = Due /\ Reports' /\ report \in BarReports
      /\ UNCHANGED <<barPage.position, barPage.behavior, barPage.size, barPage.inbox,
                     barPage.asked, barPage.asks, barPage.reported>>
  BY <1>1, LetterTaken
<1>3. report.edge \in Edge /\ report.edge # NoEdge /\ report.size \in {1, 2}
  <2>1. report.edge \in Edge /\ report.size \in {1, 2}
    BY <1>2 DEF BarReports
  <2> QED
    BY <2>1, BarDomains
<1>4. ASSUME BarTypes', LoopSame
      PROVE  /\ Chain' /\ IsTold' /\ (Unprepared' <=> Unprepared) /\ (AskComes => AskComes')
             /\ ~News' => /\ report.edge = barConfig.position /\ report.size = barPage.size
                          /\ barConfig.position = barPage.position
                          /\ barConfig.behavior = barPage.behavior /\ ~Unprepared
  <2>1. Chain' /\ IsTold' /\ (Unprepared' <=> Unprepared) /\ (AskComes => AskComes')
    BY <1>1, <1>2, <1>4, ChainStays, UnpreparedStays, AskStays
  <2>2. ASSUME ~News'
        PROVE  /\ report.edge = barConfig.position /\ report.size = barPage.size
               /\ barConfig.position = barPage.position
               /\ barConfig.behavior = barPage.behavior /\ ~Unprepared
    <3>1. /\ report = [edge |-> barConfig.position, behavior |-> barConfig.behavior, size |-> barPage.size]
          /\ barConfig.position = barPage.position
          /\ barConfig.behavior = barPage.behavior /\ ~Unprepared
      BY <1>1, <1>4, <2>2, LastReport
    <3> HIDE DEF report
    <3> QED
      BY <3>1
  <2> QED
    BY <2>1, <2>2
<1>5. CASE UNCHANGED <<bar, barWindow, barOps>> /\ barConfig.position # report.edge
  <2>1. WindowTypes' /\ UNCHANGED <<barWindow.offset, barWindow.space>>
    BY <1>5 DEF WindowTypes, BarTypes
  <2>2. BarTypes'
    BY <1>1, <1>2, <1>5, <2>1, LifeStays DEF BarTypes, WindowTypes
  <2>3. LoopSame
    BY <1>5 DEF LoopSame
  <2>4. Chain' /\ IsTold' /\ (Unprepared' <=> Unprepared) /\ (AskComes => AskComes') /\ News'
    BY <1>4, <1>5, <2>2, <2>3
  <2>5. Generations' /\ Relocates'
    BY <1>1, <1>5, <2>4, LifeStays, FewerGenerations, RelocatesStay
  <2>6. SpaceOwed' /\ FrameOwed' /\ RevealOwed' /\ OffsetOwed'
    BY <1>2, <1>5, <2>1, <2>4, LifeStays DEF SpaceOwed, FrameOwed, RevealOwed, OffsetOwed
  <2> QED
    BY <1>2, <2>2, <2>4, <2>5, <2>6
<1>6. ASSUME barConfig.position = report.edge, bar.relocation = report.edge,
             bar' = [bar EXCEPT !.frameGen = @ + 1], barWindow' = [barWindow EXCEPT !.opaque = FALSE],
             NEW next, IsBarOp(next), next.step = "place", next.gen = bar.frameGen + 1,
             next.config = barConfig, next.size = report.size, barOps' = barOps \cup {next}
      PROVE  BarInv'
  <2>1. WindowTypes' /\ UNCHANGED <<barWindow.offset, barWindow.space>>
    BY <1>6, WindowWith DEF WindowTypes
  <2>2. /\ LifeTypes' /\ Aim' = Aim /\ bar'.frameGen = bar.frameGen + 1
        /\ UNCHANGED <<bar.frame, bar.relocation, bar.motion, bar.offset, bar.revealed,
                       bar.reservation, bar.blind, bar.overruled>>
    BY <1>6, FrameGenLife
  <2>3. /\ \A p \in barOps' : p \in barOps \/ p = next
        /\ \A p \in barOps : p \in barOps'
        /\ next \in barOps' /\ \A p \in barOps' : p.step # "place" => p \in barOps
    BY <1>6
  <2>4. BarTypes'
    BY <1>1, <1>2, <1>6, <2>1, <2>2, <2>3 DEF BarTypes, WindowTypes
  <2>5. LoopSame
    BY <1>6, <2>3 DEF LoopSame, Late
  <2>6. /\ Chain' /\ IsTold' /\ (Unprepared' <=> Unprepared) /\ (AskComes => AskComes')
        /\ ~News' => /\ report.size = barPage.size /\ barConfig.position = barPage.position
                     /\ barConfig.behavior = barPage.behavior
    BY <1>4, <2>4, <2>5
  <2>7. bar.frameGen \in Nat /\ \A p \in barOps : Places(p) => p.gen \in Nat /\ p.gen <= bar.frameGen
    BY DEF BarTypes, LifeTypes, IsBarOp, Places, Generations
  <2>8. Generations'
    <3>1. \A p \in barOps' : Places(p) => p.gen <= bar'.frameGen
      BY <1>6, <2>2, <2>3, <2>7
    <3>2. \A p, q \in barOps' : p.step = "place" /\ q.step = "place" /\ p.gen = q.gen => p = q
      <4>1. \A p \in barOps : p.step = "place" => p.gen # next.gen
        BY <1>6, <2>7 DEF Places
      <4> QED
        BY <2>3, <4>1 DEF Generations
    <3>3. \A p, q \in barOps' : p.step = "claim" /\ q.step = "place" => p.gen < q.gen
      <4>1. \A p \in barOps : p.step = "claim" => p.gen < next.gen
        BY <1>6, <2>7 DEF Places
      <4> QED
        BY <2>3, <4>1 DEF Generations
    <3>4. bar'.relocation # NoEdge
      BY <1>3, <1>6, <2>2
    <3> QED
      BY <2>2, <2>3, <3>1, <3>2, <3>3, <3>4 DEF Generations
  <2>9. Relocates'
    <3>1. \A p \in barOps' : Places(p) /\ p.gen = bar'.frameGen => p.config.position = barConfig.position
      BY <1>6, <2>2, <2>3, <2>7
    <3>2. bar'.relocation = barConfig'.position /\ barConfig' = barConfig
      BY <1>1, <1>6, <2>2
    <3> QED
      BY <3>1, <3>2 DEF Relocates, Places
  <2>10. ~News' => SpaceFits'
    <3> SUFFICES ASSUME ~News' PROVE SpaceFits'
      OBVIOUS
    <3>1. Reserved(next.config.behavior, next.config.position, next.size) = Due'
      BY <1>2, <1>6, <2>6 DEF Due
    <3>2. \A other \in barOps' : other.step = "place" => other.gen <= next.gen
      BY <1>6, <2>3, <2>7 DEF Places
    <3> QED
      BY <1>6, <2>3, <3>1, <3>2 DEF SpaceFits
  <2>11. SpaceOwed' /\ FrameOwed'
    BY <1>6, <2>3, <2>10 DEF SpaceOwed, FrameOwed
  <2>12. RevealOwed' /\ OffsetOwed'
    BY <1>2, <2>1, <2>2, <2>3, <2>6 DEF RevealOwed, OffsetOwed
  <2> QED
    BY <1>2, <2>4, <2>6, <2>8, <2>9, <2>11, <2>12
<1>7. ASSUME barConfig.position = report.edge, bar.relocation # report.edge,
             NEW op, op.step = "place", op.gen = bar.frameGen + 1, Placed(barConfig, report.size, FALSE, op)
      PROVE  BarInv'
  <2> DEFINE frame   == [edge |-> barConfig.position, on |-> bar.monitor, size |-> report.size]
             changed == frame # bar.frame
             aim     == Target(barConfig.behavior, bar.revealed)
             blind   == barConfig.behavior # barConfig.behavior
             space   == Reserved(barConfig.behavior, barConfig.position, report.size)
  <2>1. /\ LifeTypes' /\ bar'.frame = frame /\ bar'.reservation = bar.reservation + 1
        /\ UNCHANGED <<bar.relocation, bar.frameGen, bar.revealed, bar.overruled>>
        /\ bar'.motion = IF changed THEN bar.motion + 1 ELSE bar.motion
        /\ bar'.offset = IF changed THEN aim ELSE bar.offset
        /\ bar'.blind = IF changed THEN barConfig.behavior # barConfig.behavior ELSE bar.blind
        /\ barWindow' = [opaque |-> barWindow.opaque, at |-> frame, space |-> barWindow.space,
                         offset |-> IF changed THEN aim ELSE barWindow.offset]
        /\ \E next : /\ IsBarOp(next) /\ next.step = "settle" /\ next.gen = bar.reservation + 1
                     /\ next.space = space /\ barOps' = (barOps \ {op}) \cup {next}
    BY <1>3, <1>7, PlacedAtOnce
  <2>2. PICK next : /\ IsBarOp(next) /\ next.step = "settle" /\ next.gen = bar.reservation + 1
                    /\ next.space = space /\ barOps' = (barOps \ {op}) \cup {next}
    BY <2>1
  <2>3. /\ changed \in BOOLEAN /\ blind \in BOOLEAN /\ (blind = (barConfig.behavior # barConfig.behavior))
        /\ ~changed => frame = bar.frame
    OBVIOUS
  <2>4. /\ changed => bar'.motion = bar.motion + 1 /\ bar'.offset = aim /\ barWindow'.offset = aim
                      /\ bar'.blind = blind
        /\ ~changed => bar'.motion = bar.motion /\ bar'.offset = bar.offset
                       /\ barWindow'.offset = barWindow.offset /\ bar'.blind = bar.blind
        /\ barWindow'.space = barWindow.space /\ WindowTypes'
    <3>1. ASSUME NEW v, barWindow' = [opaque |-> barWindow.opaque, at |-> frame,
                                      space |-> barWindow.space, offset |-> v]
          PROVE  barWindow'.offset = v /\ barWindow'.space = barWindow.space /\ WindowTypes'
      <4> HIDE DEF frame
      <4> QED
        BY <3>1 DEF WindowTypes
    <3>2. CASE changed
      BY <2>1, <3>1, <3>2
    <3>3. CASE ~changed
      BY <2>1, <3>1, <3>3
    <3> QED
      BY <3>2, <3>3
  <2>5. frame # Unplaced
    BY <1>3, <1>7 DEF Unplaced
  <2> HIDE DEF frame, changed, aim, space, blind
  <2>6. op \notin barOps
    <3>1. bar.frameGen \in Nat /\ \A p \in barOps : Places(p) => p.gen \in Nat /\ p.gen <= bar.frameGen
      BY DEF BarTypes, LifeTypes, IsBarOp, Places, Generations
    <3> QED
      BY <1>7, <3>1 DEF Places
  <2>7. /\ \A p \in barOps' : p \in barOps \/ p = next
        /\ \A p \in barOps : p \in barOps'
        /\ next \in barOps' /\ \A p \in barOps' : p.step # "settle" => p \in barOps
        /\ \A p \in barOps' : IsBarOp(p)
    BY <2>2, <2>6 DEF BarTypes
  <2>8. BarTypes'
    BY <1>1, <1>2, <2>1, <2>4, <2>7 DEF BarTypes, WindowTypes
  <2>9. LoopSame
    BY <2>2, <2>7 DEF LoopSame, Late
  <2>10. /\ Chain' /\ IsTold' /\ (Unprepared' <=> Unprepared) /\ (AskComes => AskComes')
         /\ ~News' => /\ report.size = barPage.size /\ barConfig.position = barPage.position
                      /\ barConfig.behavior = barPage.behavior /\ ~Unprepared
    BY <1>4, <2>8, <2>9
  <2>11. bar.reservation \in Nat /\ \A p \in barOps : p.step = "settle" => p.gen \in Nat /\ p.gen <= bar.reservation
    BY DEF BarTypes, LifeTypes, IsBarOp, Generations
  <2>12. Generations'
    <3>1. \A p \in barOps' : Places(p) => p.gen <= bar'.frameGen
      BY <2>1, <2>7 DEF Generations, Places
    <3>2. /\ \A p, q \in barOps' : p.step = "place" /\ q.step = "place" /\ p.gen = q.gen => p = q
          /\ \A p, q \in barOps' : p.step = "claim" /\ q.step = "place" => p.gen < q.gen
          /\ \A p \in barOps' : p.step = "place" => bar'.relocation # NoEdge
      BY <2>1, <2>7 DEF Generations
    <3>3. \A p \in barOps' : p.step = "settle" => p.gen <= bar'.reservation
      BY <2>1, <2>2, <2>7, <2>11
    <3>4. \A p, q \in barOps' : p.step = "settle" /\ q.step = "settle" /\ p.gen = q.gen => p = q
      <4>1. \A p \in barOps : p.step = "settle" => p.gen # next.gen
        BY <2>2, <2>11
      <4> QED
        BY <2>7, <4>1 DEF Generations
    <3>5. \A p \in barOps' : p.step = "glide" =>
              p.gen <= bar'.motion /\ (p.gen = bar'.motion => p.target = Aim')
      <4>1. bar.motion \in Nat /\ \A p \in barOps : p.step = "glide" => p.gen \in Nat
        BY DEF BarTypes, LifeTypes, IsBarOp
      <4>2. Aim' = Aim
        BY <2>1 DEF Aim
      <4>3. CASE changed
        BY <2>4, <2>7, <4>1, <4>3 DEF Generations
      <4>4. CASE ~changed
        BY <2>4, <2>7, <4>2, <4>4 DEF Generations
      <4> QED
        BY <4>3, <4>4
    <3> QED
      BY <3>1, <3>2, <3>3, <3>4, <3>5 DEF Generations
  <2>13. Relocates'
    <3>1. \A p \in barOps' : Places(p) => p \in barOps
      BY <2>7 DEF Places
    <3> QED
      BY <1>1, <2>1, <2>10, <3>1, RelocatesStay
  <2>14. SpaceOwed'
    <3> SUFFICES ASSUME ~News', ~bar'.overruled PROVE SpaceFits'
      BY DEF SpaceOwed
    <3>1. bar.relocation = NoEdge
      BY <1>7, <2>1, <2>10 DEF Relocates
    <3>2. \A p \in barOps' : p.step # "place"
      BY <2>7, <3>1 DEF Generations
    <3>3. next.space = Due' /\ next.gen = bar'.reservation
      BY <1>2, <2>1, <2>2, <2>10 DEF Due, space
    <3> QED
      BY <2>2, <2>7, <3>2, <3>3 DEF SpaceFits
  <2>15. FrameOwed' /\ RevealOwed'
    BY <1>2, <2>1, <2>5, <2>10 DEF FrameOwed, RevealOwed
  <2>16. OffsetOwed'
    <3>1. Aim' = Aim
      BY <2>1 DEF Aim
    <3>2. barWindow'.offset = bar'.offset
      BY <2>3, <2>4 DEF OffsetOwed
    <3>3. CASE changed
      <4>1. aim = Aim \/ AskComes \/ (blind /\ aim = "shown")
        BY <2>3, MovedAsAsked DEF aim
      <4> QED
        BY <2>4, <2>10, <3>1, <3>2, <3>3, <4>1 DEF OffsetOwed
    <3>4. CASE ~changed
      <4>1. bar.frame # Unplaced
        BY <2>3, <2>5, <3>4
      <4> QED
        BY <2>1, <2>4, <2>7, <2>10, <3>1, <3>2, <3>4, <4>1 DEF OffsetOwed
    <3> QED
      BY <2>3, <3>3, <3>4
  <2> QED
    BY <1>2, <2>8, <2>10, <2>12, <2>13, <2>14, <2>15, <2>16
<1> QED
  BY <1>5, <1>6, <1>7, ReportOps

--------------------------------------------------------------------------------
\* The steps of the loop and of the page leave what a report set in motion alone.

LEMMA LoopStep ==
  ASSUME BarInv, BarTypes', Reports', Chain', IsTold', Relocates', LateSame,
         UNCHANGED <<bar.revealed, bar.reservation, bar.offset, bar.overruled, barWindow.offset>>,
         \/ UNCHANGED <<bar.frame, bar.frameGen, bar.motion, bar.relocation, bar.blind>>
         \/ /\ bar'.frame = Unplaced /\ bar'.frameGen = bar.frameGen + 1 /\ bar'.motion = bar.motion + 1
            /\ bar'.relocation # NoEdge /\ News',
         News => News', AskComes => AskComes',
         UNCHANGED barWindow.space \/ News', UNCHANGED Due \/ News',
         UNCHANGED barPage.asked \/ AskComes'
  PROVE  BarInv'
<1> USE DEF BarInv
<1>1. \A p \in barOps' : Late(p) => p \in barOps
  BY DEF LateSame
<1>2. \A p \in barOps : Late(p) => p \in barOps'
  BY DEF LateSame
<1>3. Aim' = Aim
  BY DEF Aim
<1>4. /\ bar.frameGen \in Nat /\ bar.motion \in Nat
      /\ \A p \in barOps : Places(p) \/ p.step = "glide" => p.gen \in Nat
  BY DEF BarTypes, LifeTypes, IsBarOp, Places
<1>5. Generations'
  <2>1. \A p \in barOps' : Places(p) => p.gen <= bar'.frameGen
    <3>1. \A p \in barOps' : Places(p) => p \in barOps /\ p.gen <= bar.frameGen
      BY <1>1 DEF Generations, Places, Late
    <3>2. bar'.frameGen = bar.frameGen \/ bar'.frameGen = bar.frameGen + 1
      OBVIOUS
    <3> QED
      BY <1>4, <3>1, <3>2
  <2>2. /\ \A p, q \in barOps' : p.step = "place" /\ q.step = "place" /\ p.gen = q.gen => p = q
        /\ \A p, q \in barOps' : p.step = "claim" /\ q.step = "place" => p.gen < q.gen
    BY <1>1 DEF Generations, Late
  <2>3. \A p \in barOps' : p.step = "place" => bar'.relocation # NoEdge
    BY <1>1 DEF Generations, Late
  <2>4. /\ \A p \in barOps' : p.step = "settle" => p.gen <= bar'.reservation
        /\ \A p, q \in barOps' : p.step = "settle" /\ q.step = "settle" /\ p.gen = q.gen => p = q
    BY <1>1 DEF Generations, Late
  <2>5. \A p \in barOps' : p.step = "glide" =>
            p.gen <= bar'.motion /\ (p.gen = bar'.motion => p.target = Aim')
    <3>1. \A p \in barOps' : p.step = "glide" =>
              p \in barOps /\ p.gen <= bar.motion /\ (p.gen = bar.motion => p.target = Aim)
      BY <1>1 DEF Generations, Late
    <3>2. bar'.motion = bar.motion \/ bar'.motion = bar.motion + 1
      OBVIOUS
    <3> QED
      BY <1>3, <1>4, <3>1, <3>2
  <2> QED
    BY <2>1, <2>2, <2>3, <2>4, <2>5 DEF Generations
<1>6. SpaceOwed'
  <2> SUFFICES ASSUME ~News', ~bar'.overruled PROVE SpaceFits'
    BY DEF SpaceOwed
  <2>1. /\ SpaceFits /\ Due' = Due /\ barWindow'.space = barWindow.space
        /\ bar'.reservation = bar.reservation
    BY DEF SpaceOwed
  <2>2. /\ \A p \in barOps' : p.step \in {"place", "settle"} => p \in barOps
        /\ \A p \in barOps : p.step \in {"place", "settle"} => p \in barOps'
    BY <1>1, <1>2 DEF Late
  <2> QED
    BY <2>1, <2>2 DEF SpaceFits
<1>7. FrameOwed'
  <2>1. \A p \in barOps : p.step = "place" => p \in barOps'
    BY <1>2 DEF Late
  <2> QED
    BY <2>1 DEF FrameOwed
<1>8. RevealOwed'
  BY DEF RevealOwed
<1>9. OffsetOwed'
  <2>1. \A p \in barOps : p.step = "glide" => p \in barOps'
    BY <1>2 DEF Late
  <2> QED
    BY <1>3, <2>1 DEF OffsetOwed
<1> QED
  BY <1>5, <1>6, <1>7, <1>8, <1>9

LEMMA LoopRelocates ==
  ASSUME Relocates, LateSame, Unprepared => Unprepared', barConfig'.position = barConfig.position,
         UNCHANGED <<bar.relocation, bar.frameGen, bar.overruled>>
  PROVE  Relocates'
<1>1. \A op \in barOps' : Places(op) => op \in barOps
  BY DEF LateSame, Late, Places
<1> QED
  BY <1>1, RelocatesStay

LEMMA PreparedRelocates ==
  ASSUME BarInv, LateSame, bar'.relocation = barConfig'.position \/ Unprepared',
         bar'.frameGen = bar.frameGen + 1
  PROVE  Relocates'
<1>1. bar.frameGen \in Nat /\ \A p \in barOps : Places(p) => p.gen \in Nat /\ p.gen <= bar.frameGen
  BY DEF BarInv, BarTypes, LifeTypes, IsBarOp, Places, Generations
<1>2. \A p \in barOps' : Places(p) => p \in barOps
  BY DEF LateSame, Late, Places
<1>3. \A p \in barOps' : Places(p) => p.gen # bar'.frameGen
  BY <1>1, <1>2
<1> QED
  BY <1>3 DEF Relocates, Places

\* What is in hand stays in hand, in another operation perhaps.
HandsStay ==
    /\ \A p : InHand(p)' => \E q : InHand(q) /\ q.after = p.after
    /\ \A q : InHand(q) => \E p : InHand(p)' /\ p.after = q.after
    /\ \A p, q : InHand(p)' /\ InHand(q)' => p = q
    /\ \A p \in barOps' : p.step \in {"prepare", "edge"} =>
           p.after[1].old.position # p.after[1].new.position

LEMMA NoHand ==
  /\ (\A op \in barOps : op.after = <<>>) <=> ~\E p : InHand(p)
  /\ (\A op \in barOps' : op.after = <<>>) <=> ~\E p : InHand(p)'
  BY DEF InHand

LEMMA HandsComes ==
  ASSUME HandsStay, UNCHANGED <<changes, barPage.inbox>>
  PROVE  \A l : Comes(l)' <=> Comes(l)
<1>1. ASSUME NEW l
      PROVE  (\E op \in barOps' : InHand(op)' /\ l = LayoutOf(op.after[1].new)) <=>
             (\E op \in barOps : InHand(op) /\ l = LayoutOf(op.after[1].new))
  BY DEF HandsStay, InHand
<1> QED
  BY <1>1 DEF Comes, LayoutOf

LEMMA HandsChain ==
  ASSUME Chain, HandsStay, UNCHANGED <<barConfig, changes>>
  PROVE  Chain'
<1>1. FirstConfig' = FirstConfig
  BY DEF FirstConfig
<1>2. \A op \in barOps' : InHand(op)' => op.after[1].new = FirstConfig'
  BY <1>1 DEF Chain, HandsStay, InHand
<1>3. \A op, other \in barOps' : InHand(op)' /\ InHand(other)' => op = other
  BY DEF HandsStay
<1>4. \A op \in barOps' : op.step \in {"prepare", "edge"} =>
          op.after[1].old.position # op.after[1].new.position
  BY DEF HandsStay
<1> QED
  BY <1>2, <1>3, <1>4 DEF Chain

LEMMA HandsTold ==
  ASSUME IsTold, HandsStay, UNCHANGED <<barConfig, changes>>,
         \A l : ToldLast(l) => ToldLast(l)'
  PROVE  IsTold'
<1>1. FirstConfig' = FirstConfig
  BY DEF FirstConfig
<1>2. (\A op \in barOps : op.after = <<>>)' => ToldLast(LayoutOf(FirstConfig))'
  <2> SUFFICES ASSUME (\A op \in barOps : op.after = <<>>)' PROVE ToldLast(LayoutOf(FirstConfig))'
    OBVIOUS
  <2>1. \A op \in barOps : op.after = <<>>
    BY NoHand DEF HandsStay
  <2>2. ToldLast(LayoutOf(FirstConfig))
    BY <2>1 DEF IsTold
  <2>3. LayoutOf(FirstConfig)' = LayoutOf(FirstConfig)
    BY <1>1 DEF LayoutOf
  <2> QED
    BY <2>2, <2>3
<1>3. \A op \in barOps' : InHand(op)' => ToldLast(LayoutOf(op.after[1].old))'
  <2> SUFFICES ASSUME NEW op \in barOps', InHand(op)'
               PROVE  ToldLast(LayoutOf(op.after[1].old))'
    OBVIOUS
  <2>1. PICK q : InHand(q) /\ q.after = op.after
    BY DEF HandsStay
  <2>2. ToldLast(LayoutOf(q.after[1].old))
    BY <2>1 DEF IsTold, InHand
  <2> QED
    BY <2>1, <2>2
<1> QED
  BY <1>2, <1>3 DEF IsTold

LEMMA AheadFacts ==
  ASSUME NEW op, NEW next, IsBarOp(next), next.step \in {"relocate", Ahead(op)}, next.after = op.after
  PROVE  /\ next.step \in {"relocate", "prepare", "layout"} /\ ~Late(next)
         /\ next.step = "prepare" => op.after[1].old.position # op.after[1].new.position
         /\ op.after # <<>> /\ op.after[1].old.position # op.after[1].new.position =>
                next.step \in {"relocate", "prepare"}
<1>1. Ahead(op) \in {"end", "prepare", "layout"}
  BY DEF Ahead, AfterMonitor
<1>2. next.step # "end"
  BY DEF IsBarOp
<1>3. next.step \in {"relocate", "prepare", "layout"}
  BY <1>1, <1>2
<1>4. ~Late(next)
  BY <1>3 DEF Late
<1>5. Ahead(op) = "prepare" => op.after[1].old.position # op.after[1].new.position
  BY DEF Ahead, AfterMonitor
<1>6. op.after # <<>> /\ op.after[1].old.position # op.after[1].new.position => Ahead(op) = "prepare"
  BY DEF Ahead, AfterMonitor
<1> QED
  BY <1>3, <1>4, <1>5, <1>6

LEMMA PassKeepsHands ==
  ASSUME BarInv, NEW op \in barOps, ~Late(op), NEW next, IsBarOp(next), ~Late(next),
         barOps' = (barOps \ {op}) \cup {next}, next.after = op.after,
         next.step \in {"prepare", "edge"} => op.after[1].old.position # op.after[1].new.position
  PROVE  /\ HandsStay /\ LateSame /\ \A p \in barOps' : IsBarOp(p)
         /\ op.step # "move" => ((\E p \in barOps : p.step = "move") => \E p \in barOps' : p.step = "move")
         /\ /\ op.step \in {"relocate", "prepare"} /\ op.after # <<>>
               /\ op.after[1].old.position # op.after[1].new.position => next.step \in {"relocate", "prepare"}
            /\ UNCHANGED changes /\ Unprepared
            => Unprepared'
<1> USE DEF BarInv
<1>1. /\ \A p \in barOps' : (p \in barOps /\ p # op) \/ p = next
      /\ \A p \in barOps : p \in barOps' \/ p = op
      /\ next \in barOps'
  OBVIOUS
<1>2. \A p \in barOps' : IsBarOp(p)
  BY <1>1 DEF BarTypes
<1>3. LateSame
  BY <1>1 DEF LateSame
<1>4. HandsStay
  <2>1. \A p : InHand(p)' => \E q : InHand(q) /\ q.after = p.after
    BY <1>1 DEF InHand
  <2>2. \A q : InHand(q) => \E p : InHand(p)' /\ p.after = q.after
    BY <1>1 DEF InHand
  <2>3. \A p, q : InHand(p)' /\ InHand(q)' => p = q
    <3>1. \A p, q : InHand(p) /\ InHand(q) => p = q
      BY DEF Chain, InHand
    <3>2. \A p : InHand(p)' => p = next \/ (InHand(p) /\ p # op)
      BY <1>1 DEF InHand
    <3>3. InHand(next)' => InHand(op)
      BY DEF InHand
    <3> QED
      BY <3>1, <3>2, <3>3
  <2>4. \A p \in barOps' : p.step \in {"prepare", "edge"} =>
            p.after[1].old.position # p.after[1].new.position
    BY <1>1 DEF Chain
  <2> QED
    BY <2>1, <2>2, <2>3, <2>4 DEF HandsStay
<1>5. op.step # "move" => ((\E p \in barOps : p.step = "move") => \E p \in barOps' : p.step = "move")
  BY <1>1
<1>6. ASSUME /\ op.step \in {"relocate", "prepare"} /\ op.after # <<>>
                /\ op.after[1].old.position # op.after[1].new.position => next.step \in {"relocate", "prepare"},
             UNCHANGED changes, Unprepared
      PROVE  Unprepared'
  <2>1. CASE \E i \in 1..Len(changes) : changes[i].old.position # changes[i].new.position
    BY <1>6, <2>1 DEF Unprepared
  <2>2. CASE \E q \in barOps : /\ InHand(q) /\ q.step \in {"relocate", "prepare"}
                               /\ q.after[1].old.position # q.after[1].new.position
    <3>1. PICK q \in barOps : /\ q.after # <<>> /\ q.step \in {"relocate", "prepare"}
                              /\ q.after[1].old.position # q.after[1].new.position
      BY <2>2 DEF InHand
    <3>2. \E p \in barOps' : /\ p.after # <<>> /\ p.step \in {"relocate", "prepare"}
                             /\ p.after[1].old.position # p.after[1].new.position
      <4>1. CASE q = op
        BY <1>1, <1>6, <3>1, <4>1
      <4>2. CASE q # op
        BY <1>1, <3>1, <4>2
      <4> QED
        BY <4>1, <4>2
    <3> QED
      BY <3>2 DEF Unprepared, InHand
  <2> QED
    BY <1>6, <2>1, <2>2 DEF Unprepared
<1> QED
  BY <1>2, <1>3, <1>4, <1>5, <1>6

LEMMA EndKeepsHands ==
  ASSUME BarInv, NEW op, op.after = <<>>, ~Late(op), NEW gone, NEW come, gone \subseteq {op}, come \subseteq {op},
         IsBarOp(op), op.step # "move", barOps' = (barOps \ gone) \cup come
  PROVE  /\ HandsStay /\ LateSame /\ \A p \in barOps' : IsBarOp(p)
         /\ (\E p \in barOps : p.step = "move") => \E p \in barOps' : p.step = "move"
         /\ UNCHANGED changes => (Unprepared => Unprepared')
<1> USE DEF BarInv
<1>1. /\ \A p \in barOps' : p \in barOps \/ p = op
      /\ \A p \in barOps : p \in barOps' \/ p = op
  OBVIOUS
<1>2. \A p : InHand(p)' <=> InHand(p)
  BY <1>1 DEF InHand
<1>3. HandsStay
  <2>1. \A p \in barOps' : p.step \in {"prepare", "edge"} => p \in barOps
    <3>1. op.step \notin {"prepare", "edge"}
      <4>1. <<>> \notin Handled
        BY OneLong DEF Handled
      <4> QED
        BY <4>1 DEF IsBarOp
    <3> QED
      BY <1>1, <3>1
  <2>2. \A p, q : InHand(p) /\ InHand(q) => p = q
    BY DEF Chain, InHand
  <2>3. \A p \in barOps' : p.step \in {"prepare", "edge"} =>
            p.after[1].old.position # p.after[1].new.position
    BY <2>1 DEF Chain
  <2> QED
    BY <1>2, <2>2, <2>3 DEF HandsStay
<1>4. LateSame
  BY <1>1 DEF LateSame
<1>5. \A p \in barOps' : IsBarOp(p)
  BY <1>1 DEF BarTypes
<1>6. (\E p \in barOps : p.step = "move") => \E p \in barOps' : p.step = "move"
  BY <1>1
<1>7. UNCHANGED changes => (Unprepared => Unprepared')
  BY <1>2 DEF Unprepared, InHand
<1> QED
  BY <1>3, <1>4, <1>5, <1>6, <1>7

\* The watcher and the loop pass on what they have in hand.
LEMMA PassedKeeps ==
  ASSUME BarInv, NEW op \in barOps, ~Late(op), op.step # "move", IsBarOp(op), UNCHANGED changes,
         PassesTo(op, {"relocate", Ahead(op)})
  PROVE  /\ HandsStay /\ LateSame /\ \A p \in barOps' : IsBarOp(p)
         /\ (\E p \in barOps : p.step = "move") => \E p \in barOps' : p.step = "move"
         /\ Unprepared => Unprepared'
<1>1. CASE op.after = <<>> /\ barOps' = barOps \ {op}
  <2> DEFINE gone == {op}
             come == {}
  <2>1. barOps' = (barOps \ gone) \cup come /\ gone \subseteq {op} /\ come \subseteq {op}
    BY <1>1
  <2> HIDE DEF gone, come
  <2> QED
    BY <1>1, <2>1, EndKeepsHands
<1>2. CASE \E next : /\ IsBarOp(next) /\ next.step \in {"relocate", Ahead(op)} /\ next.after = op.after
                     /\ barOps' = (barOps \ {op}) \cup {next}
  <2>1. PICK next : /\ IsBarOp(next) /\ next.step \in {"relocate", Ahead(op)} /\ next.after = op.after
                    /\ barOps' = (barOps \ {op}) \cup {next}
    BY <1>2
  <2>2. /\ next.step \in {"relocate", "prepare", "layout"} /\ ~Late(next)
        /\ next.step = "prepare" => op.after[1].old.position # op.after[1].new.position
        /\ op.after # <<>> /\ op.after[1].old.position # op.after[1].new.position =>
               next.step \in {"relocate", "prepare"}
    BY <2>1, AheadFacts
  <2> QED
    BY <2>1, <2>2, PassKeepsHands
<1> QED
  BY <1>1, <1>2 DEF PassesTo

LEMMA QuietPasses ==
  ASSUME BarInv, BarTypes', HandsStay, LateSame, UNCHANGED <<barConfig, changes, barPage>>,
         Unprepared => Unprepared',
         (\E p \in barOps : p.step = "move") => \E p \in barOps' : p.step = "move",
         UNCHANGED <<bar.frame, bar.relocation, bar.frameGen, bar.motion, bar.offset, bar.revealed,
                     bar.reservation, bar.blind, bar.overruled>>,
         UNCHANGED <<barWindow.offset, barWindow.space>>
  PROVE  BarInv'
<1> USE DEF BarInv
<1>1. /\ Reports' /\ Due' = Due
      /\ UNCHANGED <<barPage.inbox, barPage.sent, barPage.asks, barPage.asked, barPage.position,
                     barPage.behavior, barPage.size>>
  BY PageStays
<1>2. \A l : Comes(l)' <=> Comes(l)
  BY <1>1, HandsComes
<1>3. \A l : ToldLast(l)' <=> ToldLast(l)
  BY <1>1 DEF ToldLast, Shown, LayoutOf
<1>4. Chain' /\ IsTold'
  BY <1>3, HandsChain, HandsTold
<1>5. (News => News') /\ (AskComes => AskComes')
  <2>1. Shown' = Shown
    BY <1>1 DEF Shown, LayoutOf
  <2> QED
    BY <1>1, <1>2, <2>1 DEF News, AskComes
<1>6. Relocates'
  BY LoopRelocates
<1> QED
  BY <1>1, <1>4, <1>5, <1>6, LoopStep

LEMMA ReconcileKeeps ==
  ASSUME BarInv, NEW op \in barOps, Reconcile(op)
  PROVE  BarInv'
<1> USE DEF BarInv
<1>1. /\ PassesTo(op, {"relocate", Ahead(op)}) /\ UNCHANGED <<barConfig, changes, barPage>>
      /\ bar' = [bar EXCEPT !.displays = op.displays] \/ bar' = bar
      /\ barWindow' = [barWindow EXCEPT !.opaque = FALSE] \/ barWindow' = barWindow
  BY ReconcilePasses
<1>2. op.step = "reconcile" /\ ~Late(op) /\ IsBarOp(op)
  BY DEF Reconcile, Late, BarTypes
<1>3. /\ HandsStay /\ LateSame /\ \A p \in barOps' : IsBarOp(p)
      /\ (\E p \in barOps : p.step = "move") => \E p \in barOps' : p.step = "move"
      /\ Unprepared => Unprepared'
  BY <1>1, <1>2, PassedKeeps
<1>4. /\ LifeTypes'
      /\ UNCHANGED <<bar.frame, bar.relocation, bar.frameGen, bar.motion, bar.offset, bar.revealed,
                     bar.reservation, bar.blind, bar.overruled>>
  BY <1>1, DisplaysLife
<1>5. WindowTypes' /\ UNCHANGED <<barWindow.offset, barWindow.space>>
  BY <1>1, WindowWith DEF WindowTypes, BarTypes
<1>6. BarTypes'
  BY <1>1, <1>3, <1>4, <1>5, PageStays DEF BarTypes, WindowTypes
<1> QED
  BY <1>1, <1>3, <1>4, <1>5, <1>6, QuietPasses

LEMMA StaysKeeps ==
  ASSUME BarInv, NEW op \in barOps, MonitorStays(op)
  PROVE  BarInv'
<1> USE DEF BarInv
<1>1. /\ PassesTo(op, {"relocate", Ahead(op)}) /\ UNCHANGED <<barConfig, changes, barPage, bar>>
      /\ barWindow' = [barWindow EXCEPT !.opaque = TRUE]
  BY StaysPasses
<1>2. op.step = "relocate" /\ ~Late(op) /\ IsBarOp(op)
  BY DEF MonitorStays, Late, BarTypes
<1>3. /\ HandsStay /\ LateSame /\ \A p \in barOps' : IsBarOp(p)
      /\ (\E p \in barOps : p.step = "move") => \E p \in barOps' : p.step = "move"
      /\ Unprepared => Unprepared'
  BY <1>1, <1>2, PassedKeeps
<1>4. /\ LifeTypes'
      /\ UNCHANGED <<bar.frame, bar.relocation, bar.frameGen, bar.motion, bar.offset, bar.revealed,
                     bar.reservation, bar.blind, bar.overruled>>
  BY <1>1, LifeStays
<1>5. WindowTypes' /\ UNCHANGED <<barWindow.offset, barWindow.space>>
  BY <1>1, WindowWith DEF WindowTypes
<1>6. BarTypes'
  BY <1>1, <1>3, <1>4, <1>5, PageStays DEF BarTypes, WindowTypes
<1> QED
  BY <1>1, <1>3, <1>4, <1>5, <1>6, QuietPasses

LEMMA PlugKeeps ==
  ASSUME BarInv, Plug
  PROVE  BarInv'
<1> USE DEF BarInv
<1>1. PICK displays : barOps' = barOps \cup {[step |-> "reconcile", displays |-> displays, after |-> <<>>]}
  BY DEF Plug
<1>2. UNCHANGED <<barConfig, changes, bar, barWindow, barPage>>
  BY DEF Plug
<1> DEFINE op == [step |-> "reconcile", displays |-> displays, after |-> <<>>]
<1>3. /\ op.step = "reconcile" /\ op.after = <<>>
      /\ op = [step |-> op.step, displays |-> op.displays, after |-> op.after]
      /\ barOps' = (barOps \ {}) \cup {op}
  BY <1>1
<1> HIDE DEF op
<1>4. IsBarOp(op) /\ ~Late(op) /\ op.step # "move"
  BY <1>3 DEF IsBarOp, Late
<1>5. /\ HandsStay /\ LateSame /\ \A p \in barOps' : IsBarOp(p)
      /\ (\E p \in barOps : p.step = "move") => \E p \in barOps' : p.step = "move"
      /\ Unprepared => Unprepared'
  BY <1>2, <1>3, <1>4, EndKeepsHands
<1>6. /\ LifeTypes'
      /\ UNCHANGED <<bar.frame, bar.relocation, bar.frameGen, bar.motion, bar.offset, bar.revealed,
                     bar.reservation, bar.blind, bar.overruled>>
  BY <1>2, LifeStays
<1>7. WindowTypes' /\ UNCHANGED <<barWindow.offset, barWindow.space>>
  BY <1>2 DEF WindowTypes, BarTypes
<1>8. BarTypes'
  BY <1>2, <1>5, <1>6, <1>7, PageStays DEF BarTypes, WindowTypes
<1> QED
  BY <1>2, <1>5, <1>6, <1>7, <1>8, QuietPasses

LEMMA PrepareMonitorKeeps ==
  ASSUME BarInv, NEW op \in barOps, PrepareMonitor(op)
  PROVE  BarInv'
<1> USE DEF BarInv
<1>1. PICK next : /\ IsBarOp(next) /\ next.step = "move" /\ next.after = op.after
                  /\ barOps' = (barOps \ {op}) \cup {next}
  BY PrepareMonitorPasses
<1>2. /\ op.step = "relocate" /\ Prepares(barConfig.position)
      /\ UNCHANGED <<barConfig, changes, barWindow, barPage>>
  BY DEF PrepareMonitor
<1>3. ~Late(op) /\ ~Late(next) /\ next \in barOps'
  BY <1>1, <1>2 DEF Late
<1>4. HandsStay /\ LateSame /\ \A p \in barOps' : IsBarOp(p)
  BY <1>1, <1>3, PassKeepsHands
<1>5. /\ LifeTypes' /\ bar'.frame = Unplaced /\ bar'.relocation = barConfig.position
      /\ bar'.frameGen = bar.frameGen + 1 /\ bar'.motion = bar.motion + 1
      /\ UNCHANGED <<bar.offset, bar.revealed, bar.reservation, bar.overruled>>
  BY <1>2, PreparesLife
<1>6. WindowTypes' /\ UNCHANGED <<barWindow.offset, barWindow.space>>
  BY <1>2 DEF WindowTypes, BarTypes
<1>7. /\ PageTypes' /\ Due' = Due /\ Reports'
      /\ UNCHANGED <<barPage.inbox, barPage.sent, barPage.asks, barPage.asked, barPage.position,
                     barPage.behavior, barPage.size>>
  BY <1>2, PageStays
<1>8. BarTypes'
  BY <1>2, <1>4, <1>5, <1>6, <1>7 DEF BarTypes, WindowTypes
<1>9. \A l : ToldLast(l)' <=> ToldLast(l)
  BY <1>7 DEF ToldLast, Shown, LayoutOf
<1>10. Chain' /\ IsTold'
  BY <1>2, <1>4, <1>9, HandsChain, HandsTold
<1>11. News' /\ (AskComes => AskComes')
  <2>1. \A l : Comes(l)' <=> Comes(l)
    BY <1>2, <1>4, <1>7, HandsComes
  <2> QED
    BY <1>1, <1>3, <1>7, <2>1 DEF News, AskComes
<1>12. Relocates'
  BY <1>2, <1>4, <1>5, PreparedRelocates
<1>13. bar'.relocation # NoEdge
  BY <1>5, BarDomains DEF BarTypes, BarConfigs
<1> QED
  BY <1>4, <1>5, <1>6, <1>7, <1>8, <1>10, <1>11, <1>12, <1>13, LoopStep

LEMMA PrepareEdgeKeeps ==
  ASSUME BarInv, NEW op \in barOps, PrepareEdge(op)
  PROVE  BarInv'
<1> USE DEF BarInv
<1>1. PICK next : /\ IsBarOp(next) /\ next.step = "edge" /\ next.after = op.after
                  /\ barOps' = (barOps \ {op}) \cup {next}
  BY PrepareEdgePasses
<1>2. /\ op.step = "prepare" /\ Prepares(op.after[1].new.position)
      /\ UNCHANGED <<barConfig, changes, barWindow, barPage>>
  BY DEF PrepareEdge
<1>3. /\ ~Late(op) /\ ~Late(next) /\ next \in barOps'
      /\ op.after[1].old.position # op.after[1].new.position
  BY <1>1, <1>2 DEF Late, Chain
<1>4. HandsStay /\ LateSame /\ \A p \in barOps' : IsBarOp(p)
  BY <1>1, <1>3, PassKeepsHands
<1>5. /\ LifeTypes' /\ bar'.frame = Unplaced /\ bar'.relocation = op.after[1].new.position
      /\ bar'.frameGen = bar.frameGen + 1 /\ bar'.motion = bar.motion + 1
      /\ UNCHANGED <<bar.offset, bar.revealed, bar.reservation, bar.overruled>>
  BY <1>2, PreparesLife
<1>6. WindowTypes' /\ UNCHANGED <<barWindow.offset, barWindow.space>>
  BY <1>2 DEF WindowTypes, BarTypes
<1>7. /\ PageTypes' /\ Due' = Due /\ Reports'
      /\ UNCHANGED <<barPage.inbox, barPage.sent, barPage.asks, barPage.asked, barPage.position,
                     barPage.behavior, barPage.size>>
  BY <1>2, PageStays
<1>8. BarTypes'
  BY <1>2, <1>4, <1>5, <1>6, <1>7 DEF BarTypes, WindowTypes
<1>9. \A l : ToldLast(l)' <=> ToldLast(l)
  BY <1>7 DEF ToldLast, Shown, LayoutOf
<1>10. Chain' /\ IsTold'
  BY <1>2, <1>4, <1>9, HandsChain, HandsTold
<1>11. /\ InHand(op) /\ op.after[1].new \in BarConfigs
  <2>1. op.after # <<>>
    <3>1. op.after \in Handled
      BY <1>2 DEF BarTypes, IsBarOp
    <3> QED
      BY <3>1, OneLong DEF Handled
  <2> QED
    BY <2>1, HandFacts DEF InHand, BarTypes
<1>12. News' /\ (AskComes => AskComes')
  <2>1. \A l : Comes(l)' <=> Comes(l)
    BY <1>2, <1>4, <1>7, HandsComes
  <2>2. ~NothingNew
    <3> SUFFICES ASSUME NothingNew PROVE FALSE
      OBVIOUS
    <3>1. LayoutOf(op.after[1].old) = LayoutOf(op.after[1].new)
      BY <1>11, Agreement
    <3> QED
      BY <1>3, <3>1 DEF LayoutOf
  <2>3. Shown' = Shown
    BY <1>7 DEF Shown, LayoutOf
  <2> QED
    BY <1>7, <2>1, <2>2, <2>3 DEF News, NothingNew, AskComes
<1>13. bar'.relocation = barConfig'.position \/ Unprepared'
  <2>1. op.after[1].new = FirstConfig
    BY <1>11 DEF Chain
  <2>2. CASE changes = <<>>
    BY <1>2, <1>5, <2>1, <2>2 DEF FirstConfig
  <2>3. CASE changes # <<>>
    <3>1. 1 \in 1..Len(changes) /\ FirstConfig = changes[1].old
      BY <2>3, Shorter DEF BarTypes, FirstConfig
    <3>2. CASE \E i \in 1..Len(changes) : changes[i].old.position # changes[i].new.position
      BY <1>2, <3>2 DEF Unprepared
    <3>3. CASE ~\E i \in 1..Len(changes) : changes[i].old.position # changes[i].new.position
      <4>1. changes[1].old.position = changes[1].new.position /\ changes[1].new.position = barConfig.position
        BY <3>1, <3>3 DEF Chain
      <4> QED
        BY <1>2, <1>5, <2>1, <3>1, <4>1
    <3> QED
      BY <3>2, <3>3
  <2> QED
    BY <2>2, <2>3
<1>14. Relocates'
  BY <1>4, <1>5, <1>13, PreparedRelocates
<1>15. bar'.relocation # NoEdge
  BY <1>5, <1>11, BarDomains DEF BarConfigs
<1> QED
  BY <1>4, <1>5, <1>6, <1>7, <1>8, <1>10, <1>12, <1>14, <1>15, LoopStep

\* What is added to the page's letters.
LEMMA LetterAdded ==
  ASSUME BarTypes, NEW l \in BarLayouts \cup {Context}, barPage'.inbox = Append(barPage.inbox, l),
         UNCHANGED <<barPage.position, barPage.behavior>>
  PROVE  /\ Len(barPage.inbox) \in Nat /\ Len(barPage'.inbox) = Len(barPage.inbox) + 1
         /\ barPage'.inbox[Len(barPage.inbox) + 1] = l
         /\ \A i \in 1..Len(barPage.inbox) : barPage'.inbox[i] = barPage.inbox[i]
         /\ 1..Len(barPage'.inbox) = (1..Len(barPage.inbox)) \cup {Len(barPage.inbox) + 1}
         /\ Shown' = Shown
<1>1. barPage.inbox \in Seq(BarLayouts \cup {Context})
  BY DEF BarTypes, PageTypes
<1>2. /\ Len(barPage.inbox) \in Nat /\ Len(barPage'.inbox) = Len(barPage.inbox) + 1
      /\ barPage'.inbox[Len(barPage.inbox) + 1] = l
      /\ \A i \in 1..Len(barPage.inbox) : barPage'.inbox[i] = barPage.inbox[i]
  BY <1>1, Longer
<1> QED
  BY <1>2 DEF Shown, LayoutOf

LEMMA ToldAfterContext ==
  ASSUME BarTypes, barPage'.inbox = Append(barPage.inbox, Context),
         UNCHANGED <<barPage.position, barPage.behavior>>, NEW l, ToldLast(l)
  PROVE  ToldLast(l)'
<1> DEFINE n == Len(barPage.inbox)
<1>1. /\ n \in Nat /\ Len(barPage'.inbox) = n + 1 /\ barPage'.inbox[n + 1] = Context
      /\ \A i \in 1..n : barPage'.inbox[i] = barPage.inbox[i]
      /\ Shown' = Shown
  BY LetterAdded
<1>2. CASE l = Shown /\ \A i \in 1..Len(barPage.inbox) : barPage.inbox[i] = Context
  <2>1. \A i \in 1..(n + 1) : barPage'.inbox[i] = Context
    BY <1>1, <1>2
  <2> QED
    BY <1>1, <1>2, <2>1 DEF ToldLast
<1>3. CASE /\ l # Context
           /\ \E k \in 1..Len(barPage.inbox) :
                  /\ barPage.inbox[k] = l
                  /\ \A j \in 1..Len(barPage.inbox) : j > k => barPage.inbox[j] = Context
  <2>1. PICK k \in 1..n : barPage.inbox[k] = l /\ \A j \in 1..n : j > k => barPage.inbox[j] = Context
    BY <1>3
  <2>2. k \in 1..(n + 1) /\ barPage'.inbox[k] = l
    BY <1>1, <2>1
  <2>3. \A j \in 1..(n + 1) : j > k => barPage'.inbox[j] = Context
    BY <1>1, <2>1
  <2> QED
    BY <1>1, <1>3, <2>2, <2>3 DEF ToldLast
<1> QED
  BY <1>2, <1>3 DEF ToldLast

LEMMA LetterComes ==
  ASSUME BarTypes, NEW l \in BarLayouts \cup {Context}, barPage'.inbox = Append(barPage.inbox, l),
         UNCHANGED <<barPage.position, barPage.behavior>>
  PROVE  /\ Comes(l)'
         /\ \A m : (\E i \in 1..Len(barPage.inbox) : m = barPage.inbox[i]) => Comes(m)'
<1>1. /\ Len(barPage.inbox) \in Nat /\ Len(barPage'.inbox) = Len(barPage.inbox) + 1
      /\ barPage'.inbox[Len(barPage.inbox) + 1] = l
      /\ \A i \in 1..Len(barPage.inbox) : barPage'.inbox[i] = barPage.inbox[i]
  BY LetterAdded
<1>2. Comes(l)'
  <2>1. Len(barPage.inbox) + 1 \in 1..Len(barPage'.inbox)
    BY <1>1
  <2> QED
    BY <1>1, <2>1 DEF Comes
<1>3. ASSUME NEW i \in 1..Len(barPage.inbox) PROVE Comes(barPage.inbox[i])'
  <2>1. i \in 1..Len(barPage'.inbox) /\ barPage'.inbox[i] = barPage.inbox[i]
    BY <1>1
  <2> QED
    BY <2>1 DEF Comes
<1> QED
  BY <1>2, <1>3

LEMMA AddedReports ==
  ASSUME BarTypes, Reports, NEW l \in BarLayouts \cup {Context}, barPage'.inbox = Append(barPage.inbox, l),
         UNCHANGED <<barPage.position, barPage.behavior, barPage.size, barPage.reported, barPage.sent,
                     barPage.held, barPage.asked, barPage.asks>>
  PROVE  Reports' /\ Due' = Due
<1>1. /\ Len(barPage.inbox) \in Nat /\ Len(barPage'.inbox) = Len(barPage.inbox) + 1
      /\ \A i \in 1..Len(barPage.inbox) : barPage'.inbox[i] = barPage.inbox[i]
  BY LetterAdded
<1>2. (\E i \in 1..Len(barPage.inbox) : barPage.inbox[i] = Context) =>
      \E i \in 1..Len(barPage'.inbox) : barPage'.inbox[i] = Context
  BY <1>1
<1>3. Measurement' = Measurement /\ Wants(barPage)' = Wants(barPage)
  BY DEF Measurement, Wants
<1>4. Due' = Due
  BY DEF Due, Reserved
<1>5. Reports'
  BY <1>2, <1>3 DEF Reports
<1> QED
  BY <1>4, <1>5

LEMMA MoveKeeps ==
  ASSUME BarInv, NEW op \in barOps, MoveMonitor(op)
  PROVE  BarInv'
<1> USE DEF BarInv
<1>1. /\ op.step = "move" /\ UNCHANGED <<barConfig, changes>>
      /\ bar' = [bar EXCEPT !.displays = op.displays, !.monitor = op.effective]
      /\ barWindow' = [barWindow EXCEPT !.space = NoSpace]
      /\ barPage' = [barPage EXCEPT !.inbox = Append(@, Context)]
  BY DEF MoveMonitor
<1>2. ~Late(op) /\ IsBarOp(op)
  BY <1>1 DEF Late, BarTypes
<1>3. /\ HandsStay /\ LateSame /\ \A p \in barOps' : IsBarOp(p)
      /\ Unprepared => Unprepared'
  <2>1. PassesTo(op, {"layout"})
    BY MovePasses
  <2>2. CASE op.after = <<>> /\ barOps' = barOps \ {op}
    <3>1. \A p : InHand(p)' <=> InHand(p)
      BY <2>2 DEF InHand
    <3>2. HandsStay
      BY <2>2, <3>1 DEF HandsStay, Chain, InHand
    <3>3. LateSame /\ \A p \in barOps' : IsBarOp(p)
      BY <1>2, <2>2 DEF LateSame, BarTypes
    <3>4. Unprepared => Unprepared'
      BY <1>1, <3>1 DEF Unprepared, InHand
    <3> QED
      BY <3>2, <3>3, <3>4
  <2>3. CASE \E next : /\ IsBarOp(next) /\ next.step \in {"layout"} /\ next.after = op.after
                       /\ barOps' = (barOps \ {op}) \cup {next}
    <3>1. PICK next : /\ IsBarOp(next) /\ next.step = "layout" /\ next.after = op.after
                      /\ barOps' = (barOps \ {op}) \cup {next}
      BY <2>3
    <3>2. ~Late(next)
      BY <3>1 DEF Late
    <3> QED
      BY <1>1, <1>2, <3>1, <3>2, PassKeepsHands
  <2> QED
    BY <2>1, <2>2, <2>3 DEF PassesTo
<1>4. /\ LifeTypes'
      /\ UNCHANGED <<bar.frame, bar.relocation, bar.frameGen, bar.motion, bar.offset, bar.revealed,
                     bar.reservation, bar.blind, bar.overruled>>
  BY <1>1, InventoryLife
<1>5. WindowTypes' /\ UNCHANGED barWindow.offset
  BY <1>1, WindowWith DEF WindowTypes
<1>6. /\ PageTypes' /\ barPage'.inbox = Append(barPage.inbox, Context)
      /\ UNCHANGED <<barPage.position, barPage.behavior, barPage.size, barPage.reported, barPage.sent,
                     barPage.held, barPage.asked, barPage.asks>>
  BY <1>1, TellsPage
<1>7. BarTypes'
  BY <1>1, <1>3, <1>4, <1>5, <1>6 DEF BarTypes, WindowTypes
<1>8. Reports' /\ Due' = Due
  BY <1>6, AddedReports
<1>9. Chain'
  BY <1>1, <1>3, HandsChain
<1>10. IsTold'
  <2>1. \A l : ToldLast(l) => ToldLast(l)'
    BY <1>6, ToldAfterContext
  <2> QED
    BY <1>1, <1>3, <2>1, HandsTold
<1>11. Context # Shown'
  <2>1. Shown' \in BarLayouts
    BY <1>7 DEF BarTypes, PageTypes, Shown, LayoutOf, BarLayouts
  <2> QED
    BY <2>1, BarDomains
<1>12. Comes(Context)' /\ \A m : Comes(m) => Comes(m)'
  <2>1. /\ Comes(Context)'
        /\ \A m : (\E i \in 1..Len(barPage.inbox) : m = barPage.inbox[i]) => Comes(m)'
    BY <1>6, LetterComes
  <2>2. ASSUME NEW m, NEW q \in barOps, InHand(q), m = LayoutOf(q.after[1].new) PROVE Comes(m)'
    <3>1. PICK p : InHand(p)' /\ p.after = q.after
      BY <1>3, <2>2 DEF HandsStay
    <3> QED
      BY <2>2, <3>1 DEF Comes, InHand, LayoutOf
  <2>3. ASSUME NEW m, NEW i \in 1..Len(changes), m = LayoutOf(changes[i].new) PROVE Comes(m)'
    BY <1>1, <2>3 DEF Comes, LayoutOf
  <2>4. \A m : Comes(m) =>
            \/ \E i \in 1..Len(barPage.inbox) : m = barPage.inbox[i]
            \/ \E q \in barOps : InHand(q) /\ m = LayoutOf(q.after[1].new)
            \/ \E i \in 1..Len(changes) : m = LayoutOf(changes[i].new)
    BY DEF Comes
  <2> QED
    BY <2>1, <2>2, <2>3, <2>4
<1>13. News' /\ (AskComes => AskComes')
  BY <1>6, <1>11, <1>12 DEF News, AskComes
<1>14. Relocates'
  BY <1>1, <1>3, <1>4, LoopRelocates
<1> QED
  BY <1>3, <1>4, <1>5, <1>6, <1>7, <1>8, <1>9, <1>10, <1>13, <1>14, LoopStep

\* The page is told; with it the loop's hand is empty.
LEMMA TellKeeps ==
  ASSUME BarInv, NEW op \in barOps, TellLayout(op)
  PROVE  BarInv'
<1> USE DEF BarInv
<1> DEFINE old == op.after[1].old
           new == op.after[1].new
           kept == IF op.step = "edge" THEN NoSpace ELSE barWindow.space
           space == IF old.behavior = new.behavior THEN kept
                    ELSE IF bar.geometry.edge = new.position
                    THEN Reserved(new.behavior, new.position, bar.geometry.size)
                    ELSE NoSpace
           l == LayoutOf(new)
<1>1. /\ op.step \in {"edge", "layout"} /\ UNCHANGED <<barConfig, changes, bar>>
      /\ barWindow' = [barWindow EXCEPT !.space = space]
      /\ barPage' = [barPage EXCEPT !.inbox = Append(@, l)] /\ barOps' = barOps \ {op}
  BY DEF TellLayout, Returns, LayoutOf
<1>2. /\ InHand(op) /\ ~Late(op) /\ old \in BarConfigs /\ new \in BarConfigs /\ l \in BarLayouts
      /\ op.step # "move" /\ op.step \notin {"relocate", "prepare"}
  <2>1. op.after \in Handled
    BY <1>1 DEF BarTypes, IsBarOp
  <2>2. op.after # <<>> /\ IsBarOp(op)
    BY <2>1, OneLong DEF Handled, BarTypes
  <2> QED
    BY <1>1, <2>2, HandFacts, BarDomains DEF InHand, Late
<1>3. old.behavior = new.behavior /\ op.step # "edge" => space = barWindow.space
  OBVIOUS
<1>4. old.position # new.position \/ op.step # "edge"
  BY DEF Chain
<1> HIDE DEF space
<1>5. /\ \A p : ~InHand(p)'
      /\ \A p \in barOps' : p \in barOps
      /\ \A p \in barOps : p \in barOps' \/ p = op
  BY <1>1, <1>2 DEF Chain, InHand
<1>6. LateSame
  BY <1>1, <1>2, <1>5 DEF LateSame
<1>7. /\ LifeTypes'
      /\ UNCHANGED <<bar.frame, bar.relocation, bar.frameGen, bar.motion, bar.offset, bar.revealed,
                     bar.reservation, bar.blind, bar.overruled>>
  BY <1>1, LifeStays
<1>8. WindowTypes' /\ UNCHANGED barWindow.offset /\ barWindow'.space = space
  BY <1>1, WindowWith DEF WindowTypes
<1>9. /\ PageTypes' /\ barPage'.inbox = Append(barPage.inbox, l)
      /\ UNCHANGED <<barPage.position, barPage.behavior, barPage.size, barPage.reported, barPage.sent,
                     barPage.held, barPage.asked, barPage.asks>>
  BY <1>1, <1>2, TellsPage
<1>10. BarTypes'
  BY <1>1, <1>5, <1>7, <1>8, <1>9 DEF BarTypes, WindowTypes
<1>11. Reports' /\ Due' = Due
  BY <1>2, <1>9, AddedReports
<1>12. FirstConfig' = FirstConfig /\ FirstConfig = new
  BY <1>1, <1>2 DEF FirstConfig, Chain
<1>13. Chain'
  BY <1>1, <1>5, <1>12 DEF Chain
<1>14. IsTold'
  <2>1. ToldLast(l)'
    <3>1. l # Context
      BY <1>2, BarDomains
    <3>2. /\ Len(barPage.inbox) \in Nat /\ Len(barPage'.inbox) = Len(barPage.inbox) + 1
          /\ barPage'.inbox[Len(barPage.inbox) + 1] = l
      BY <1>2, <1>9, LetterAdded
    <3>3. /\ Len(barPage.inbox) + 1 \in 1..Len(barPage'.inbox)
          /\ \A j \in 1..Len(barPage'.inbox) : ~(j > Len(barPage.inbox) + 1)
      BY <3>2
    <3> QED
      BY <3>1, <3>2, <3>3 DEF ToldLast
  <2>2. LayoutOf(FirstConfig)' = l
    BY <1>12 DEF LayoutOf
  <2> QED
    BY <1>5, <2>1, <2>2 DEF IsTold
<1>15. \A m : Comes(m) => Comes(m)'
  <2>1. /\ Comes(l)'
        /\ \A m : (\E i \in 1..Len(barPage.inbox) : m = barPage.inbox[i]) => Comes(m)'
    BY <1>2, <1>9, LetterComes
  <2>2. ASSUME NEW m, NEW q \in barOps, InHand(q), m = LayoutOf(q.after[1].new) PROVE m = l
    <3>1. q = op
      BY <1>2, <2>2 DEF Chain
    <3> QED
      BY <2>2, <3>1
  <2>3. ASSUME NEW m, NEW i \in 1..Len(changes), m = LayoutOf(changes[i].new) PROVE Comes(m)'
    BY <1>1, <2>3 DEF Comes, LayoutOf
  <2>4. \A m : Comes(m) =>
            \/ \E i \in 1..Len(barPage.inbox) : m = barPage.inbox[i]
            \/ \E q \in barOps : InHand(q) /\ m = LayoutOf(q.after[1].new)
            \/ \E i \in 1..Len(changes) : m = LayoutOf(changes[i].new)
    BY DEF Comes
  <2> QED
    BY <2>1, <2>2, <2>3, <2>4
<1>16. (News => News') /\ (AskComes => AskComes')
  <2>1. Shown' = Shown
    BY <1>9 DEF Shown, LayoutOf
  <2>2. \A p \in barOps : p.step = "move" => p \in barOps'
    BY <1>2, <1>5
  <2> QED
    BY <1>9, <1>15, <2>1, <2>2 DEF News, AskComes
<1>17. UNCHANGED barWindow.space \/ News'
  <2> SUFFICES ASSUME ~News' PROVE UNCHANGED barWindow.space
    OBVIOUS
  <2>1. NothingNew
    BY <1>16, NewIsNews
  <2>2. LayoutOf(old) = LayoutOf(new)
    BY <1>2, <2>1, Agreement
  <2> QED
    BY <1>3, <1>4, <1>8, <2>2 DEF LayoutOf
<1>18. Relocates'
  <2>1. Unprepared => Unprepared'
    <3>1. \A q \in barOps : InHand(q) => q = op
      BY <1>2 DEF Chain
    <3> QED
      BY <1>1, <1>2, <3>1 DEF Unprepared
  <2> QED
    BY <1>1, <1>6, <1>7, <2>1, LoopRelocates
<1> QED
  BY <1>6, <1>7, <1>8, <1>9, <1>10, <1>11, <1>13, <1>14, <1>16, <1>17, <1>18, LoopStep

--------------------------------------------------------------------------------
\* What the page does of its own.

LEMMA AskedAnew ==
  ASSUME BarTypes, PageTypes', Reports, AsksAnew
  PROVE  /\ barPage'.asks # <<>> => barPage'.asks[Len(barPage'.asks)] = barPage'.asked
         /\ barPage'.asked = barPage.asked \/ barPage'.asks # <<>>
         /\ barPage.asks # <<>> => barPage'.asks # <<>>
<1>1. CASE barPage'.asked = barPage.asked /\ UNCHANGED barPage.asks
  BY <1>1 DEF Reports
<1>2. CASE barPage'.asked # barPage.asked /\ barPage'.asks = Append(barPage.asks, barPage'.asked)
  <2>1. barPage.asks \in Seq(BOOLEAN) /\ barPage'.asked \in BOOLEAN
    BY DEF BarTypes, PageTypes
  <2> QED
    BY <1>2, <2>1, Longer
<1> QED
  BY <1>1, <1>2 DEF AsksAnew

LEMMA SentAnew ==
  ASSUME BarTypes, Reports, Sends
  PROVE  /\ barPage'.sent # <<>> => barPage'.sent[Len(barPage'.sent)] = barPage'.reported
         /\ barPage.sent # <<>> => barPage'.sent # <<>>
         /\ barPage'.sent = <<>> => barPage.reported = Measurement'
<1>1. CASE barPage.reported = Measurement' /\ UNCHANGED barPage.sent
  BY <1>1 DEF Reports, Sends
<1>2. CASE barPage'.sent = Append(barPage.sent, Measurement')
  <2>1. barPage.sent \in Seq(BarReports) /\ Measurement' \in BarReports /\ barPage'.reported = Measurement'
    BY DEF BarTypes, PageTypes, Sends
  <2> QED
    BY <1>2, <2>1, Longer
<1> QED
  BY <1>1, <1>2 DEF Sends

LEMMA SameHands ==
  ASSUME BarInv, UNCHANGED barOps
  PROVE  HandsStay /\ LateSame
<1>1. \A p : InHand(p)' <=> InHand(p)
  BY DEF InHand
<1>2. HandsStay
  BY <1>1 DEF BarInv, HandsStay, Chain, InHand
<1> QED
  BY <1>2 DEF LateSame

LEMMA HoldKeeps ==
  ASSUME BarInv, Hold
  PROVE  BarInv'
<1> USE DEF BarInv
<1>1. UNCHANGED <<barConfig, changes, bar, barWindow, barOps>>
  BY DEF Hold
<1>2. /\ PageTypes' /\ AsksAnew /\ barPage'.asked = Wants(barPage)'
      /\ UNCHANGED <<barPage.position, barPage.behavior, barPage.size, barPage.reported,
                     barPage.inbox, barPage.sent>>
  BY HoldPage
<1>3. /\ barPage'.asks # <<>> => barPage'.asks[Len(barPage'.asks)] = barPage'.asked
      /\ barPage'.asked = barPage.asked \/ barPage'.asks # <<>>
      /\ barPage.asks # <<>> => barPage'.asks # <<>>
  BY <1>2, AskedAnew
<1>4. /\ LifeTypes'
      /\ UNCHANGED <<bar.frame, bar.relocation, bar.frameGen, bar.motion, bar.offset, bar.revealed,
                     bar.reservation, bar.blind, bar.overruled>>
  BY <1>1, LifeStays
<1>5. WindowTypes' /\ UNCHANGED <<barWindow.offset, barWindow.space>>
  BY <1>1 DEF WindowTypes, BarTypes
<1>6. BarTypes'
  BY <1>1, <1>2, <1>4, <1>5 DEF BarTypes, WindowTypes
<1>7. HandsStay /\ LateSame
  BY <1>1, SameHands
<1>8. Measurement' = Measurement /\ Due' = Due /\ Shown' = Shown
  BY <1>2 DEF Measurement, Due, Reserved, Shown, LayoutOf
<1>9. Reports'
  BY <1>2, <1>3, <1>8 DEF Reports
<1>10. \A l : Comes(l)' <=> Comes(l)
  BY <1>1, <1>2, <1>7, HandsComes
<1>11. Chain' /\ IsTold'
  <2>1. \A l : ToldLast(l)' <=> ToldLast(l)
    BY <1>2, <1>8 DEF ToldLast
  <2> QED
    BY <1>1, <1>7, <2>1, HandsChain, HandsTold
<1>12. (News => News') /\ (AskComes => AskComes') /\ (UNCHANGED barPage.asked \/ AskComes')
  BY <1>1, <1>2, <1>3, <1>8, <1>10 DEF News, AskComes
<1>13. Relocates'
  <2>1. Unprepared => Unprepared'
    BY <1>1 DEF Unprepared, InHand
  <2> QED
    BY <1>1, <1>4, <1>7, <2>1, LoopRelocates
<1> QED
  BY <1>4, <1>5, <1>6, <1>7, <1>8, <1>9, <1>11, <1>12, <1>13, LoopStep

LEMMA ResizeKeeps ==
  ASSUME BarInv, Resize
  PROVE  BarInv'
<1> USE DEF BarInv
<1>1. UNCHANGED <<barConfig, changes, bar, barWindow, barOps>>
  BY DEF Resize
<1>2. /\ PageTypes' /\ Sends /\ barPage'.size # barPage.size
      /\ UNCHANGED <<barPage.position, barPage.behavior, barPage.inbox, barPage.held, barPage.asked,
                     barPage.asks>>
  BY ResizePage
<1>3. /\ barPage'.sent # <<>> => barPage'.sent[Len(barPage'.sent)] = barPage'.reported
      /\ barPage'.sent = <<>> => barPage.reported = Measurement'
      /\ barPage'.reported = Measurement'
  BY <1>2, SentAnew DEF Sends
<1>4. /\ LifeTypes'
      /\ UNCHANGED <<bar.frame, bar.relocation, bar.frameGen, bar.motion, bar.offset, bar.revealed,
                     bar.reservation, bar.blind, bar.overruled>>
  BY <1>1, LifeStays
<1>5. WindowTypes' /\ UNCHANGED <<barWindow.offset, barWindow.space>>
  BY <1>1 DEF WindowTypes, BarTypes
<1>6. BarTypes'
  BY <1>1, <1>2, <1>4, <1>5 DEF BarTypes, WindowTypes
<1>7. HandsStay /\ LateSame
  BY <1>1, SameHands
<1>8. Reports'
  BY <1>2, <1>3 DEF Reports, Wants
<1>9. \A l : Comes(l)' <=> Comes(l)
  BY <1>1, <1>2, <1>7, HandsComes
<1>10. Chain' /\ IsTold'
  <2>1. \A l : ToldLast(l)' <=> ToldLast(l)
    BY <1>2 DEF ToldLast, Shown, LayoutOf
  <2> QED
    BY <1>1, <1>7, <2>1, HandsChain, HandsTold
<1>11. News'
  <2>1. CASE barPage'.sent # <<>>
    BY <2>1 DEF News
  <2>2. CASE barPage'.sent = <<>>
    <3>1. barPage.reported # Measurement
      BY <1>2, <1>3, <2>2 DEF Measurement
    <3>2. \E i \in 1..Len(barPage.inbox) : barPage.inbox[i] = Context
      BY <3>1 DEF Reports
    <3>3. PageTypes
      BY DEF BarTypes
    <3>4. Comes(Context) /\ Context # Shown
      <4>1. Shown \in BarLayouts
        BY <3>3 DEF PageTypes, Shown, LayoutOf, BarLayouts
      <4> QED
        BY <3>2, <4>1, BarDomains DEF Comes
    <3>5. Comes(Context)' /\ Context # Shown'
      BY <1>2, <1>9, <3>4 DEF Shown, LayoutOf
    <3> QED
      BY <3>5 DEF News
  <2> QED
    BY <2>1, <2>2
<1>12. AskComes => AskComes'
  BY <1>2, <1>9 DEF AskComes
<1>13. Relocates'
  <2>1. Unprepared => Unprepared'
    BY <1>1 DEF Unprepared, InHand
  <2> QED
    BY <1>1, <1>4, <1>7, <2>1, LoopRelocates
<1> QED
  BY <1>2, <1>4, <1>5, <1>6, <1>7, <1>8, <1>10, <1>11, <1>12, <1>13, LoopStep

LEMMA LetterHeard ==
  ASSUME BarTypes, barPage.inbox # <<>>, barPage'.inbox = Tail(barPage.inbox)
  PROVE  /\ Len(barPage.inbox) \in Nat \ {0} /\ Len(barPage'.inbox) = Len(barPage.inbox) - 1
         /\ \A i \in 1..Len(barPage'.inbox) : barPage'.inbox[i] = barPage.inbox[i + 1]
         /\ \A i \in 1..Len(barPage.inbox) : i # 1 =>
                i - 1 \in 1..Len(barPage'.inbox) /\ barPage'.inbox[i - 1] = barPage.inbox[i]
<1>1. barPage.inbox \in Seq(BarLayouts \cup {Context})
  BY DEF BarTypes, PageTypes
<1>2. /\ Len(barPage.inbox) \in Nat \ {0} /\ Len(barPage'.inbox) = Len(barPage.inbox) - 1
      /\ \A i \in 1..(Len(barPage.inbox) - 1) : barPage'.inbox[i] = barPage.inbox[i + 1]
  BY <1>1, Shorter
<1>3. ASSUME NEW i \in 1..Len(barPage.inbox), i # 1
      PROVE  i - 1 \in 1..Len(barPage'.inbox) /\ barPage'.inbox[i - 1] = barPage.inbox[i]
  <2>1. i - 1 \in 1..(Len(barPage.inbox) - 1) /\ (i - 1) + 1 = i
    BY <1>2, <1>3
  <2> QED
    BY <1>2, <2>1
<1> QED
  BY <1>2, <1>3

LEMMA ToldStays ==
  ASSUME BarTypes, barPage.inbox # <<>>, barPage'.inbox = Tail(barPage.inbox),
         barPage.inbox[1] = Context => Shown' = Shown,
         barPage.inbox[1] # Context => Shown' = barPage.inbox[1],
         NEW l, ToldLast(l)
  PROVE  ToldLast(l)'
<1>1. /\ Len(barPage.inbox) \in Nat \ {0} /\ Len(barPage'.inbox) = Len(barPage.inbox) - 1
      /\ \A i \in 1..Len(barPage'.inbox) : barPage'.inbox[i] = barPage.inbox[i + 1]
      /\ \A i \in 1..Len(barPage.inbox) : i # 1 =>
             i - 1 \in 1..Len(barPage'.inbox) /\ barPage'.inbox[i - 1] = barPage.inbox[i]
  BY LetterHeard
<1>2. CASE l = Shown /\ \A i \in 1..Len(barPage.inbox) : barPage.inbox[i] = Context
  <2>1. barPage.inbox[1] = Context
    BY <1>1, <1>2
  <2>2. \A i \in 1..Len(barPage'.inbox) : barPage'.inbox[i] = Context
    BY <1>1, <1>2
  <2> QED
    BY <1>2, <2>1, <2>2 DEF ToldLast
<1>3. CASE /\ l # Context
           /\ \E k \in 1..Len(barPage.inbox) :
                  /\ barPage.inbox[k] = l
                  /\ \A j \in 1..Len(barPage.inbox) : j > k => barPage.inbox[j] = Context
  <2>1. PICK k \in 1..Len(barPage.inbox) :
           /\ barPage.inbox[k] = l
           /\ \A j \in 1..Len(barPage.inbox) : j > k => barPage.inbox[j] = Context
    BY <1>3
  <2>2. ASSUME NEW i \in 1..Len(barPage'.inbox), i + 1 > k PROVE barPage'.inbox[i] = Context
    <3>1. i + 1 \in 1..Len(barPage.inbox)
      BY <1>1
    <3> QED
      BY <1>1, <2>1, <2>2, <3>1
  <2>3. CASE k = 1
    <3>1. Shown' = l
      BY <1>3, <2>1, <2>3
    <3>2. \A i \in 1..Len(barPage'.inbox) : i + 1 > k
      BY <1>1, <2>3
    <3> QED
      BY <2>2, <3>1, <3>2 DEF ToldLast
  <2>4. CASE k # 1
    <3>1. k - 1 \in 1..Len(barPage'.inbox) /\ barPage'.inbox[k - 1] = l
      BY <1>1, <2>1, <2>4
    <3>2. \A j \in 1..Len(barPage'.inbox) : j > k - 1 => j + 1 > k
      BY <1>1
    <3> QED
      BY <1>3, <2>2, <3>1, <3>2 DEF ToldLast
  <2> QED
    BY <2>3, <2>4
<1> QED
  BY <1>2, <1>3 DEF ToldLast

LEMMA HearKeeps ==
  ASSUME BarInv, HearLayout
  PROVE  BarInv'
<1> USE DEF BarInv
<1>1. UNCHANGED <<barConfig, changes, bar, barWindow, barOps>>
  BY DEF HearLayout
<1>2. /\ PageTypes' /\ barPage.inbox # <<>> /\ barPage'.inbox = Tail(barPage.inbox) /\ Sends
      /\ UNCHANGED barPage.size
      /\ \/ /\ barPage.inbox[1] = Context /\ barPage'.sent = Append(barPage.sent, Measurement')
            /\ UNCHANGED <<barPage.position, barPage.behavior, barPage.held, barPage.asked, barPage.asks>>
         \/ /\ barPage.inbox[1] \in BarLayouts /\ Shown' = barPage.inbox[1]
            /\ barPage'.held => barPage.held
            /\ AsksAnew /\ barPage'.asked = Wants(barPage)'
  BY HearPage
<1>3. /\ barPage'.sent # <<>> => barPage'.sent[Len(barPage'.sent)] = barPage'.reported
      /\ barPage.sent # <<>> => barPage'.sent # <<>>
      /\ barPage'.sent = <<>> => barPage.reported = Measurement'
      /\ barPage'.reported = Measurement'
  BY <1>2, SentAnew DEF Sends
<1>4. /\ LifeTypes'
      /\ UNCHANGED <<bar.frame, bar.relocation, bar.frameGen, bar.motion, bar.offset, bar.revealed,
                     bar.reservation, bar.blind, bar.overruled>>
  BY <1>1, LifeStays
<1>5. WindowTypes' /\ UNCHANGED <<barWindow.offset, barWindow.space>>
  BY <1>1 DEF WindowTypes, BarTypes
<1>6. BarTypes'
  BY <1>1, <1>2, <1>4, <1>5 DEF BarTypes, WindowTypes
<1>7. HandsStay /\ LateSame
  BY <1>1, SameHands
<1>8. /\ Len(barPage.inbox) \in Nat \ {0}
      /\ \A i \in 1..Len(barPage.inbox) : i # 1 =>
             i - 1 \in 1..Len(barPage'.inbox) /\ barPage'.inbox[i - 1] = barPage.inbox[i]
  BY <1>2, LetterHeard
<1>9. \A m : Comes(m) => Comes(m)' \/ m = barPage.inbox[1]
  <2>1. ASSUME NEW m, NEW i \in 1..Len(barPage.inbox), m = barPage.inbox[i]
        PROVE  Comes(m)' \/ m = barPage.inbox[1]
    <3>1. CASE i = 1
      BY <2>1, <3>1
    <3>2. CASE i # 1
      <4>1. i - 1 \in 1..Len(barPage'.inbox) /\ barPage'.inbox[i - 1] = m
        BY <1>8, <2>1, <3>2
      <4> QED
        BY <4>1 DEF Comes
    <3> QED
      BY <3>1, <3>2
  <2>2. ASSUME NEW m, NEW q \in barOps, InHand(q), m = LayoutOf(q.after[1].new) PROVE Comes(m)'
    BY <1>1, <2>2 DEF Comes, InHand, LayoutOf
  <2>3. ASSUME NEW m, NEW i \in 1..Len(changes), m = LayoutOf(changes[i].new) PROVE Comes(m)'
    BY <1>1, <2>3 DEF Comes, LayoutOf
  <2>4. \A m : Comes(m) =>
            \/ \E i \in 1..Len(barPage.inbox) : m = barPage.inbox[i]
            \/ \E q \in barOps : InHand(q) /\ m = LayoutOf(q.after[1].new)
            \/ \E i \in 1..Len(changes) : m = LayoutOf(changes[i].new)
    BY DEF Comes
  <2> QED
    BY <2>1, <2>2, <2>3, <2>4
<1>10. barPage.inbox[1] = Context => UNCHANGED <<Shown, Due, Measurement>> /\ Wants(barPage)' = Wants(barPage)
  <2>1. barPage.inbox[1] = Context => UNCHANGED <<barPage.position, barPage.behavior, barPage.held>>
    BY <1>2, BarDomains
  <2> QED
    BY <1>2, <2>1 DEF Shown, LayoutOf, Due, Reserved, Measurement, Wants
<1>11. Reports'
  <2>1. CASE barPage.inbox[1] = Context
    <3>1. barPage'.asks = barPage.asks /\ barPage'.asked = barPage.asked
      BY <1>2, <2>1, BarDomains
    <3> QED
      BY <1>3, <1>10, <2>1, <3>1 DEF Reports
  <2>2. CASE AsksAnew /\ barPage'.asked = Wants(barPage)'
    BY <1>2, <1>3, <2>2, AskedAnew DEF Reports
  <2> QED
    BY <1>2, <2>1, <2>2
<1>12. Chain' /\ IsTold'
  <2>1. ASSUME NEW l, ToldLast(l) PROVE ToldLast(l)'
    <3>1. /\ barPage.inbox[1] = Context => Shown' = Shown
          /\ barPage.inbox[1] # Context => Shown' = barPage.inbox[1]
      BY <1>2, <1>10
    <3> QED
      BY <1>2, <2>1, <3>1, ToldStays
  <2> QED
    BY <1>1, <1>7, <2>1, HandsChain, HandsTold
<1>13. /\ News => News'
       /\ Due' = Due \/ News'
  <2>1. CASE barPage'.sent # <<>>
    BY <2>1 DEF News
  <2>2. CASE barPage'.sent = <<>> /\ barPage.inbox[1] \in BarLayouts /\ Shown' = barPage.inbox[1]
    <3>1. CASE \E i \in 1..Len(barPage.inbox) : barPage.inbox[i] = Context
      <4>1. Comes(Context) /\ Context # barPage.inbox[1]
        BY <2>2, <3>1, BarDomains DEF Comes
      <4>2. Comes(Context)' /\ Context # Shown'
        BY <1>9, <2>2, <4>1
      <4> QED
        BY <4>2 DEF News
    <3>2. CASE ~\E i \in 1..Len(barPage.inbox) : barPage.inbox[i] = Context
      <4>1. Measurement' = Measurement
        BY <1>3, <2>2, <3>2 DEF Reports
      <4>2. UNCHANGED <<barPage.position, barPage.behavior>>
        BY <4>1 DEF Measurement
      <4>3. Shown' = Shown /\ Due' = Due
        BY <1>2, <4>2 DEF Shown, LayoutOf, Due, Reserved
      <4>4. barPage.sent = <<>>
        BY <1>3, <2>2
      <4>5. ASSUME NEW l \in BarLayouts \cup {Context}, Comes(l), l # Shown PROVE News'
        <5>1. Comes(l)' /\ l # Shown'
          BY <1>9, <2>2, <4>3, <4>5
        <5> QED
          BY <5>1 DEF News
      <4>6. (\E p \in barOps : p.step = "move") => News'
        BY <1>1 DEF News
      <4> QED
        BY <4>3, <4>4, <4>5, <4>6 DEF News
    <3> QED
      BY <3>1, <3>2
  <2>3. barPage.inbox[1] = Context => barPage'.sent # <<>>
    <3>1. barPage.sent \in Seq(BarReports) /\ Measurement' \in BarReports
      BY <1>2 DEF BarTypes, PageTypes, Sends
    <3>2. Append(barPage.sent, Measurement') # <<>>
      BY <3>1, Longer
    <3> QED
      BY <1>2, <3>2, BarDomains
  <2> QED
    BY <1>2, <2>1, <2>2, <2>3
<1>14. (AskComes => AskComes') /\ (UNCHANGED barPage.asked \/ AskComes')
  <2>1. CASE barPage.inbox[1] = Context
    <3>1. barPage'.asks = barPage.asks /\ barPage'.asked = barPage.asked
      BY <1>2, <2>1, BarDomains
    <3>2. \A l \in BarLayouts : Comes(l) => Comes(l)'
      BY <1>9, <2>1, BarDomains
    <3> QED
      BY <3>1, <3>2 DEF AskComes
  <2>2. CASE barPage.inbox[1] \in BarLayouts /\ Shown' = barPage.inbox[1] /\ AsksAnew
             /\ barPage'.asked = Wants(barPage)'
    <3>1. /\ barPage'.asked = barPage.asked \/ barPage'.asks # <<>>
          /\ barPage.asks # <<>> => barPage'.asks # <<>>
      BY <1>2, <2>2, AskedAnew
    <3>2. ASSUME ~barPage.asked, NEW l \in BarLayouts, Comes(l), l.behavior # "autohide"
          PROVE  AskComes'
      <4>1. CASE barPage'.asks # <<>>
        BY <4>1 DEF AskComes
      <4>2. CASE barPage'.asked = barPage.asked /\ Comes(l)'
        BY <3>2, <4>2 DEF AskComes
      <4>3. CASE barPage'.asked = barPage.asked /\ l = barPage.inbox[1]
        <5>1. barPage'.behavior = l.behavior
          <6>1. Shown'.behavior = barPage'.behavior
            BY DEF Shown, LayoutOf
          <6> QED
            BY <2>2, <4>3, <6>1
        <5> QED
          BY <2>2, <3>2, <4>3, <5>1 DEF Wants
      <4> QED
        BY <1>9, <3>1, <3>2, <4>1, <4>2, <4>3
    <3>3. barPage.asks # <<>> => AskComes'
      BY <3>1 DEF AskComes
    <3>4. UNCHANGED barPage.asked \/ AskComes'
      BY <3>1 DEF AskComes
    <3> QED
      BY <3>2, <3>3, <3>4 DEF AskComes
  <2> QED
    BY <1>2, <2>1, <2>2
<1>15. Relocates'
  <2>1. Unprepared => Unprepared'
    BY <1>1 DEF Unprepared, InHand
  <2> QED
    BY <1>1, <1>4, <1>7, <2>1, LoopRelocates
<1> QED
  BY <1>4, <1>5, <1>6, <1>7, <1>11, <1>12, <1>13, <1>14, <1>15, LoopStep

--------------------------------------------------------------------------------
\* The config changes, and the loop takes the changes one after the other.

LEMMA TakeKeeps ==
  ASSUME BarInv, TakeChange
  PROVE  BarInv'
<1> USE DEF BarInv
<1> DEFINE c == changes[1]
           hand == HandOf(c)
<1>1. /\ changes # <<>> /\ changes' = Tail(changes) /\ UNCHANGED <<barConfig, barPage>>
      /\ \A op \in barOps : op.after = <<>>
      /\ PassesTo(hand, {"relocate", Ahead(hand)})
      /\ bar' = [bar EXCEPT !.displays = bar.displays] \/ bar' = bar
      /\ barWindow' = [barWindow EXCEPT !.opaque = FALSE] \/ barWindow' = barWindow
  BY TakePasses
<1>2. hand.after = <<c>> /\ hand.after # <<>> /\ hand.after[1] = c
  BY OneLong DEF HandOf
<1> HIDE DEF hand
<1>3. PICK next : /\ IsBarOp(next) /\ next.step \in {"relocate", Ahead(hand)} /\ next.after = hand.after
                  /\ barOps' = (barOps \ {hand}) \cup {next}
  BY <1>1, <1>2 DEF PassesTo
<1>4. /\ next.step \in {"relocate", "prepare", "layout"} /\ ~Late(next)
      /\ next.step = "prepare" => c.old.position # c.new.position
      /\ c.old.position # c.new.position => next.step \in {"relocate", "prepare"}
      /\ next.after # <<>> /\ next.after[1] = c
  BY <1>2, <1>3, AheadFacts
<1>5. /\ barOps' = barOps \cup {next} /\ next \in barOps'
      /\ \A p \in barOps' : p \in barOps \/ p = next
      /\ \A p \in barOps : p \in barOps'
  BY <1>1, <1>2, <1>3
<1>6. \A p : InHand(p)' <=> p = next
  BY <1>1, <1>4, <1>5 DEF InHand
<1>7. LateSame
  BY <1>4, <1>5 DEF LateSame
<1> DEFINE n == Len(changes)
<1>8. /\ n \in Nat \ {0} /\ Len(changes') = n - 1 /\ changes' \in Seq(BarChanges)
      /\ \A i \in 1..(n - 1) : changes'[i] = changes[i + 1]
      /\ changes' = <<>> <=> n = 1
  BY <1>1, Shorter DEF BarTypes
<1>9. /\ LifeTypes'
      /\ UNCHANGED <<bar.frame, bar.relocation, bar.frameGen, bar.motion, bar.offset, bar.revealed,
                     bar.reservation, bar.blind, bar.overruled>>
  BY <1>1, DisplaysLife
<1>10. WindowTypes' /\ UNCHANGED <<barWindow.offset, barWindow.space>>
  BY <1>1, WindowWith DEF WindowTypes, BarTypes
<1>11. /\ PageTypes' /\ Due' = Due /\ Reports'
       /\ UNCHANGED <<barPage.inbox, barPage.sent, barPage.asks, barPage.asked, barPage.position,
                      barPage.behavior, barPage.size>>
  BY <1>1, PageStays
<1>12. BarTypes'
  BY <1>1, <1>3, <1>5, <1>8, <1>9, <1>10, <1>11 DEF BarTypes, WindowTypes
<1>13. ASSUME NEW i \in 1..n, i # 1
       PROVE  i - 1 \in 1..Len(changes') /\ changes'[i - 1] = changes[i]
  <2>1. i - 1 \in 1..(n - 1) /\ (i - 1) + 1 = i
    BY <1>8, <1>13
  <2> QED
    BY <1>8, <2>1
<1>14. Chain'
  <2>1. \A i \in 1..(Len(changes') - 1) : changes'[i].new = changes'[i + 1].old
    <3> SUFFICES ASSUME NEW i \in 1..(Len(changes') - 1) PROVE changes'[i].new = changes'[i + 1].old
      OBVIOUS
    <3>1. i \in 1..(n - 1) /\ i + 1 \in 1..(n - 1) /\ i + 1 \in 1..n
      BY <1>8
    <3> QED
      BY <1>8, <3>1 DEF Chain
  <2>2. changes' # <<>> => changes'[Len(changes')].new = barConfig'
    <3> SUFFICES ASSUME changes' # <<>> PROVE changes'[Len(changes')].new = barConfig'
      OBVIOUS
    <3>1. n - 1 \in 1..(n - 1) /\ (n - 1) + 1 = n
      BY <1>8
    <3> QED
      BY <1>1, <1>8, <3>1 DEF Chain
  <2>3. c.new = FirstConfig'
    <3>1. CASE n = 1
      BY <1>1, <1>8, <3>1 DEF Chain, FirstConfig
    <3>2. CASE n # 1
      <4>1. 1 \in 1..(n - 1) /\ changes' # <<>>
        BY <1>8, <3>2
      <4> QED
        BY <1>8, <4>1 DEF Chain, FirstConfig
    <3> QED
      BY <3>1, <3>2
  <2>4. \A op \in barOps' : InHand(op)' => op.after[1].new = FirstConfig'
    BY <1>4, <1>6, <2>3
  <2>5. \A op, other \in barOps' : InHand(op)' /\ InHand(other)' => op = other
    BY <1>6
  <2>6. \A op \in barOps' : op.step \in {"prepare", "edge"} =>
            op.after[1].old.position # op.after[1].new.position
    BY <1>4, <1>5 DEF Chain
  <2>7. \A i \in 1..Len(changes') :
            \/ changes'[i].new.position = barConfig'.position
            \/ \E j \in 1..Len(changes') : j > i /\ changes'[j].old.position # changes'[j].new.position
    <3> SUFFICES ASSUME NEW i \in 1..Len(changes'), changes'[i].new.position # barConfig'.position
                 PROVE  \E j \in 1..Len(changes') : j > i /\ changes'[j].old.position # changes'[j].new.position
      OBVIOUS
    <3>1. i \in 1..(n - 1) /\ i + 1 \in 1..n /\ changes'[i] = changes[i + 1]
      BY <1>8
    <3>2. PICK j \in 1..n : j > i + 1 /\ changes[j].old.position # changes[j].new.position
      BY <1>1, <3>1 DEF Chain
    <3>3. j # 1 /\ j - 1 > i
      BY <3>1, <3>2
    <3>4. j - 1 \in 1..Len(changes') /\ changes'[j - 1] = changes[j]
      BY <1>13, <3>3
    <3> QED
      BY <3>2, <3>3, <3>4
  <2> QED
    BY <2>1, <2>2, <2>4, <2>5, <2>6, <2>7 DEF Chain
<1>15. IsTold'
  <2>1. ToldLast(LayoutOf(c.old))
    BY <1>1 DEF IsTold, FirstConfig
  <2>2. ASSUME NEW l PROVE ToldLast(l)' <=> ToldLast(l)
    BY <1>11 DEF ToldLast, Shown, LayoutOf
  <2>3. ASSUME NEW op \in barOps', InHand(op)' PROVE ToldLast(LayoutOf(op.after[1].old))'
    <3>1. op.after[1] = c
      BY <1>4, <1>6, <2>3
    <3> QED
      BY <2>1, <2>2, <3>1
  <2> QED
    BY <1>6, <2>3, NoHand DEF IsTold
<1>16. \A m : Comes(m) => Comes(m)'
  <2>1. ASSUME NEW m, NEW i \in 1..Len(barPage.inbox), m = barPage.inbox[i] PROVE Comes(m)'
    BY <1>11, <2>1 DEF Comes
  <2>2. ASSUME NEW m, NEW i \in 1..n, m = LayoutOf(changes[i].new) PROVE Comes(m)'
    <3>1. CASE i = 1
      <4>1. m = LayoutOf(next.after[1].new) /\ InHand(next)'
        BY <1>4, <1>6, <2>2, <3>1
      <4> QED
        BY <1>5, <4>1 DEF Comes, LayoutOf
    <3>2. CASE i # 1
      <4>1. i - 1 \in 1..Len(changes') /\ changes'[i - 1] = changes[i]
        BY <1>13, <3>2
      <4> QED
        BY <2>2, <4>1 DEF Comes, LayoutOf
    <3> QED
      BY <3>1, <3>2
  <2>3. \A q \in barOps : ~InHand(q)
    BY <1>1 DEF InHand
  <2>4. \A m : Comes(m) =>
            \/ \E i \in 1..Len(barPage.inbox) : m = barPage.inbox[i]
            \/ \E i \in 1..n : m = LayoutOf(changes[i].new)
    BY <2>3 DEF Comes
  <2> QED
    BY <2>1, <2>2, <2>4
<1>17. (News => News') /\ (AskComes => AskComes')
  <2>1. Shown' = Shown
    BY <1>11 DEF Shown, LayoutOf
  <2> QED
    BY <1>5, <1>11, <1>16, <2>1 DEF News, AskComes
<1>18. Relocates'
  <2>1. Unprepared => Unprepared'
    <3>1. ASSUME NEW i \in 1..n, changes[i].old.position # changes[i].new.position PROVE Unprepared'
      <4>1. CASE i = 1
        <5>1. /\ InHand(next)' /\ next.step \in {"relocate", "prepare"}
              /\ next.after[1].old.position # next.after[1].new.position
          BY <1>4, <1>6, <3>1, <4>1
        <5> QED
          BY <1>5, <5>1 DEF Unprepared
      <4>2. CASE i # 1
        <5>1. i - 1 \in 1..Len(changes') /\ changes'[i - 1] = changes[i]
          BY <1>13, <4>2
        <5> QED
          BY <3>1, <5>1 DEF Unprepared
      <4> QED
        BY <4>1, <4>2
    <3>2. \A q \in barOps : ~InHand(q)
      BY <1>1 DEF InHand
    <3> QED
      BY <3>1, <3>2 DEF Unprepared
  <2> QED
    BY <1>1, <1>7, <1>9, <2>1, LoopRelocates
<1> QED
  BY <1>7, <1>9, <1>10, <1>11, <1>12, <1>14, <1>15, <1>17, <1>18, LoopStep

LEMMA ChangeKeeps ==
  ASSUME BarInv, NEW new \in BarConfigs, Change(new), UNCHANGED <<bar, barWindow, barPage, barOps>>
  PROVE  BarInv'
<1> USE DEF BarInv
<1> DEFINE n == Len(changes)
           change == [old |-> barConfig, new |-> new]
<1>1. barConfig' = new /\ changes' = Append(changes, change)
  BY DEF Change
<1>2. change \in BarChanges /\ change.old = barConfig /\ change.new = new
  BY DEF BarChanges, BarTypes
<1> HIDE DEF change
<1>3. /\ n \in Nat /\ changes' \in Seq(BarChanges) /\ changes' # <<>> /\ Len(changes') = n + 1
      /\ changes'[n + 1] = change /\ \A i \in 1..n : changes'[i] = changes[i]
  BY <1>1, <1>2, Longer DEF BarTypes
<1>4. /\ LifeTypes'
      /\ UNCHANGED <<bar.frame, bar.relocation, bar.frameGen, bar.motion, bar.offset, bar.revealed,
                     bar.reservation, bar.blind, bar.overruled>>
  BY LifeStays
<1>5. WindowTypes' /\ UNCHANGED <<barWindow.offset, barWindow.space>>
  BY DEF WindowTypes, BarTypes
<1>6. /\ PageTypes' /\ Due' = Due /\ Reports'
      /\ UNCHANGED <<barPage.inbox, barPage.sent, barPage.asks, barPage.asked, barPage.position,
                     barPage.behavior, barPage.size>>
  BY PageStays
<1>7. BarTypes'
  BY <1>1, <1>3, <1>4, <1>5, <1>6 DEF BarTypes, WindowTypes
<1>8. LateSame /\ \A p : InHand(p)' <=> InHand(p)
  BY DEF LateSame, InHand
<1>9. FirstConfig' = FirstConfig
  <2>1. changes = <<>> <=> n = 0
    BY InRange DEF BarTypes
  <2>2. CASE n = 0
    BY <1>2, <1>3, <2>1, <2>2 DEF FirstConfig
  <2>3. CASE n # 0
    <3>1. 1 \in 1..n
      BY <1>3, <2>3
    <3> QED
      BY <1>3, <2>1, <2>3, <3>1 DEF FirstConfig
  <2> QED
    BY <2>2, <2>3
<1>10. Chain'
  <2>1. \A i \in 1..(Len(changes') - 1) : changes'[i].new = changes'[i + 1].old
    <3> SUFFICES ASSUME NEW i \in 1..n PROVE changes'[i].new = changes'[i + 1].old
      BY <1>3
    <3>1. CASE i = n
      <4>1. changes # <<>>
        BY <1>3, InRange DEF BarTypes
      <4> QED
        BY <1>2, <1>3, <3>1, <4>1 DEF Chain
    <3>2. CASE i # n
      <4>1. i \in 1..(n - 1) /\ i + 1 \in 1..n
        BY <1>3, <3>2
      <4> QED
        BY <1>3, <4>1 DEF Chain
    <3> QED
      BY <3>1, <3>2
  <2>2. changes'[Len(changes')].new = barConfig'
    BY <1>1, <1>2, <1>3
  <2>3. \A op \in barOps' : InHand(op)' => op.after[1].new = FirstConfig'
    BY <1>8, <1>9 DEF Chain
  <2>4. /\ \A op, other \in barOps' : InHand(op)' /\ InHand(other)' => op = other
        /\ \A op \in barOps' : op.step \in {"prepare", "edge"} =>
               op.after[1].old.position # op.after[1].new.position
    BY <1>8 DEF Chain
  <2>5. \A i \in 1..Len(changes') :
            \/ changes'[i].new.position = barConfig'.position
            \/ \E j \in 1..Len(changes') : j > i /\ changes'[j].old.position # changes'[j].new.position
    <3> SUFFICES ASSUME NEW i \in 1..(n + 1), changes'[i].new.position # barConfig'.position
                 PROVE  \E j \in 1..(n + 1) : j > i /\ changes'[j].old.position # changes'[j].new.position
      BY <1>3
    <3>1. i \in 1..n
      BY <1>1, <1>2, <1>3
    <3>2. n + 1 \in 1..(n + 1) /\ n + 1 > i
      BY <1>3, <3>1
    <3>3. CASE \E j \in 1..n : j > i /\ changes[j].old.position # changes[j].new.position
      <4>1. PICK j \in 1..n : j > i /\ changes[j].old.position # changes[j].new.position
        BY <3>3
      <4>2. j \in 1..(n + 1) /\ changes'[j] = changes[j]
        BY <1>3, <4>1
      <4> QED
        BY <4>1, <4>2
    <3>4. CASE changes[i].new.position = barConfig.position
      <4>1. changes'[n + 1].old.position # changes'[n + 1].new.position
        BY <1>1, <1>2, <1>3, <3>1, <3>4
      <4> QED
        BY <3>2, <4>1
    <3> QED
      BY <3>1, <3>3, <3>4 DEF Chain
  <2> QED
    BY <2>1, <2>2, <2>3, <2>4, <2>5 DEF Chain
<1>11. IsTold'
  <2>1. ASSUME NEW l PROVE ToldLast(l)' <=> ToldLast(l)
    BY <1>6 DEF ToldLast, Shown, LayoutOf
  <2>2. LayoutOf(FirstConfig)' = LayoutOf(FirstConfig)
    BY <1>9 DEF LayoutOf
  <2>3. (\A op \in barOps : op.after = <<>>)' => ToldLast(LayoutOf(FirstConfig))'
    BY <2>1, <2>2 DEF IsTold
  <2>4. \A op \in barOps' : InHand(op)' => ToldLast(LayoutOf(op.after[1].old))'
    BY <1>8, <2>1 DEF IsTold
  <2> QED
    BY <2>3, <2>4 DEF IsTold
<1>12. \A m : Comes(m) => Comes(m)'
  <2>1. ASSUME NEW m, NEW i \in 1..n, m = LayoutOf(changes[i].new) PROVE Comes(m)'
    <3>1. i \in 1..Len(changes') /\ changes'[i] = changes[i]
      BY <1>3
    <3> QED
      BY <2>1, <3>1 DEF Comes, LayoutOf
  <2>2. ASSUME NEW m, NEW i \in 1..Len(barPage.inbox), m = barPage.inbox[i] PROVE Comes(m)'
    BY <1>6, <2>2 DEF Comes
  <2>3. ASSUME NEW m, NEW q \in barOps, InHand(q), m = LayoutOf(q.after[1].new) PROVE Comes(m)'
    BY <1>8, <2>3 DEF Comes, LayoutOf
  <2>4. \A m : Comes(m) =>
            \/ \E i \in 1..Len(barPage.inbox) : m = barPage.inbox[i]
            \/ \E q \in barOps : InHand(q) /\ m = LayoutOf(q.after[1].new)
            \/ \E i \in 1..n : m = LayoutOf(changes[i].new)
    BY DEF Comes
  <2> QED
    BY <2>1, <2>2, <2>3, <2>4
<1>13. (News => News') /\ (AskComes => AskComes')
  <2>1. Shown' = Shown
    BY <1>6 DEF Shown, LayoutOf
  <2> QED
    BY <1>6, <1>12, <2>1 DEF News, AskComes
<1>14. Unprepared => Unprepared'
  <2>1. ASSUME NEW i \in 1..n, changes[i].old.position # changes[i].new.position PROVE Unprepared'
    <3>1. i \in 1..Len(changes') /\ changes'[i] = changes[i]
      BY <1>3
    <3> QED
      BY <2>1, <3>1 DEF Unprepared
  <2> QED
    BY <1>8, <2>1 DEF Unprepared
<1>15. Relocates'
  <2>1. CASE new.position = barConfig.position
    BY <1>1, <1>4, <1>8, <1>14, <2>1, LoopRelocates
  <2>2. CASE new.position # barConfig.position
    <3>1. n + 1 \in 1..Len(changes') /\ changes'[n + 1].old.position # changes'[n + 1].new.position
      BY <1>2, <1>3, <2>2
    <3>2. Unprepared'
      BY <3>1 DEF Unprepared
    <3> QED
      BY <3>2 DEF Relocates
  <2> QED
    BY <2>1, <2>2
<1> QED
  BY <1>4, <1>5, <1>6, <1>7, <1>8, <1>10, <1>11, <1>13, <1>15, LoopStep

LEMMA ConfigKeeps ==
  ASSUME BarInv, SetEdge \/ SetBehavior \/ Prefer
  PROVE  BarInv'
<1>1. /\ barConfig = [position |-> barConfig.position, behavior |-> barConfig.behavior,
                      monitor |-> barConfig.monitor]
      /\ barConfig \in BarConfigs
  BY DEF BarInv, BarTypes, BarConfigs
<1>2. CASE SetEdge
  <2> DEFINE edge == IF barConfig.position = "top" THEN "bottom" ELSE "top"
             new  == [barConfig EXCEPT !.position = edge]
  <2>1. Change(new) /\ UNCHANGED <<bar, barWindow, barPage, barOps>>
    BY <1>2 DEF SetEdge
  <2>2. edge \in Edge
    BY DEF Edge
  <2> HIDE DEF edge
  <2>3. new \in BarConfigs
    BY <1>1, <2>2 DEF BarConfigs
  <2> QED
    BY <2>1, <2>3, ChangeKeeps
<1>3. CASE SetBehavior
  <2>1. PICK b \in Behavior : Change([barConfig EXCEPT !.behavior = b])
    BY <1>3 DEF SetBehavior
  <2>2. [barConfig EXCEPT !.behavior = b] \in BarConfigs
    BY <1>1 DEF BarConfigs
  <2>3. UNCHANGED <<bar, barWindow, barPage, barOps>>
    BY <1>3 DEF SetBehavior
  <2> QED
    BY <2>1, <2>2, <2>3, ChangeKeeps
<1>4. CASE Prefer
  <2>1. PICK m \in Monitor : Change([barConfig EXCEPT !.monitor = m])
    BY <1>4 DEF Prefer
  <2>2. [barConfig EXCEPT !.monitor = m] \in BarConfigs
    BY <1>1 DEF BarConfigs
  <2>3. UNCHANGED <<bar, barWindow, barPage, barOps>>
    BY <1>4 DEF Prefer
  <2> QED
    BY <2>1, <2>2, <2>3, ChangeKeeps
<1> QED
  BY <1>2, <1>3, <1>4

--------------------------------------------------------------------------------
\* The beginning, steps that change nothing, and the bar at rest.

LEMMA BarStarts ==
  ASSUME BarInit
  PROVE  BarInv
<1>1. barConfig \in BarConfigs /\ barConfig.position = "top" /\ barConfig.behavior = "reserve"
  BY BarDomains DEF BarInit, BarConfigs
<1>2. changes = <<>> /\ Len(changes) = 0 /\ changes \in Seq(BarChanges)
  BY EmptySeq DEF BarInit
<1>3. /\ barPage.inbox = <<Context>> /\ Len(barPage.inbox) = 1 /\ barPage.inbox[1] = Context
      /\ barPage.inbox \in Seq(BarLayouts \cup {Context})
  BY DEF BarInit
<1>4. PageTypes
  <2>1. barPage.sent \in Seq(BarReports) /\ barPage.asks \in Seq(BOOLEAN)
    BY EmptySeq DEF BarInit
  <2> QED
    BY <1>3, <2>1, BarDomains DEF BarInit, PageTypes
<1>5. LifeTypes
  BY DEF BarInit, LifeTypes
<1>6. barOps = {}
  BY DEF BarInit
<1>7. BarTypes
  BY <1>1, <1>2, <1>4, <1>5, <1>6 DEF BarTypes, BarInit
<1>8. Chain /\ Generations /\ Relocates
  BY <1>2, <1>6, SMT DEF Chain, Generations, Relocates, BarInit, NoEdge
<1>9. IsTold
  <2>1. FirstConfig = barConfig /\ LayoutOf(barConfig) = Shown
    BY <1>1, <1>2 DEF FirstConfig, LayoutOf, Shown, BarInit
  <2> QED
    BY <1>3, <1>6, <2>1 DEF IsTold, ToldLast
<1>10. News
  <2>1. Comes(Context)
    BY <1>3 DEF Comes
  <2>2. Shown \in BarLayouts
    BY <1>4 DEF PageTypes, Shown, LayoutOf, BarLayouts
  <2> QED
    BY <2>1, <2>2, BarDomains DEF News
<1>11. Reports
  <2>1. 1 \in 1..Len(barPage.inbox) /\ barPage.inbox[1] = Context
    BY <1>3
  <2>2. \E i \in 1..Len(barPage.inbox) : barPage.inbox[i] = Context
    BY <2>1
  <2>3. barPage.asked = Wants(barPage) /\ barPage.sent = <<>> /\ barPage.asks = <<>>
    BY DEF BarInit, Wants
  <2> QED
    BY <2>2, <2>3 DEF Reports
<1>12. SpaceOwed /\ FrameOwed
  BY <1>10 DEF SpaceOwed, FrameOwed
<1>13. RevealOwed /\ OffsetOwed
  BY DEF BarInit, RevealOwed, OffsetOwed
<1> QED
  BY <1>7, <1>8, <1>9, <1>11, <1>12, <1>13 DEF BarInv

LEMMA BarRests ==
  ASSUME BarInv, BarQuiet
  PROVE  BarHoldsItsPlace
<1> USE DEF BarInv
<1>1. ~News /\ ~AskComes /\ barOps = {}
  BY QuietIsNoNews DEF BarQuiet
<1>2. barConfig.position = barPage.position /\ barConfig.behavior = barPage.behavior
  <2>1. LayoutOf(barConfig) = Shown
    BY <1>1, NewIsNews, Agreement
  <2> QED
    BY <2>1 DEF LayoutOf, Shown
<1>3. BarReserves \/ bar.overruled
  BY <1>1, <1>2 DEF SpaceOwed, SpaceFits, Due, BarReserves
<1>4. bar.revealed = Wants(barPage) /\ bar.frame # Unplaced
  BY <1>1 DEF RevealOwed, FrameOwed, Reports
<1>5. Target(barConfig.behavior, Wants(barPage)) = Aim
  BY <1>2, <1>4 DEF Target, Wants, Aim
<1>6. /\ barWindow.offset = bar.offset
      /\ bar.offset = Aim \/ (bar.blind /\ bar.offset = "shown")
  BY <1>1, <1>4 DEF OffsetOwed
<1> QED
  BY <1>3, <1>5, <1>6 DEF BarHoldsItsPlace

LEMMA NothingKeeps ==
  ASSUME BarInv, UNCHANGED barVars
  PROVE  BarInv'
<1>1. /\ UNCHANGED <<barConfig, changes, bar, barWindow, barPage, barOps>>
  BY DEF barVars
<1>2. BarTypes'
  BY <1>1 DEF BarInv, BarTypes, LifeTypes, PageTypes
<1>3. Reports' /\ Generations'
  BY <1>1 DEF BarInv, Reports, Measurement, Wants, Generations, Places, Aim
<1>4. Chain' /\ Relocates'
  BY <1>1 DEF BarInv, Chain, InHand, FirstConfig, Relocates, Unprepared, Places
<1>5. IsTold'
  BY <1>1 DEF BarInv, IsTold, ToldLast, Shown, InHand, FirstConfig
<1>6. News' <=> News
  BY <1>1 DEF News, Comes, InHand, Shown
<1>7. SpaceOwed' /\ FrameOwed'
  BY <1>1, <1>6 DEF BarInv, SpaceOwed, SpaceFits, Due, FrameOwed
<1>8. AskComes' <=> AskComes
  BY <1>1 DEF AskComes, Comes, InHand
<1>9. RevealOwed' /\ OffsetOwed'
  BY <1>1, <1>8 DEF BarInv, RevealOwed, OffsetOwed, Aim
<1> QED
  BY <1>2, <1>3, <1>4, <1>5, <1>7, <1>9 DEF BarInv

\* SpaceIsAsReported and BarIsAsAsked, where no failure and no change of the behavior is in the way:
\* however edges, behaviors and monitors change, the page resizes and asks, monitors come and go,
\* steps fail and all of that overlaps, a bar at rest reserves what the config and its size say, and is
\* out exactly when the page wants it out; it is not where an older placement failed to show after a
\* newer one, or was placed with a behavior that has changed since.
THEOREM BarKeepsItsPlace == BarSpec => []BarHoldsItsPlace
<1>1. BarInit => BarInv
  BY BarStarts
<1>2. BarInv /\ [BarNext]_barVars => BarInv'
  <2> SUFFICES ASSUME BarInv, [BarNext]_barVars PROVE BarInv'
    OBVIOUS
  <2>1. CASE SetEdge \/ SetBehavior \/ Prefer
    BY <2>1, ConfigKeeps
  <2>2. CASE Plug
    BY <2>2, PlugKeeps
  <2>3. CASE TakeChange
    BY <2>3, TakeKeeps
  <2>4. CASE Resize
    BY <2>4, ResizeKeeps
  <2>5. CASE Hold
    BY <2>5, HoldKeeps
  <2>6. CASE HearLayout
    BY <2>6, HearKeeps
  <2>7. CASE Report
    BY <2>7, ReportKeeps
  <2>8. CASE \E instant \in BOOLEAN : Reveal(instant)
    BY <2>8, RevealKeeps
  <2>9. ASSUME NEW op \in barOps,
               \/ Reconcile(op) \/ PrepareMonitor(op) \/ MonitorStays(op) \/ MoveMonitor(op)
               \/ PrepareEdge(op) \/ TellLayout(op)
        PROVE  BarInv'
    BY <2>9, ReconcileKeeps, PrepareMonitorKeeps, StaysKeeps, MoveKeeps, PrepareEdgeKeeps, TellKeeps
  <2>10. ASSUME NEW op \in barOps,
                \/ PlaceBar(op) \/ Claim(op) \/ ShowBar(op) \/ ShowFails(op)
                \/ SettleReservation(op) \/ Glide(op)
         PROVE  BarInv'
    BY <2>10, PlaceKeeps, ClaimKeeps, ShowKeeps, ShowFailsKeeps, SettleKeeps, GlideKeeps
  <2>11. CASE UNCHANGED barVars
    BY <2>11, NothingKeeps
  <2> QED
    BY <2>1, <2>2, <2>3, <2>4, <2>5, <2>6, <2>7, <2>8, <2>9, <2>10, <2>11 DEF BarNext
<1>3. BarInv => BarHoldsItsPlace
  BY BarRests DEF BarHoldsItsPlace
<1> QED
  BY <1>1, <1>2, <1>3, PTL DEF BarSpec
================================================================================
