---------------------------- MODULE Messages_proofs ----------------------------
(* What the core and a plugin tell each other, and what the pages of smabar see of it. *)
EXTENDS PluginLifecycle, PluginEvents, SequenceTheorems, WellFoundedInduction, FiniteSetTheorems,
        TLAPS

--------------------------------------------------------------------------------
(****************************************************************************)
(* PluginLifecycle.  What reaches a plugin through its command channel:      *)
(* the answers that the callers of actions get are true, and the plugin      *)
(* knows its latest settings, for any settings, actions and capacities.      *)
(****************************************************************************)

\* A channel stays one when something is put at its end or its head is taken.
LEMMA PutTyped ==
    ASSUME NEW S, NEW s \in Seq(S), NEW e \in S
    PROVE  /\ Append(s, e) \in Seq(S) /\ Len(Append(s, e)) = Len(s) + 1
           /\ \A i \in 1..Len(s) : Append(s, e)[i] = s[i]
           /\ Append(s, e)[Len(s) + 1] = e
  OBVIOUS

LEMMA TakeTyped ==
    ASSUME NEW S, NEW s \in Seq(S), s # <<>>
    PROVE  /\ Tail(s) \in Seq(S) /\ Len(Tail(s)) = Len(s) - 1 /\ Head(s) = s[1] /\ Head(s) \in S
           /\ Len(s) \in Nat \ {0}
           /\ \A i \in 1..(Len(s) - 1) : Tail(s)[i] = s[i + 1]
  OBVIOUS

LEMMA NothingTyped == ASSUME NEW S PROVE <<>> \in Seq(S)
  OBVIOUS

\* The part of the types that the two promises need.
Types ==
    /\ settings \in Value /\ snaps \in Seq(Value) /\ applied \in Value
    /\ pushing \in Value \cup {NoValue} /\ cmds \in Seq(Command)
    /\ lagged \in BOOLEAN /\ everLagged \in BOOLEAN /\ mode \in {"recv", "resync"}
    /\ outcome \in [Action -> Outcome] /\ delivered \in SUBSET Action
    /\ phase \in Phases /\ stop \in {"none", "sending", "sent"}

\* Ways in which a step may change the command channel.
Kept   == cmds' = cmds
Put(c) == cmds' = Append(cmds, c)
Taken  == cmds # <<>> /\ cmds' = Tail(cmds)
Lost   == cmds' = <<>>

LEMMA TypesInit == Init => Types
  BY LifecycleAssumption, NothingTyped DEF Init, Types, Outcome, Phases

LEMMA TypesStep == ASSUME Types, [Next]_vars PROVE Types'
<1> USE DEF Types, configVars, loopVars, taskVars
<1>1. CASE EditSettings
  <2>1. PICK v \in Value : settings' = v /\ snaps' = Append(IF Len(snaps) < QueueCap THEN snaps ELSE Tail(snaps), v)
    BY <1>1 DEF EditSettings
  <2>2. snaps = <<>> \/ Tail(snaps) \in Seq(Value)
    BY TakeTyped
  <2>3. (IF Len(snaps) < QueueCap THEN snaps ELSE Tail(snaps)) \in Seq(Value)
    BY <2>2, LifecycleAssumption
  <2> QED
    BY <1>1, <2>1, <2>3 DEF EditSettings
<1>2. CASE Loop
  <2>1. CASE LoopRecv
    BY <2>1, TakeTyped DEF LoopRecv, Apply
  <2>2. CASE LoopDrain
    BY <2>2, NothingTyped DEF LoopDrain
  <2>3. CASE LoopResync
    BY <2>3 DEF LoopResync, Apply
  <2>4. CASE LoopPush
    <3>1. pushing \in Value /\ [kind |-> "settings", arg |-> pushing] \in Command
      BY <2>4 DEF LoopPush, Command
    <3> QED
      BY <2>4, <3>1, PutTyped DEF LoopPush
  <2> QED
    BY <1>2, <2>1, <2>2, <2>3, <2>4 DEF Loop
<1>3. CASE Run
  <2>1. CASE Spawned \/ Initialized \/ BackoffOver
    BY <2>1 DEF Spawned, Initialized, BackoffOver, Phases
  <2>2. CASE RunFails \/ Stopped
    BY <2>2, NothingTyped DEF RunFails, Stopped, End, Dropped, Phases, Outcome
  <2>3. CASE TakeDown
    BY <2>3, TakeTyped, NothingTyped, ZenonT(40) DEF TakeDown, Next1, End, Dropped, Phases, Outcome
  <2>4. CASE TakeAction
    <3>1. cmds # <<>> /\ Head(cmds) \in Command /\ Head(cmds).kind = "action"
      BY <2>4, TakeTyped DEF TakeAction, Next1
    <3>2. Head(cmds).arg \in Action
      BY <3>1 DEF Command
    <3> QED
      BY <2>4, <3>1, <3>2, TakeTyped DEF TakeAction, Dropped, Outcome
  <2>5. CASE TakeSettings \/ TakeShutdown
    BY <2>5, TakeTyped DEF TakeSettings, TakeShutdown, Next1, Phases
  <2> QED
    BY <1>3, <2>1, <2>2, <2>3, <2>4, <2>5 DEF Run
<1>4. ASSUME NEW a \in Action, Dispatch(a) \/ ActionTimesOut(a) PROVE Types'
  <2>1. [kind |-> "action", arg |-> a] \in Command
    BY DEF Command
  <2>2. Append(cmds, [kind |-> "action", arg |-> a]) \in Seq(Command)
    BY <2>1, PutTyped
  <2>3. cmds' \in Seq(Command)
    BY <1>4, <2>2 DEF Dispatch, ActionTimesOut
  <2>4. \E answer \in Outcome : outcome' = [outcome EXCEPT ![a] = answer]
    BY <1>4 DEF Dispatch, ActionTimesOut, Outcome
  <2> QED
    BY <1>4, <2>3, <2>4 DEF Dispatch, ActionTimesOut
<1>5. CASE AskStop \/ Abort
  BY <1>5, NothingTyped DEF AskStop, Abort, End, Dropped, Phases, Outcome
<1>6. CASE SendStop
  <2>1. [kind |-> "shutdown", arg |-> NoValue] \in Command
    BY DEF Command
  <2> QED
    BY <1>6, <2>1, PutTyped DEF SendStop
<1>7. CASE UNCHANGED vars
  BY <1>7 DEF vars
<1> QED
  BY <1>1, <1>2, <1>3, <1>4, <1>5, <1>6, <1>7 DEF Next

--------------------------------------------------------------------------------
(* The answers. *)

IsAction(i, a) == cmds[i].kind = "action" /\ cmds[i].arg = a
\* An action is in the channel at most once, and while it is there nobody was told of an
\* outcome but a caller that left; before that, none was dispatched.
Pending(a) ==
    /\ \A i, j \in 1..Len(cmds) : IsAction(i, a) /\ IsAction(j, a) => i = j
    /\ (\E i \in 1..Len(cmds) : IsAction(i, a)) =>
           a \notin delivered /\ outcome[a] \in {"queued", "busy"}
    /\ outcome[a] \in {"none", "queued"} => a \notin delivered
    /\ outcome[a] = "ok" => a \in delivered
    /\ outcome[a] = "notRunning" => a \notin delivered
AnswersInv == \A a \in Action : Pending(a)

LEMMA AnswersInit == Init => AnswersInv
  BY DEF Init, AnswersInv, Pending, IsAction

\* A step that puts no action into the channel and tells nobody.
LEMMA QuietKeeps ==
    ASSUME Types, AnswersInv, UNCHANGED <<outcome, delivered>>,
           Kept \/ Lost \/ Taken \/ \E c \in Command : Put(c) /\ c.kind # "action"
    PROVE  AnswersInv'
<1> SUFFICES ASSUME NEW a \in Action PROVE Pending(a)'
  BY DEF AnswersInv
<1>1. Pending(a)
  BY DEF AnswersInv
<1>2. CASE Kept
  BY <1>1, <1>2 DEF Kept, Pending, IsAction
<1>3. CASE Lost
  BY <1>1, <1>3 DEF Lost, Pending, IsAction
<1>4. CASE Taken
  <2>1. /\ Len(cmds') = Len(cmds) - 1 /\ Len(cmds) \in Nat
        /\ \A i \in 1..(Len(cmds) - 1) : cmds'[i] = cmds[i + 1]
    BY <1>4, TakeTyped DEF Taken, Types
  <2>2. \A i \in 1..Len(cmds') : (i + 1) \in 1..Len(cmds) /\ (IsAction(i, a)' => IsAction(i + 1, a))
    BY <2>1 DEF IsAction
  <2> QED
    BY <1>1, <2>1, <2>2 DEF Pending
<1>5. ASSUME NEW c \in Command, Put(c), c.kind # "action" PROVE Pending(a)'
  <2>1. /\ Len(cmds') = Len(cmds) + 1 /\ cmds'[Len(cmds) + 1] = c /\ Len(cmds) \in Nat
        /\ \A i \in 1..Len(cmds) : cmds'[i] = cmds[i]
    BY <1>5, PutTyped DEF Put, Types
  <2> QED
    BY <1>1, <1>5, <2>1 DEF Pending, IsAction
<1> QED
  BY <1>2, <1>3, <1>4, <1>5

\* The channel is lost with everything in it, whose callers are told so.
LEMMA EndKeeps ==
    ASSUME Types, AnswersInv, NEW how, End(how), UNCHANGED delivered PROVE AnswersInv'
<1> SUFFICES ASSUME NEW a \in Action PROVE Pending(a)'
  BY DEF AnswersInv
<1>1. Pending(a)
  BY DEF AnswersInv
<1>2. cmds' = <<>> /\ outcome'[a] \in {outcome[a], "notRunning"}
      /\ (outcome'[a] # outcome[a] => outcome[a] = "queued")
  BY DEF End, Dropped, Types
<1> QED
  BY <1>1, <1>2 DEF Pending, IsAction, Types

\* The head of the channel is an action: it is handed over or dropped.
LEMMA HeadKeeps ==
    ASSUME Types, AnswersInv, Next1("action"), cmds' = Tail(cmds),
           \/ Dropped({Head(cmds).arg}) /\ UNCHANGED delivered
           \/ /\ delivered' = delivered \cup {Head(cmds).arg}
              /\ outcome' = [outcome EXCEPT ![Head(cmds).arg] = IF @ = "queued" THEN "ok" ELSE @]
    PROVE  AnswersInv'
<1> SUFFICES ASSUME NEW a \in Action PROVE Pending(a)'
  BY DEF AnswersInv
<1>1. Pending(a)
  BY DEF AnswersInv
<1>2. /\ cmds # <<>> /\ Head(cmds) = cmds[1] /\ Len(cmds) \in Nat \ {0}
      /\ Len(cmds') = Len(cmds) - 1
      /\ \A i \in 1..(Len(cmds) - 1) : cmds'[i] = cmds[i + 1]
  BY TakeTyped DEF Next1, Types
<1>3. CASE Head(cmds).arg = a
  <2>1. IsAction(1, a) /\ outcome[a] \in {"queued", "busy"} /\ a \notin delivered
    BY <1>1, <1>2, <1>3 DEF Next1, IsAction, Pending
  <2>2. \A i \in 1..Len(cmds') : ~IsAction(i, a)'
    BY <1>1, <1>2, <2>1 DEF Pending, IsAction
  <2>3. \/ outcome'[a] \in {"notRunning", "busy"} /\ a \notin delivered'
        \/ outcome'[a] \in {"ok", "busy"} /\ a \in delivered'
    BY <1>3, <2>1 DEF Dropped, Types
  <2> QED
    BY <2>2, <2>3 DEF Pending
<1>4. CASE Head(cmds).arg # a
  <2>1. outcome'[a] = outcome[a] /\ (a \in delivered' <=> a \in delivered)
    BY <1>4 DEF Dropped, Types
  <2> QED
    BY <1>1, <1>2, <2>1 DEF Pending, IsAction
<1> QED
  BY <1>3, <1>4

LEMMA DispatchKeeps ==
    ASSUME Types, AnswersInv, NEW b \in Action, Dispatch(b) \/ ActionTimesOut(b) PROVE AnswersInv'
<1> SUFFICES ASSUME NEW a \in Action PROVE Pending(a)'
  BY DEF AnswersInv
<1>1. Pending(a) /\ Pending(b) /\ delivered' = delivered
  BY DEF AnswersInv, Dispatch, ActionTimesOut
<1>2. CASE cmds' = cmds /\ \E answer \in {"busy", "notRunning"} :
            /\ outcome' = [outcome EXCEPT ![b] = answer]
            /\ outcome[b] = "none" \/ (outcome[b] = "queued" /\ answer = "busy")
  <2>1. outcome'[a] = outcome[a] \/ (outcome[a] \in {"none", "queued"} /\ outcome'[a] = "busy")
        \/ (outcome[a] = "none" /\ outcome'[a] = "notRunning")
    BY <1>2 DEF Types
  <2> QED
    BY <1>1, <1>2, <2>1 DEF Pending, IsAction
<1>3. CASE cmds' = Append(cmds, [kind |-> "action", arg |-> b]) /\ outcome' = [outcome EXCEPT ![b] = "queued"]
           /\ outcome[b] = "none"
  <2>1. [kind |-> "action", arg |-> b] \in Command
    BY DEF Command
  <2>2. /\ Len(cmds') = Len(cmds) + 1 /\ cmds'[Len(cmds) + 1] = [kind |-> "action", arg |-> b]
        /\ Len(cmds) \in Nat /\ \A i \in 1..Len(cmds) : cmds'[i] = cmds[i]
    BY <1>3, <2>1, PutTyped DEF Types
  <2>3. CASE a = b
    <3>1. (\A i \in 1..Len(cmds) : ~IsAction(i, b)) /\ b \notin delivered
      BY <1>1, <1>3 DEF Pending
    <3> QED
      BY <1>1, <1>3, <2>2, <2>3, <3>1 DEF Pending, IsAction, Types
  <2>4. CASE a # b
    BY <1>1, <1>3, <2>2, <2>4 DEF Pending, IsAction, Types
  <2> QED
    BY <2>3, <2>4
<1> QED
  BY <1>2, <1>3 DEF Dispatch, ActionTimesOut

LEMMA AnswersStep == ASSUME Types, AnswersInv, [Next]_vars PROVE AnswersInv'
<1> USE DEF configVars, loopVars, taskVars, Kept, Put, Taken, Lost
<1>1. CASE EditSettings \/ LoopRecv \/ LoopDrain \/ LoopResync \/ Spawned \/ Initialized \/ BackoffOver \/ AskStop
  <2>1. UNCHANGED <<cmds, outcome, delivered>>
    BY <1>1 DEF EditSettings, LoopRecv, LoopDrain, LoopResync, Spawned, Initialized, BackoffOver, AskStop
  <2> QED
    BY <2>1, QuietKeeps
<1>2. CASE LoopPush \/ SendStop
  <2>1. /\ pushing \in Value => [kind |-> "settings", arg |-> pushing] \in Command
        /\ [kind |-> "shutdown", arg |-> NoValue] \in Command
    BY DEF Command
  <2> QED
    BY <1>2, <2>1, QuietKeeps DEF LoopPush, SendStop, Types
<1>3. CASE RunFails
  <2>1. CASE End("failed")
    BY <1>3, <2>1, EndKeeps DEF RunFails
  <2>2. CASE UNCHANGED <<cmds, outcome>>
    BY <1>3, <2>2, QuietKeeps DEF RunFails
  <2> QED
    BY <1>3, <2>1, <2>2 DEF RunFails
<1>4. CASE Stopped \/ Abort
  BY <1>4, EndKeeps DEF Stopped, Abort
<1>5. CASE TakeDown
  <2>1. CASE End("stopped")
    BY <1>5, <2>1, EndKeeps DEF TakeDown
  <2>2. CASE Next1("action") /\ cmds' = Tail(cmds) /\ Dropped({Head(cmds).arg})
    BY <1>5, <2>2, HeadKeeps DEF TakeDown
  <2>3. CASE Next1("settings") /\ cmds' = Tail(cmds) /\ UNCHANGED outcome
    BY <1>5, <2>3, QuietKeeps DEF TakeDown, Next1
  <2> QED
    BY <1>5, <2>1, <2>2, <2>3 DEF TakeDown
<1>6. CASE TakeAction
  BY <1>6, HeadKeeps DEF TakeAction
<1>7. CASE TakeSettings \/ TakeShutdown
  BY <1>7, QuietKeeps DEF TakeSettings, TakeShutdown, Next1
<1>8. ASSUME NEW a \in Action, Dispatch(a) \/ ActionTimesOut(a) PROVE AnswersInv'
  BY <1>8, DispatchKeeps
<1>9. CASE UNCHANGED vars
  BY <1>9, QuietKeeps DEF vars
<1> QED
  BY <1>1, <1>2, <1>3, <1>4, <1>5, <1>6, <1>7, <1>8, <1>9 DEF Next, Loop, Run

\* What the caller of an action is told is true (supervisor.rs, dispatch_action; runner.rs).
THEOREM AnswersCorrect == Spec => []AnswersAreHonest
<1>1. Types /\ AnswersInv /\ [Next]_vars => (Types /\ AnswersInv)'
  BY TypesStep, AnswersStep
<1>2. AnswersInv => AnswersAreHonest
  BY DEF AnswersInv, Pending, AnswersAreHonest
<1> QED
  BY <1>1, <1>2, TypesInit, AnswersInit, PTL DEF Spec

--------------------------------------------------------------------------------
(* The settings.  While the config loop has lost nothing, what it applied last and the snapshots *)
(* it has not received yet end in the settings of the config, and each of them is a change.      *)

ChainInv ==
    /\ Len(snaps) <= QueueCap
    /\ IF snaps = <<>> THEN applied = settings ELSE snaps[Len(snaps)] = settings
    /\ snaps # <<>> => snaps[1] # applied
    /\ \A i \in 1..(Len(snaps) - 1) : snaps[i] # snaps[i + 1]
    /\ pushing # NoValue => pushing = applied

IsSettings(i) == cmds[i].kind = "settings"
IsLast(i) == IsSettings(i) /\ \A j \in 1..Len(cmds) : IsSettings(j) => j <= i
\* What the task finds in its channel ends in what was applied last ...
PushedInv == stop = "none" /\ pushing = NoValue => \A i \in 1..Len(cmds) : IsLast(i) => cmds[i].arg = applied
\* ... and once it has nothing to find, the process was told it.
ToldInv ==
    phase = "serve" /\ stop = "none" /\ pushing = NoValue /\ snaps = <<>>
        /\ (\A i \in 1..Len(cmds) : ~IsSettings(i)) => view = applied

LatestInv ==
    /\ lagged \/ mode = "resync" => everLagged
    /\ phase = "ended" => cmds = <<>>
    /\ phase = "init" => view = snap
    /\ ~everLagged => ChainInv /\ PushedInv /\ ToldInv

LEMMA LatestInit == Init => LatestInv
  BY LifecycleAssumption DEF Init, LatestInv, ChainInv, PushedInv, ToldInv

\* The channel changes in a way that leaves the pushed settings in it.
LEMMA ChannelKeeps ==
    ASSUME Types, LatestInv, ~everLagged, UNCHANGED <<stop, pushing, applied>>,
           Kept \/ Lost \/ Taken \/ \E c \in Command : Put(c) /\ c.kind # "settings"
    PROVE  PushedInv'
<1> SUFFICES ASSUME stop = "none", pushing = NoValue PROVE PushedInv'
  BY DEF PushedInv
<1>0. \A i \in 1..Len(cmds) : IsLast(i) => cmds[i].arg = applied
  BY DEF LatestInv, PushedInv
<1>1. CASE Kept
  BY <1>0, <1>1 DEF Kept, PushedInv, IsLast, IsSettings
<1>2. CASE Lost
  BY <1>2 DEF Lost, PushedInv
<1>3. CASE Taken
  <2>1. /\ Len(cmds') = Len(cmds) - 1 /\ Len(cmds) \in Nat
        /\ \A i \in 1..(Len(cmds) - 1) : cmds'[i] = cmds[i + 1]
    BY <1>3, TakeTyped DEF Taken, Types
  <2>2. ASSUME NEW i \in 1..Len(cmds'), IsLast(i)' PROVE cmds'[i].arg = applied'
    <3>1. (i + 1) \in 1..Len(cmds) /\ IsSettings(i + 1) /\ cmds'[i] = cmds[i + 1]
      BY <2>1, <2>2 DEF IsLast, IsSettings
    <3>2. ASSUME NEW j \in 1..Len(cmds), IsSettings(j) PROVE j <= i + 1
      <4>1. CASE j = 1
        BY <2>1, <4>1
      <4>2. CASE j # 1
        <5>1. (j - 1) \in 1..Len(cmds') /\ cmds'[j - 1] = cmds[j]
          BY <2>1, <4>2
        <5> QED
          BY <2>2, <3>2, <5>1 DEF IsLast, IsSettings
      <4> QED
        BY <4>1, <4>2
    <3> QED
      BY <1>0, <3>1, <3>2 DEF IsLast
  <2> QED
    BY <2>2 DEF PushedInv
<1>4. ASSUME NEW c \in Command, Put(c), c.kind # "settings" PROVE PushedInv'
  <2>1. /\ Len(cmds') = Len(cmds) + 1 /\ cmds'[Len(cmds) + 1] = c /\ Len(cmds) \in Nat
        /\ \A i \in 1..Len(cmds) : cmds'[i] = cmds[i]
    BY <1>4, PutTyped DEF Put, Types
  <2> QED
    BY <1>0, <1>4, <2>1 DEF PushedInv, IsLast, IsSettings
<1> QED
  BY <1>1, <1>2, <1>3, <1>4

\* A step that does not concern the settings: nothing told, nothing pushed, nothing changed.
LEMMA AsideKeeps ==
    ASSUME Types, LatestInv, UNCHANGED <<settings, snaps, lagged, everLagged, mode, applied, pushing, stop>>,
           phase' = "ended" => cmds' = <<>>,
           phase' = "init" => phase = "init" /\ UNCHANGED <<view, snap>>,
           phase' = "serve" => phase = "serve" /\ view' = view,
           \/ Kept
           \/ Lost /\ phase' = "ended"
           \/ Taken /\ (phase' = "serve" => cmds[1].kind # "settings")
           \/ \E c \in Command : Put(c) /\ c.kind # "settings"
    PROVE  LatestInv'
<1> SUFFICES ASSUME ~everLagged PROVE (ChainInv /\ PushedInv /\ ToldInv)'
  BY DEF LatestInv
<1>1. ChainInv'
  BY DEF LatestInv, ChainInv
<1>2. PushedInv'
  BY ChannelKeeps
<1>3. ToldInv'
  <2> SUFFICES ASSUME phase' = "serve", \A i \in 1..Len(cmds') : ~IsSettings(i)'
               PROVE  \A i \in 1..Len(cmds) : ~IsSettings(i)
    BY DEF LatestInv, ToldInv
  <2>1. CASE Kept
    BY <2>1 DEF Kept, IsSettings
  <2>2. CASE Taken /\ cmds[1].kind # "settings"
    <3>1. /\ Len(cmds') = Len(cmds) - 1 /\ Len(cmds) \in Nat
          /\ \A i \in 1..(Len(cmds) - 1) : cmds'[i] = cmds[i + 1]
      BY <2>2, TakeTyped DEF Taken, Types
    <3>2. ASSUME NEW i \in 1..Len(cmds), i # 1 PROVE ~IsSettings(i)
      <4>1. (i - 1) \in 1..Len(cmds') /\ cmds'[i - 1] = cmds[i]
        BY <3>1, <3>2
      <4> QED
        BY <4>1 DEF IsSettings
    <3> QED
      BY <2>2, <3>2 DEF IsSettings
  <2>3. ASSUME NEW c \in Command, Put(c) PROVE \A i \in 1..Len(cmds) : ~IsSettings(i)
    <3>1. /\ Len(cmds') = Len(cmds) + 1 /\ Len(cmds) \in Nat
          /\ \A i \in 1..Len(cmds) : cmds'[i] = cmds[i]
      BY <2>3, PutTyped DEF Put, Types
    <3> QED
      BY <3>1 DEF IsSettings
  <2> QED
    BY <2>1, <2>2, <2>3
<1> QED
  BY <1>1, <1>2, <1>3

\* The user's change joins the chain; the config loop takes the next of it.
LEMMA ConfigKeeps ==
    ASSUME Types, LatestInv, EditSettings \/ LoopRecv \/ LoopDrain \/ LoopResync PROVE LatestInv'
<1> USE DEF configVars, loopVars, taskVars
<1>1. /\ lagged' \/ mode' = "resync" => everLagged'
      /\ UNCHANGED <<cmds, phase, view, snap, stop>>
  <2>1. CASE EditSettings
    BY <2>1 DEF LatestInv, EditSettings
  <2>2. CASE LoopRecv \/ LoopResync
    BY <2>2 DEF LatestInv, LoopRecv, LoopResync
  <2>3. CASE LoopDrain
    BY <2>3 DEF LatestInv, LoopDrain
  <2> QED
    BY <2>1, <2>2, <2>3
<1> SUFFICES ASSUME ~everLagged' PROVE (ChainInv /\ PushedInv /\ ToldInv)'
  BY <1>1 DEF LatestInv
<1>2. CASE EditSettings
  <2>1. /\ ~everLagged /\ Len(snaps) # QueueCap /\ UNCHANGED <<applied, pushing>>
        /\ \E v \in Value \ {settings} :
               settings' = v /\ snaps' = Append(IF Len(snaps) < QueueCap THEN snaps ELSE Tail(snaps), v)
    BY <1>2 DEF EditSettings, LatestInv
  <2>2. PICK v \in Value \ {settings} : settings' = v /\ snaps' = Append(snaps, v)
    <3>1. Len(snaps) <= QueueCap
      BY <2>1 DEF LatestInv, ChainInv
    <3> QED
      BY <2>1, <3>1, LifecycleAssumption DEF Types
  <2>3. /\ Len(snaps') = Len(snaps) + 1 /\ Len(snaps) \in Nat /\ snaps'[Len(snaps) + 1] = v
        /\ \A i \in 1..Len(snaps) : snaps'[i] = snaps[i]
    BY <2>2, PutTyped DEF Types
  <2>4. snaps' # <<>>
    BY <2>3
  <2>5. snaps'[1] # applied'
    BY <2>1, <2>2, <2>3 DEF LatestInv, ChainInv, Types
  <2>6. ASSUME NEW i \in 1..(Len(snaps') - 1) PROVE snaps'[i] # snaps'[i + 1]
    <3>1. CASE i = Len(snaps)
      <4>1. snaps[i] = settings
        BY <2>1, <2>3, <3>1 DEF LatestInv, ChainInv
      <4> QED
        BY <2>2, <2>3, <3>1, <4>1
    <3>2. CASE i # Len(snaps)
      <4>1. i \in 1..(Len(snaps) - 1) /\ (i + 1) \in 1..Len(snaps) /\ i \in 1..Len(snaps)
        BY <2>3, <3>2
      <4> QED
        BY <2>1, <2>3, <4>1 DEF LatestInv, ChainInv
    <3> QED
      BY <3>1, <3>2
  <2>7. ChainInv'
    <3>1. Len(snaps') <= QueueCap
      BY <2>1, <2>3, LifecycleAssumption DEF LatestInv, ChainInv
    <3>2. snaps'[Len(snaps')] = settings'
      BY <2>2, <2>3
    <3>3. pushing' # NoValue => pushing' = applied'
      BY <2>1 DEF LatestInv, ChainInv
    <3> QED
      BY <2>4, <2>5, <2>6, <3>1, <3>2, <3>3 DEF ChainInv
  <2> QED
    BY <1>1, <2>1, <2>4, <2>7 DEF LatestInv, PushedInv, ToldInv, IsLast, IsSettings
<1>3. CASE LoopRecv
  <2>1. /\ ~everLagged /\ snaps # <<>> /\ snaps' = Tail(snaps) /\ settings' = settings
        /\ applied' = Head(snaps) /\ pushing' = IF Head(snaps) # applied /\ stop = "none" THEN Head(snaps) ELSE NoValue
    BY <1>3 DEF LoopRecv, Apply
  <2>2. /\ Len(snaps') = Len(snaps) - 1 /\ Len(snaps) \in Nat \ {0} /\ applied' = snaps[1]
        /\ Head(snaps) \in Value /\ snaps' \in Seq(Value)
        /\ \A i \in 1..(Len(snaps) - 1) : snaps'[i] = snaps[i + 1]
    BY <2>1, TakeTyped DEF Types
  <2>3. stop = "none" => pushing' # NoValue
    BY <2>1, <2>2, LifecycleAssumption DEF LatestInv, ChainInv
  <2>4. ChainInv'
    <3>1. IF snaps' = <<>> THEN applied' = settings' ELSE snaps'[Len(snaps')] = settings'
      <4>1. snaps[Len(snaps)] = settings
        BY <2>1 DEF LatestInv, ChainInv
      <4>2. CASE Len(snaps) = 1
        BY <2>1, <2>2, <4>1, <4>2
      <4>3. CASE Len(snaps) # 1
        <5>1. Len(snaps') \in 1..(Len(snaps) - 1) /\ Len(snaps') + 1 = Len(snaps)
          BY <2>2, <4>3
        <5>2. snaps' # <<>> /\ snaps'[Len(snaps')] = snaps[Len(snaps)]
          BY <2>2, <5>1
        <5> QED
          BY <2>1, <4>1, <5>2
      <4> QED
        BY <4>2, <4>3
    <3>2. snaps' # <<>> => snaps'[1] # applied'
      <4>1. ASSUME snaps' # <<>> PROVE snaps'[1] = snaps[2] /\ 1 \in 1..(Len(snaps) - 1)
        BY <2>2, <4>1
      <4>2. \A i \in 1..(Len(snaps) - 1) : snaps[i] # snaps[i + 1]
        BY <2>1 DEF LatestInv, ChainInv
      <4> QED
        BY <2>2, <4>1, <4>2
    <3>3. \A i \in 1..(Len(snaps') - 1) : snaps'[i] # snaps'[i + 1]
      <4>1. ASSUME NEW i \in 1..(Len(snaps') - 1)
            PROVE  snaps'[i] = snaps[i + 1] /\ snaps'[i + 1] = snaps[i + 2] /\ (i + 1) \in 1..(Len(snaps) - 1)
        BY <2>2
      <4>2. \A i \in 1..(Len(snaps) - 1) : snaps[i] # snaps[i + 1]
        BY <2>1 DEF LatestInv, ChainInv
      <4>3. ASSUME NEW i \in 1..(Len(snaps') - 1) PROVE snaps'[i] # snaps'[i + 1]
        <5>0. (i + 1) \in 1..(Len(snaps) - 1) /\ (i + 1) + 1 = i + 2
          BY <2>2, <4>1
        <5>1. snaps[i + 1] # snaps[(i + 1) + 1]
          BY <5>0, <4>2
        <5> QED
          BY <4>1, <5>1
      <4> QED
        BY <4>3
    <3> QED
      <4>1. Len(snaps') <= QueueCap
        BY <2>1, <2>2, LifecycleAssumption DEF LatestInv, ChainInv
      <4>2. pushing' # NoValue => pushing' = applied'
        BY <2>1
      <4> QED
        BY <3>1, <3>2, <3>3, <4>1, <4>2 DEF ChainInv
  <2> QED
    BY <1>1, <2>3, <2>4 DEF PushedInv, ToldInv
<1>4. CASE LoopDrain \/ LoopResync
  BY <1>4 DEF LoopDrain, LoopResync, LatestInv
<1> QED
  BY <1>2, <1>3, <1>4

\* What the loop pushes is what it applied last, and it comes last in the channel.
LEMMA PushKeeps == ASSUME Types, LatestInv, LoopPush PROVE LatestInv'
<1>1. UNCHANGED <<configVars, mode, applied, taskVars, stop>> /\ pushing # NoValue /\ pushing' = NoValue
  BY DEF LoopPush
<1>2. (phase = "ended" /\ cmds' = cmds)
      \/ (phase # "ended" /\ cmds' = Append(cmds, [kind |-> "settings", arg |-> pushing]))
  BY DEF LoopPush
<1> SUFFICES ASSUME ~everLagged PROVE (PushedInv /\ ToldInv)'
  BY <1>1, <1>2 DEF LatestInv, ChainInv, configVars, taskVars
<1>3. pushing = applied
  BY <1>1 DEF LatestInv, ChainInv
<1>4. CASE phase = "ended"
  BY <1>1, <1>2, <1>4 DEF LatestInv, PushedInv, ToldInv, taskVars
<1>5. CASE phase # "ended"
  <2>1. [kind |-> "settings", arg |-> pushing] \in Command
    BY <1>1 DEF Types, Command
  <2>2. /\ Len(cmds') = Len(cmds) + 1 /\ Len(cmds) \in Nat
        /\ cmds'[Len(cmds) + 1] = [kind |-> "settings", arg |-> pushing]
    BY <1>2, <1>5, <2>1, PutTyped DEF Types
  <2>3. PICK n \in 1..Len(cmds') : n = Len(cmds') /\ n = Len(cmds) + 1
    BY <2>2
  <2>4. IsSettings(n)' /\ cmds'[n].arg = applied
    BY <1>3, <2>2, <2>3 DEF IsSettings
  <2>5. \A i \in 1..Len(cmds') : IsLast(i)' => i = n
    BY <2>2, <2>3, <2>4 DEF IsLast
  <2> QED
    BY <1>1, <2>3, <2>4, <2>5 DEF PushedInv, ToldInv
<1> QED
  BY <1>4, <1>5

\* What a process is told when it starts to serve, and from its channel.
LEMMA TellKeeps == ASSUME Types, LatestInv, Spawned \/ Initialized \/ TakeSettings PROVE LatestInv'
<1> USE DEF configVars, loopVars
<1>1. UNCHANGED <<settings, snaps, lagged, everLagged, mode, applied, pushing, stop>>
  BY DEF Spawned, Initialized, TakeSettings
<1>2. CASE Spawned
  BY <1>2 DEF Spawned, LatestInv, ChainInv, PushedInv, ToldInv, IsLast, IsSettings
<1>3. CASE Initialized
  <2>1. /\ phase = "init" /\ phase' = "serve" /\ cmds' = cmds
        /\ view' = IF settings # snap THEN settings ELSE view
    BY <1>3 DEF Initialized
  <2>2. view' = settings
    BY <2>1 DEF LatestInv
  <2> QED
    BY <1>1, <2>1, <2>2 DEF LatestInv, ChainInv, PushedInv, ToldInv, IsLast, IsSettings
<1>4. CASE TakeSettings
  <2>1. /\ phase = "serve" /\ phase' = "serve" /\ cmds # <<>> /\ cmds' = Tail(cmds)
        /\ view' = Head(cmds).arg
    BY <1>4 DEF TakeSettings, Next1
  <2>2. /\ Len(cmds') = Len(cmds) - 1 /\ Len(cmds) \in Nat \ {0} /\ Head(cmds) = cmds[1]
        /\ \A i \in 1..(Len(cmds) - 1) : cmds'[i] = cmds[i + 1]
    BY <2>1, TakeTyped DEF Types
  <2> SUFFICES ASSUME ~everLagged PROVE (ChainInv /\ PushedInv /\ ToldInv)'
    BY <1>1, <2>1 DEF LatestInv
  <2>3. ChainInv'
    BY <1>1 DEF LatestInv, ChainInv
  <2>4. PushedInv'
    BY <1>1, <2>1, ChannelKeeps DEF Taken
  <2>5. ToldInv'
    <3> SUFFICES ASSUME stop = "none", pushing = NoValue, \A i \in 1..Len(cmds') : ~IsSettings(i)'
                 PROVE  view' = applied
      BY <1>1 DEF ToldInv
    <3>1. ASSUME NEW i \in 1..Len(cmds), i # 1 PROVE ~IsSettings(i)
      <4>1. (i - 1) \in 1..Len(cmds') /\ cmds'[i - 1] = cmds[i]
        BY <2>2, <3>1
      <4> QED
        BY <4>1 DEF IsSettings
    <3>2. IsSettings(1)
      BY <1>4, <2>2 DEF TakeSettings, Next1, IsSettings
    <3>3. IsLast(1) /\ 1 \in 1..Len(cmds)
      BY <2>2, <3>1, <3>2 DEF IsLast
    <3> QED
      BY <2>1, <2>2, <3>3 DEF LatestInv, PushedInv
  <2> QED
    BY <2>3, <2>4, <2>5
<1> QED
  BY <1>2, <1>3, <1>4

\* A stop: nothing is promised to a plugin that is to stop.
LEMMA StopKeeps == ASSUME Types, LatestInv, AskStop \/ SendStop PROVE LatestInv'
<1>1. UNCHANGED <<configVars, loopVars, taskVars>> /\ stop' # "none" /\ (phase = "ended" => cmds' = cmds)
  BY DEF AskStop, SendStop
<1> QED
  BY <1>1 DEF LatestInv, ChainInv, PushedInv, ToldInv, configVars, loopVars, taskVars

LEMMA LatestStep == ASSUME Types, LatestInv, [Next]_vars PROVE LatestInv'
<1> USE DEF configVars, loopVars, taskVars, Kept, Put, Taken, Lost
<1>1. CASE RunFails \/ BackoffOver
  <2>1. \/ phase' = "ended" /\ cmds' = <<>>
        \/ phase' \in {"backoff", "prepare"} /\ cmds' = cmds
    BY <1>1 DEF RunFails, BackoffOver, End
  <2> QED
    BY <1>1, <2>1, AsideKeeps DEF RunFails, BackoffOver
<1>2. CASE Stopped \/ Abort
  BY <1>2, AsideKeeps DEF Stopped, Abort, End
<1>3. CASE TakeDown
  <2>1. \/ phase' = "ended" /\ cmds' = <<>>
        \/ phase' = phase /\ phase \in {"prepare", "backoff"} /\ cmds # <<>> /\ cmds' = Tail(cmds)
    BY <1>3 DEF TakeDown, Next1, End
  <2> QED
    BY <1>3, <2>1, AsideKeeps DEF TakeDown
<1>4. CASE TakeAction \/ TakeShutdown
  <2>1. cmds # <<>> /\ cmds' = Tail(cmds) /\ Head(cmds).kind # "settings" /\ phase' \in {"serve", "stopping"}
    BY <1>4 DEF TakeAction, TakeShutdown, Next1
  <2>2. cmds[1].kind # "settings"
    BY <2>1, TakeTyped DEF Types
  <2> QED
    BY <1>4, <2>1, <2>2, AsideKeeps DEF TakeAction, TakeShutdown
<1>5. ASSUME NEW a \in Action, Dispatch(a) \/ ActionTimesOut(a) PROVE LatestInv'
  <2>1. [kind |-> "action", arg |-> a] \in Command
    BY DEF Command
  <2>2. \/ cmds' = cmds
        \/ phase # "ended" /\ cmds' = Append(cmds, [kind |-> "action", arg |-> a])
    BY <1>5 DEF Dispatch, ActionTimesOut
  <2>3. UNCHANGED <<configVars, loopVars, taskVars, stop>>
    BY <1>5 DEF Dispatch, ActionTimesOut
  <2> QED
    BY <2>1, <2>2, <2>3, AsideKeeps DEF LatestInv
<1>6. CASE UNCHANGED vars
  BY <1>6, AsideKeeps DEF vars, LatestInv
<1> QED
  BY <1>1, <1>2, <1>3, <1>4, <1>5, <1>6, ConfigKeeps, PushKeeps, TellKeeps, StopKeeps DEF Next, Loop, Run

\* A serving plugin for which nothing is in flight was told its latest settings (watcher.rs,
\* config_change_loop; runner.rs, serve and backoff_wait).
THEOREM SeesLatestCorrect == Spec => []PluginSeesLatest
<1>1. Types /\ LatestInv /\ [Next]_vars => (Types /\ LatestInv)'
  BY TypesStep, LatestStep
<1>2. Types /\ LatestInv => PluginSeesLatest
  <2> SUFFICES ASSUME Types, LatestInv, ~everLagged, phase = "serve", stop = "none", ~SettingsInFlight
               PROVE  view = settings
    BY DEF PluginSeesLatest, SeesLatest
  <2>1. snaps = <<>> /\ pushing = NoValue /\ \A i \in DOMAIN cmds : cmds[i].kind # "settings"
    BY DEF SettingsInFlight, LoopIdle
  <2>2. DOMAIN cmds = 1..Len(cmds)
    BY DEF Types
  <2> QED
    BY <2>1, <2>2 DEF LatestInv, ChainInv, ToldInv, IsSettings
<1> QED
  BY <1>1, <1>2, TypesInit, LatestInit, PTL DEF Spec

--------------------------------------------------------------------------------
(****************************************************************************)
(* PluginEvents.  What the shell has received, collected and still waits     *)
(* for makes up what the supervisor has cached, for any tiles, contents      *)
(* and capacity of the channel.                                              *)
(****************************************************************************)

LEMMA LeastOf == ASSUME NEW S \in SUBSET Nat, S # {} PROVE \E i \in S : \A j \in S : i <= j
<1>1. PICK i \in S : \A j \in S : <<j, i>> \notin OpToRel(<, Nat)
  BY WFMin, NatLessThanWellFounded, Zenon
<1>2. \A j \in S : ~(j < i)
  BY <1>1, Zenon DEF OpToRel
<1>3. i \in Nat /\ \A j \in S : j \in Nat
  OBVIOUS
<1> QED
  BY <1>2, <1>3

\* One event, applied to the cache or to what delivery holds.
Applied(whole, c, e) == IF whole THEN Handled(c, e) ELSE Recorded(c, e)

\* What the fold of the library is defined by exists.
Folding(iter, whole, c, s, n) ==
    iter = [S \in SUBSET (1 .. n) |-> IF S = {} THEN c
                                      ELSE Applied(whole, iter[S \ {Max(S)}], s[Max(S)])]

LEMMA MaxIsLast == ASSUME NEW n \in Nat, NEW S \in SUBSET (1 .. n), n \in S PROVE Max(S) = n
<1>1. \A x \in S : x <= n /\ x \in Nat
  OBVIOUS
<1>2. Max(S) \in S /\ \A y \in S : Max(S) >= y
  BY <1>1 DEF Max
<1>3. ASSUME NEW m \in S, \A y \in S : m >= y PROVE m = n
  BY <1>1, <1>3
<1> QED
  BY <1>2, <1>3

LEMMA FoldingExists ==
    ASSUME NEW whole, NEW c, NEW s
    PROVE  \A n \in Nat : \E iter : Folding(iter, whole, c, s, n)
<1> DEFINE bad == {n \in Nat : ~\E iter : Folding(iter, whole, c, s, n)}
<1> SUFFICES ASSUME bad # {} PROVE FALSE
  OBVIOUS
<1>1. PICK n \in bad : \A m \in bad : n <= m
  BY LeastOf
<1>2. CASE n = 0
  <2>1. Folding([S \in SUBSET (1 .. 0) |-> c], whole, c, s, 0)
    <3>1. \A S \in SUBSET (1 .. 0) : S = {}
      OBVIOUS
    <3> QED
      BY <3>1 DEF Folding
  <2> QED
    BY <1>2, <2>1
<1>3. CASE n # 0
  <2>1. n \in Nat /\ n - 1 \in Nat /\ n - 1 \notin bad
    BY <1>1, <1>3
  <2>2. PICK iter : Folding(iter, whole, c, s, n - 1)
    BY <2>1
  <2> DEFINE next == [S \in SUBSET (1 .. n) |-> IF n \in S THEN Applied(whole, iter[S \ {n}], s[n]) ELSE iter[S]]
  <2>3. ASSUME NEW S \in SUBSET (1 .. n)
        PROVE  next[S] = IF S = {} THEN c ELSE Applied(whole, next[S \ {Max(S)}], s[Max(S)])
    <3>1. CASE n \in S
      <4>1. Max(S) = n /\ S # {} /\ S \ {n} \in SUBSET (1 .. n) /\ n \notin S \ {n}
        BY <2>1, <3>1, MaxIsLast
      <4>2. next[S \ {n}] = iter[S \ {n}]
        BY <4>1
      <4>3. next[S] = Applied(whole, iter[S \ {n}], s[n])
        BY <3>1
      <4> HIDE DEF next
      <4> QED
        BY <4>1, <4>2, <4>3
    <3>2. CASE n \notin S
      <4>0. \A x \in S : x \in 1 .. (n - 1)
        BY <2>1, <3>2
      <4>1. S \in SUBSET (1 .. (n - 1)) /\ S \ {Max(S)} \in SUBSET (1 .. n) /\ n \notin S \ {Max(S)}
        BY <3>2, <4>0
      <4>2. next[S] = iter[S] /\ next[S \ {Max(S)}] = iter[S \ {Max(S)}]
        BY <3>2, <4>1
      <4>3. iter[S] = IF S = {} THEN c ELSE Applied(whole, iter[S \ {Max(S)}], s[Max(S)])
        BY <2>2, <4>1 DEF Folding
      <4> HIDE DEF next
      <4> QED
        BY <4>2, <4>3
    <3> QED
      BY <3>1, <3>2
  <2>4. Folding(next, whole, c, s, n)
    BY <2>3 DEF Folding
  <2> QED
    BY <2>4
<1> QED
  BY <1>2, <1>3

\* The states a fold goes through.
Through(h, whole, c, s) ==
    h[0] = c /\ \A i \in 1 .. Len(s) : h[i] = Applied(whole, h[i - 1], s[i])

LEMMA FoldingGoesThrough ==
    ASSUME NEW whole, NEW c, NEW E, NEW s \in Seq(E), NEW iter, Folding(iter, whole, c, s, Len(s))
    PROVE  /\ Through([i \in 0 .. Len(s) |-> iter[1 .. i]], whole, c, s)
           /\ iter[1 .. Len(s)] = [i \in 0 .. Len(s) |-> iter[1 .. i]][Len(s)]
<1> DEFINE n == Len(s)
           h == [i \in 0 .. n |-> iter[1 .. i]]
<1>1. n \in Nat
  OBVIOUS
<1>2. \A S \in SUBSET (1 .. n) : iter[S] = IF S = {} THEN c ELSE Applied(whole, iter[S \ {Max(S)}], s[Max(S)])
  BY DEF Folding
<1>3. h[0] = c
  <2>1. 1 .. 0 = {} /\ {} \in SUBSET (1 .. n)
    BY <1>1
  <2>2. h[0] = iter[1 .. 0]
    BY <1>1
  <2> QED
    BY <1>2, <2>1, <2>2
<1>4. ASSUME NEW i \in 1 .. n PROVE h[i] = Applied(whole, h[i - 1], s[i])
  <2>0. i \in Nat /\ i \in 0 .. n /\ i - 1 \in 0 .. n /\ i \in 1 .. i
    BY <1>1
  <2>1. 1 .. i \in SUBSET (1 .. n) /\ 1 .. i # {} /\ (1 .. i) \ {i} = 1 .. (i - 1)
    <3>1. \A x \in Int : /\ (x \in 1 .. i => x \in 1 .. n)
                        /\ (x \in (1 .. i) \ {i} <=> x \in 1 .. (i - 1))
      BY <1>1, <2>0
    <3>2. 1 .. i \subseteq Int /\ (1 .. i) \ {i} \subseteq Int /\ 1 .. (i - 1) \subseteq Int
      OBVIOUS
    <3> QED
      BY <2>0, <3>1, <3>2
  <2>2. Max(1 .. i) = i
    BY <2>0, MaxIsLast
  <2>3. iter[1 .. i] = Applied(whole, iter[(1 .. i) \ {Max(1 .. i)}], s[Max(1 .. i)])
    BY <1>2, <2>1
  <2>4. h[i] = iter[1 .. i] /\ h[i - 1] = iter[1 .. (i - 1)]
    BY <2>0
  <2> QED
    BY <2>1, <2>2, <2>3, <2>4
<1>5. h[n] = iter[1 .. n]
  BY <1>1
<1> QED
  BY <1>3, <1>4, <1>5 DEF Through

\* A fold is where its states end.
LEMMA RecordedGoes ==
    ASSUME NEW c, NEW E, NEW s \in Seq(E)
    PROVE  \E h : Through(h, FALSE, c, s) /\ FoldLeft(Recorded, c, s) = h[Len(s)]
<1> DEFINE P(iter) == iter = [S \in SUBSET DOMAIN s |-> IF S = {} THEN c
                                  ELSE Recorded(iter[S \ {Max(S)}], s[Max(S)])]
           iter == CHOOSE iter : P(iter)
<1>1. FoldLeft(Recorded, c, s) = iter[DOMAIN s]
  BY DEF FoldLeft, MapThenFoldSet
<1>2. DOMAIN s = 1 .. Len(s) /\ Len(s) \in Nat
  OBVIOUS
<1>3. \A j : P(j) <=> Folding(j, FALSE, c, s, Len(s))
  BY <1>2 DEF Folding, Applied
<1>4. P(iter)
  BY <1>2, <1>3, FoldingExists
<1>5. Folding(iter, FALSE, c, s, Len(s))
  BY <1>3, <1>4
<1> HIDE DEF iter, P
<1> QED
  BY <1>1, <1>2, <1>5, FoldingGoesThrough

LEMMA HandledGoes ==
    ASSUME NEW c, NEW E, NEW s \in Seq(E)
    PROVE  \E h : Through(h, TRUE, c, s) /\ FoldLeft(Handled, c, s) = h[Len(s)]
<1> DEFINE P(iter) == iter = [S \in SUBSET DOMAIN s |-> IF S = {} THEN c
                                  ELSE Handled(iter[S \ {Max(S)}], s[Max(S)])]
           iter == CHOOSE iter : P(iter)
<1>1. FoldLeft(Handled, c, s) = iter[DOMAIN s]
  BY DEF FoldLeft, MapThenFoldSet
<1>2. DOMAIN s = 1 .. Len(s) /\ Len(s) \in Nat
  OBVIOUS
<1>3. \A j : P(j) <=> Folding(j, TRUE, c, s, Len(s))
  BY <1>2 DEF Folding, Applied
<1>4. P(iter)
  BY <1>2, <1>3, FoldingExists
<1>5. Folding(iter, TRUE, c, s, Len(s))
  BY <1>3, <1>4
<1> HIDE DEF iter, P
<1> QED
  BY <1>1, <1>2, <1>5, FoldingGoesThrough

\* There is one way to go.
LEMMA OneWay ==
    ASSUME NEW c, NEW E, NEW s \in Seq(E), NEW g, NEW h, Through(g, FALSE, c, s), Through(h, FALSE, c, s)
    PROVE  g[Len(s)] = h[Len(s)]
<1> DEFINE bad == {i \in 0 .. Len(s) : g[i] # h[i]}
<1> SUFFICES ASSUME bad # {} PROVE FALSE
  OBVIOUS
<1>0. Len(s) \in Nat
  OBVIOUS
<1>1. PICK i \in bad : \A j \in bad : i <= j
  <2>1. bad \in SUBSET Nat
    BY <1>0
  <2> HIDE DEF bad
  <2> QED
    BY <2>1, LeastOf
<1>2. i # 0
  BY <1>1 DEF Through
<1>3. i \in 1 .. Len(s) /\ i - 1 \in 0 .. Len(s) /\ ~(i <= i - 1)
  BY <1>0, <1>1, <1>2
<1>4. g[i - 1] = h[i - 1]
  BY <1>1, <1>3
<1> QED
  BY <1>1, <1>3, <1>4 DEF Through

LEMMA RecordedEnds ==
    ASSUME NEW c, NEW E, NEW s \in Seq(E), NEW h, Through(h, FALSE, c, s)
    PROVE  FoldLeft(Recorded, c, s) = h[Len(s)]
  BY RecordedGoes, OneWay, ZenonT(40)

LEMMA EventsEnd ==
    ASSUME NEW c, NEW s \in Seq(Event), NEW h, Through(h, FALSE, c, s)
    PROVE  FoldLeft(Recorded, c, s) = h[Len(s)]
  BY RecordedEnds

LEMMA NothingApplied == ASSUME NEW c PROVE FoldLeft(Recorded, c, <<>>) = c
<1>1. <<>> \in Seq(Event) /\ Len(<<>>) = 0
  OBVIOUS
<1>2. Through([i \in {0} |-> c], FALSE, c, <<>>)
  BY DEF Through
<1> QED
  BY <1>1, <1>2, RecordedEnds

LEMMA RecordedLast ==
    ASSUME NEW c, NEW s \in Seq(Event), NEW e \in Event
    PROVE  FoldLeft(Recorded, c, Append(s, e)) = Recorded(FoldLeft(Recorded, c, s), e)
<1>1. PICK h : Through(h, FALSE, c, s) /\ FoldLeft(Recorded, c, s) = h[Len(s)]
  BY RecordedGoes
<1> DEFINE n == Len(s)
           g == [i \in 0 .. (n + 1) |-> IF i = n + 1 THEN Recorded(h[n], e) ELSE h[i]]
<1>2. /\ n \in Nat /\ Append(s, e) \in Seq(Event) /\ Len(Append(s, e)) = n + 1
      /\ Append(s, e)[n + 1] = e /\ \A i \in 1 .. n : Append(s, e)[i] = s[i]
  BY AppendProperties
<1>3. g[0] = c /\ g[n + 1] = Recorded(h[n], e) /\ g[n] = h[n]
  BY <1>1, <1>2 DEF Through
<1>4. ASSUME NEW i \in 1 .. n PROVE g[i] = h[i] /\ g[i - 1] = h[i - 1] /\ h[i] = Applied(FALSE, h[i - 1], s[i])
  <2>1. i \in 0 .. (n + 1) /\ i - 1 \in 0 .. (n + 1) /\ i # n + 1 /\ i - 1 # n + 1
    BY <1>2
  <2>2. h[i] = Applied(FALSE, h[i - 1], s[i])
    BY <1>1 DEF Through
  <2> QED
    BY <2>1, <2>2
<1> HIDE DEF g
<1>5. ASSUME NEW i \in 1 .. (n + 1) PROVE g[i] = Applied(FALSE, g[i - 1], Append(s, e)[i])
  <2>1. i \in 1 .. n \/ (i = n + 1 /\ i - 1 = n)
    BY <1>2
  <2> QED
    BY <1>2, <1>3, <1>4, <2>1 DEF Applied
<1>6. Through(g, FALSE, c, Append(s, e))
  BY <1>2, <1>3, <1>5 DEF Through
<1> QED
  BY <1>1, <1>2, <1>3, <1>6, EventsEnd, ZenonT(40)

LEMMA RecordedConcat ==
    ASSUME NEW c, NEW s \in Seq(Event), NEW t \in Seq(Event)
    PROVE  FoldLeft(Recorded, c, s \o t) = FoldLeft(Recorded, FoldLeft(Recorded, c, s), t)
<1>1. PICK h : Through(h, FALSE, c, s) /\ FoldLeft(Recorded, c, s) = h[Len(s)]
  BY RecordedGoes
<1>2. PICK k : /\ Through(k, FALSE, h[Len(s)], t)
               /\ FoldLeft(Recorded, h[Len(s)], t) = k[Len(t)]
  BY RecordedGoes
<1> DEFINE n == Len(s)
           m == Len(t)
           g == [i \in 0 .. (n + m) |-> IF i <= n THEN h[i] ELSE k[i - n]]
<1>3. /\ n \in Nat /\ m \in Nat /\ s \o t \in Seq(Event) /\ Len(s \o t) = n + m
      /\ \A i \in 1 .. (n + m) : (s \o t)[i] = IF i <= n THEN s[i] ELSE t[i - n]
  BY ConcatProperties
<1>4. /\ \A i \in 0 .. n : g[i] = h[i]
      /\ \A i \in (n + 1) .. (n + m) : g[i] = k[i - n]
  BY <1>3
<1>5. g[0] = c /\ k[0] = h[n] /\ g[n] = k[0]
  BY <1>1, <1>2, <1>3, <1>4 DEF Through
<1>6. g[n + m] = k[m]
  <2>1. CASE m = 0
    BY <1>3, <1>5, <2>1
  <2>2. CASE m # 0
    <3>1. n + m \in (n + 1) .. (n + m) /\ (n + m) - n = m
      BY <1>3, <2>2
    <3> HIDE DEF g
    <3> QED
      BY <1>4, <3>1
  <2> QED
    BY <2>1, <2>2
<1> HIDE DEF g
<1>7. ASSUME NEW i \in 1 .. (n + m) PROVE g[i] = Applied(FALSE, g[i - 1], (s \o t)[i])
  <2>1. CASE i <= n
    <3>1. i \in 1 .. n /\ i \in 0 .. n /\ i - 1 \in 0 .. n
      BY <1>3, <2>1
    <3>2. h[i] = Applied(FALSE, h[i - 1], s[i])
      BY <1>1, <3>1 DEF Through
    <3> QED
      BY <1>3, <1>4, <2>1, <3>1, <3>2
  <2>2. CASE ~(i <= n)
    <3>1. i \in (n + 1) .. (n + m) /\ i - n \in 1 .. m
      BY <1>3, <2>2
    <3>2. k[i - n] = Applied(FALSE, k[(i - n) - 1], t[i - n])
      BY <1>2, <3>1 DEF Through
    <3>3. g[i - 1] = k[(i - n) - 1]
      <4>1. CASE i = n + 1
        BY <1>3, <1>5, <4>1
      <4>2. CASE i # n + 1
        <5>1. i - 1 \in (n + 1) .. (n + m) /\ (i - 1) - n = (i - n) - 1
          BY <1>3, <3>1, <4>2
        <5> QED
          BY <1>4, <5>1
      <4> QED
        BY <4>1, <4>2
    <3> QED
      BY <1>3, <1>4, <2>2, <3>1, <3>2, <3>3
  <2> QED
    BY <2>1, <2>2
<1>8. Through(g, FALSE, c, s \o t)
  BY <1>3, <1>5, <1>7 DEF Through
<1> QED
  BY <1>1, <1>2, <1>3, <1>6, <1>8, EventsEnd

\* What delivery holds are slots, and it holds the renders that the cache would.
Slots(slots) ==
    /\ slots = [k \in Key |-> slots[k]]
    /\ \A k \in Key : slots[k] = [html |-> slots[k].html, barSent |-> slots[k].barSent,
                                  overlaySent |-> slots[k].overlaySent]
Renders(slots) == [k \in Key |-> slots[k].html]

LEMMA UnsentSlot ==
    ASSUME NEW slot, slot = [html |-> slot.html, barSent |-> slot.barSent, overlaySent |-> slot.overlaySent]
    PROVE  Unsent(slot) = [html |-> slot.html, barSent |-> FALSE, overlaySent |-> FALSE]
<1> DEFINE R(b, o) == [html : {slot.html}, barSent : {b}, overlaySent : {o}]
<1>1. slot \in R(slot.barSent, slot.overlaySent)
  OBVIOUS
<1>2. Unsent(slot) \in R(FALSE, FALSE)
  BY <1>1 DEF Unsent
<1>3. ASSUME NEW h, NEW r \in [html : {h}, barSent : {FALSE}, overlaySent : {FALSE}]
      PROVE  r = [html |-> h, barSent |-> FALSE, overlaySent |-> FALSE]
  OBVIOUS
<1> QED
  BY <1>2, <1>3

LEMMA HandledIsRecorded ==
    ASSUME NEW slots, Slots(slots), NEW e
    PROVE  Slots(Handled(slots, e)) /\ Renders(Handled(slots, e)) = Recorded(Renders(slots), e)
<1>1. CASE e.kind = "render" /\ slots[e.key].html # e.html
  BY <1>1 DEF Slots, Renders, Handled, Recorded, Empty
<1>2. CASE e.kind = "added"
  <2>1. Handled(slots, e) = [k \in Key |-> IF k[1] \in e.tiles THEN Unsent(slots[k]) ELSE Empty]
    BY <1>2 DEF Handled
  <2>2. \A k \in Key : Unsent(slots[k]) = [html |-> slots[k].html, barSent |-> FALSE, overlaySent |-> FALSE]
    BY UnsentSlot DEF Slots
  <2>3. Recorded(Renders(slots), e) = [k \in Key |-> IF k[1] \in e.tiles THEN slots[k].html ELSE None]
    BY <1>2 DEF Recorded, Renders
  <2> DEFINE new == Handled(slots, e)
  <2>4. \A k \in Key : new[k] = [html |-> IF k[1] \in e.tiles THEN slots[k].html ELSE None,
                                barSent |-> FALSE, overlaySent |-> FALSE]
    BY <2>1, <2>2 DEF Empty
  <2>5. new = [k \in Key |-> new[k]]
    BY <2>1
  <2> HIDE DEF new
  <2>6. Slots(new) /\ Renders(new) = [k \in Key |-> IF k[1] \in e.tiles THEN slots[k].html ELSE None]
    BY <2>4, <2>5 DEF Slots, Renders
  <2> QED
    BY <2>3, <2>6 DEF new
<1>3. CASE e.kind = "removed"
  BY <1>3 DEF Slots, Renders, Handled, Recorded, Empty
<1>4. CASE e.kind \notin {"added", "removed"} /\ ~(e.kind = "render" /\ slots[e.key].html # e.html)
  BY <1>4 DEF Slots, Renders, Handled, Recorded
<1> QED
  BY <1>1, <1>2, <1>3, <1>4

LEMMA HandledAll ==
    ASSUME NEW slots, Slots(slots), NEW E, NEW s \in Seq(E)
    PROVE  /\ Slots(FoldLeft(Handled, slots, s))
           /\ Renders(FoldLeft(Handled, slots, s)) = FoldLeft(Recorded, Renders(slots), s)
<1>0. Len(s) \in Nat
  OBVIOUS
<1>1. PICK h : Through(h, TRUE, slots, s) /\ FoldLeft(Handled, slots, s) = h[Len(s)]
  BY HandledGoes
<1>2. \A i \in 0 .. Len(s) : Slots(h[i])
  <2> DEFINE bad == {i \in 0 .. Len(s) : ~Slots(h[i])}
  <2> SUFFICES ASSUME bad # {} PROVE FALSE
    OBVIOUS
  <2>1. PICK i \in bad : \A j \in bad : i <= j
    <3>1. bad \in SUBSET Nat
      BY <1>0
    <3> HIDE DEF bad
    <3> QED
      BY <3>1, LeastOf
  <2>2. i # 0
    BY <1>1, <2>1 DEF Through
  <2>3. i \in 1 .. Len(s) /\ i - 1 \in 0 .. Len(s) /\ ~(i <= i - 1)
    BY <1>0, <2>1, <2>2
  <2>4. Slots(h[i - 1]) /\ h[i] = Handled(h[i - 1], s[i])
    BY <1>1, <2>1, <2>3 DEF Through, Applied
  <2> QED
    BY <2>1, <2>4, HandledIsRecorded
<1> DEFINE g == [i \in 0 .. Len(s) |-> Renders(h[i])]
<1>3. g[0] = Renders(slots) /\ g[Len(s)] = Renders(h[Len(s)])
  BY <1>0, <1>1 DEF Through
<1>4. ASSUME NEW i \in 1 .. Len(s) PROVE g[i] = Applied(FALSE, g[i - 1], s[i])
  <2>1. i \in 0 .. Len(s) /\ i - 1 \in 0 .. Len(s)
    BY <1>0
  <2>2. h[i] = Handled(h[i - 1], s[i])
    BY <1>1 DEF Through, Applied
  <2>3. Renders(h[i]) = Recorded(Renders(h[i - 1]), s[i])
    BY <1>2, <2>1, <2>2, HandledIsRecorded
  <2>4. g[i] = Renders(h[i]) /\ g[i - 1] = Renders(h[i - 1])
    BY <2>1
  <2> HIDE DEF g
  <2> QED
    BY <2>3, <2>4 DEF Applied
<1> HIDE DEF g
<1>5. Through(g, FALSE, Renders(slots), s)
  BY <1>3, <1>4 DEF Through
<1>6. Len(s) \in 0 .. Len(s)
  BY <1>0
<1> QED
  BY <1>1, <1>2, <1>3, <1>5, <1>6, RecordedEnds

\* The shell's side of the stream.
StreamTypes ==
    /\ scene \in Scene /\ joined \in BOOLEAN /\ Slots(latest) /\ ui = [k \in Key |-> ui[k]]
    /\ recent \in Seq(Event) /\ Len(recent) <= Cap
    /\ DOMAIN unread = Reader /\ unread["shell"] \in Nat
    /\ DOMAIN shell = {"phase", "run", "todo", "snapshot"} /\ shell.snapshot = [k \in Key |-> shell.snapshot[k]]
    /\ shell.phase \in {"idle", "run", "tail", "lagged", "resync"}
    /\ shell.run \in Seq(Event)
\* What the shell has not received is kept, unless it lags: then the channel is full.
KeptForShell ==
    \/ unread["shell"] <= Len(recent)
    \/ unread["shell"] = Cap + 1 /\ Len(recent) = Cap
\* The shell gets events once it has joined; between two runs it holds none.
ShellFits ==
    /\ joined => scene \in {"bar", "flyout"}
    /\ ~joined => unread["shell"] = 0 /\ shell.phase = "idle"
    /\ shell.phase \in {"idle", "lagged"} => shell.run = <<>>
    /\ shell.phase = "tail" => Len(shell.run) = 1

StreamInv == StreamTypes /\ KeptForShell /\ ShellFits /\ StreamMeetsCache

LEMMA StreamInvInit == EventsInit => StreamInv
<1> SUFFICES ASSUME EventsInit PROVE StreamInv
  OBVIOUS
<1>1. StreamTypes
  <2>1. Slots(latest) /\ ui = [k \in Key |-> ui[k]]
    BY DEF EventsInit, Slots, Empty, NoRenders
  <2>2. DOMAIN unread = Reader /\ unread["shell"] \in Nat /\ joined \in BOOLEAN /\ scene \in Scene
    BY DEF EventsInit, Reader
  <2>3. recent = <<>> /\ Len(recent) <= Cap /\ recent \in Seq(Event)
    BY EventsAssumption DEF EventsInit
  <2>4. /\ DOMAIN shell = {"phase", "run", "todo", "snapshot"} /\ shell.phase = "idle"
        /\ shell.run = <<>> /\ shell.todo = <<>> /\ shell.snapshot = NoRenders
    BY DEF EventsInit, Idle
  <2>5. shell.snapshot = [k \in Key |-> shell.snapshot[k]]
    BY <2>4 DEF NoRenders
  <2> QED
    BY <2>1, <2>2, <2>3, <2>4, <2>5 DEF StreamTypes
<1>2. KeptForShell /\ ShellFits
  BY EventsAssumption DEF EventsInit, KeptForShell, ShellFits, Reader, Idle
<1>3. StreamMeetsCache
  BY DEF EventsInit, StreamMeetsCache
<1> QED
  BY <1>1, <1>2, <1>3 DEF StreamInv

\* What the shell has not received, as a sequence.
LEMMA UnreadTyped ==
    ASSUME StreamInv, ~Lagging("shell")
    PROVE  /\ Unread("shell") = SubSeq(recent, Len(recent) - unread["shell"] + 1, Len(recent))
           /\ Unread("shell") \in Seq(Event)
           /\ unread["shell"] = 0 => Unread("shell") = <<>>
<1>1. unread["shell"] \in Nat /\ unread["shell"] <= Len(recent) /\ Len(recent) \in Nat /\ Cap \in Nat
      /\ recent \in Seq(Event)
  BY EventsAssumption DEF StreamInv, StreamTypes, KeptForShell, Lagging
<1>2. Unread("shell") = SubSeq(recent, Len(recent) - unread["shell"] + 1, Len(recent))
  BY DEF Unread
<1>3. \A i \in (Len(recent) - unread["shell"] + 1) .. Len(recent) : recent[i] \in Event
  BY <1>1
<1>4. Unread("shell") \in Seq(Event)
  <2>1. Len(recent) - unread["shell"] + 1 \in Int /\ Len(recent) \in Int
    BY <1>1
  <2> QED
    BY <1>2, <1>3, <2>1, SubSeqProperties
<1>5. unread["shell"] = 0 => Unread("shell") = <<>>
  BY <1>1, <1>2, SubSeqEmpty
<1> QED
  BY <1>2, <1>4, <1>5

\* The first of them is the next.
LEMMA NextIsFirst ==
    ASSUME StreamInv, ~Lagging("shell"), unread["shell"] > 0, UNCHANGED recent, Consume("shell")
    PROVE  /\ NextFor("shell") \in Event /\ ~Lagging("shell")'
           /\ unread'["shell"] = unread["shell"] - 1 /\ unread'["shell"] \in Nat
           /\ Unread("shell")' \in Seq(Event)
           /\ Unread("shell") = <<NextFor("shell")>> \o Unread("shell")'
<1> DEFINE n == Len(recent)
           u == unread["shell"]
<1>1. u \in Nat /\ u <= n /\ n \in Nat /\ Cap \in Nat /\ recent \in Seq(Event) /\ u > 0 /\ u <= Cap
  BY EventsAssumption DEF StreamInv, StreamTypes, KeptForShell, Lagging
<1>2. unread'["shell"] = u - 1 /\ ~Lagging("shell")'
  BY <1>1 DEF Consume, StreamInv, StreamTypes, Lagging, Reader
<1>3. n - u + 1 \in 1 .. n /\ n \in (n - u + 1) .. n
  BY <1>1
<1>4. SubSeq(recent, n - u + 1, n) = <<recent[n - u + 1]>> \o SubSeq(recent, (n - u + 1) + 1, n)
  BY <1>1, <1>3, SubSeqRecursiveFirst
<1>5. Unread("shell") = SubSeq(recent, n - u + 1, n) /\ NextFor("shell") = recent[n - u + 1]
  BY DEF Unread, NextFor
<1>6. Unread("shell")' = SubSeq(recent, n - (u - 1) + 1, n)
  BY <1>2 DEF Unread
<1>7. n - (u - 1) + 1 = (n - u + 1) + 1
  BY <1>1
<1>8. Unread("shell")' \in Seq(Event)
  <2>1. \A i \in (n - (u - 1) + 1) .. n : recent[i] \in Event
    BY <1>1
  <2>2. n - (u - 1) + 1 \in Int /\ n \in Int
    BY <1>1
  <2> QED
    BY <1>6, <2>1, <2>2, SubSeqProperties, ZenonT(40)
<1>9. NextFor("shell") \in Event /\ u - 1 \in Nat
  BY <1>1, <1>3, <1>5
<1>10. Unread("shell") = <<NextFor("shell")>> \o Unread("shell")'
  BY <1>4, <1>5, <1>6, <1>7
<1> QED
  BY <1>2, <1>8, <1>9, <1>10

\* What is on its way arrives in the cache.
Arrives(picture, events) == FoldLeft(Recorded, picture, events) = ui

LEMMA StreamMeets ==
    ASSUME StreamInv, joined, ~Lagging("shell"), shell.phase # "lagged"
    PROVE  /\ shell.phase = "resync" => Arrives(shell.snapshot, Unread("shell"))
           /\ shell.phase # "resync" =>
                  /\ Arrives(Renders(latest), shell.run \o Unread("shell"))
                  /\ Arrives(FoldLeft(Recorded, Renders(latest), shell.run), Unread("shell"))
<1>1. Unread("shell") \in Seq(Event) /\ shell.run \in Seq(Event)
  BY UnreadTyped DEF StreamInv, StreamTypes
<1>2. Arrives(Picture, OnTheWay)
  BY DEF StreamInv, StreamMeetsCache, Arrives
<1>3. CASE shell.phase = "resync"
  <2>1. Picture = shell.snapshot /\ OnTheWay = Unread("shell")
    BY <1>1, <1>3, ConcatEmptySeq DEF Picture, OnTheWay
  <2> QED
    BY <1>2, <1>3, <2>1
<1>4. CASE shell.phase # "resync"
  <2>1. Picture = Renders(latest) /\ OnTheWay = shell.run \o Unread("shell")
    BY <1>4 DEF Picture, OnTheWay, Renders
  <2>2. FoldLeft(Recorded, Renders(latest), shell.run \o Unread("shell"))
            = FoldLeft(Recorded, FoldLeft(Recorded, Renders(latest), shell.run), Unread("shell"))
    BY <1>1, RecordedConcat
  <2> QED
    BY <1>2, <1>4, <2>1, <2>2 DEF Arrives
<1> QED
  BY <1>3, <1>4

\* The promise after a step, by what the shell is then at.
LEMMA MeetsAfter ==
    ASSUME joined' /\ ~Lagging("shell")' /\ shell'.phase # "lagged" =>
               /\ Unread("shell")' \in Seq(Event)
               /\ shell'.phase = "resync" => FoldLeft(Recorded, shell'.snapshot, Unread("shell")') = ui'
               /\ shell'.phase # "resync" =>
                      FoldLeft(Recorded, Renders(latest'), shell'.run \o Unread("shell")') = ui'
    PROVE  StreamMeetsCache'
<1> SUFFICES ASSUME joined', ~Lagging("shell")', shell'.phase # "lagged"
             PROVE  FoldLeft(Recorded, Picture', OnTheWay') = ui'
  BY DEF StreamMeetsCache
<1>1. CASE shell'.phase = "resync"
  <2>1. Picture' = shell'.snapshot /\ OnTheWay' = <<>> \o Unread("shell")'
    BY <1>1 DEF Picture, OnTheWay
  <2>2. <<>> \o Unread("shell")' = Unread("shell")'
    BY ConcatEmptySeq
  <2> QED
    BY <1>1, <2>1, <2>2
<1>2. CASE shell'.phase # "resync"
  <2>1. Picture' = Renders(latest') /\ OnTheWay' = shell'.run \o Unread("shell")'
    BY <1>2 DEF Picture, OnTheWay, Renders
  <2> QED
    BY <1>2, <2>1
<1> QED
  BY <1>1, <1>2

\* What others do: renders, channel and cache stay as they are for the shell.
LEMMA StreamAside ==
    ASSUME StreamInv, UNCHANGED <<scene, joined, recent, ui, shell>>,
           unread'["shell"] = unread["shell"], DOMAIN unread' = Reader,
           Slots(latest'), Renders(latest') = Renders(latest)
    PROVE  StreamInv'
<1>1. StreamTypes' /\ KeptForShell' /\ ShellFits'
  BY DEF StreamInv, StreamTypes, KeptForShell, ShellFits
<1>2. Unread("shell")' = Unread("shell") /\ (Lagging("shell")' <=> Lagging("shell"))
  BY DEF Unread, Lagging
<1>3. StreamMeetsCache'
  <2>1. ASSUME joined, ~Lagging("shell"), shell.phase # "lagged" PROVE Unread("shell") \in Seq(Event)
    BY <2>1, UnreadTyped
  <2> QED
    BY <1>2, <2>1, StreamMeets, MeetsAfter DEF Arrives
<1> QED
  BY <1>1, <1>3 DEF StreamInv

\* A step of the shell alone, that leaves what it holds.
LEMMA ShellMoves ==
    ASSUME StreamInv, UNCHANGED <<scene, joined, recent, ui>>, DOMAIN unread' = Reader,
           unread'["shell"] \in Nat, KeptForShell', joined,
           Slots(latest'), DOMAIN shell' = {"phase", "run", "todo", "snapshot"},
           shell'.snapshot = [k \in Key |-> shell'.snapshot[k]],
           shell'.phase \in {"idle", "run", "tail", "lagged", "resync"},
           shell'.run \in Seq(Event),
           shell'.phase \in {"idle", "lagged"} => shell'.run = <<>>,
           shell'.phase = "tail" => Len(shell'.run) = 1,
           StreamMeetsCache'
    PROVE  StreamInv'
  BY DEF StreamInv, StreamTypes, ShellFits

LEMMA DeliveredRenders ==
    ASSUME StreamInv, NEW E, NEW events \in Seq(E), NEW emits, Deliver(events, emits)
    PROVE  Slots(latest') /\ Renders(latest') = FoldLeft(Recorded, Renders(latest), events)
<1>1. latest' = FoldLeft(Handled, latest, events)
  BY DEF Deliver
<1> QED
  BY <1>1, HandledAll DEF StreamInv, StreamTypes

\* The last events of a sequence.
LEMMA EndOf ==
    ASSUME NEW s \in Seq(Event), NEW u \in Nat, u <= Len(s)
    PROVE  /\ SubSeq(s, Len(s) - u + 1, Len(s)) \in Seq(Event)
           /\ Len(SubSeq(s, Len(s) - u + 1, Len(s))) = u
           /\ \A i \in 1 .. u : SubSeq(s, Len(s) - u + 1, Len(s))[i] = s[Len(s) - u + i]
<1>1. Len(s) \in Nat
  OBVIOUS
<1>0. PICK n \in Nat : n = Len(s) /\ u <= n
  BY <1>1
<1>2. PICK a \in Nat : a = n - u + 1
  BY ONLY u \in Nat, <1>0
<1>3. \A i \in a .. n : s[i] \in Event
  BY <1>0, <1>2
<1>4. /\ SubSeq(s, a, n) \in Seq(Event) /\ Len(SubSeq(s, a, n)) = IF a <= n THEN n - a + 1 ELSE 0
      /\ \A i \in 1 .. (n - a + 1) : SubSeq(s, a, n)[i] = s[a + i - 1]
  <2>1. a \in Int /\ n \in Int
    OBVIOUS
  <2> QED
    BY ONLY <1>3, <2>1, SubSeqProperties
<1>5. n - a + 1 = u /\ (a <= n <=> u # 0) /\ \A i \in 1 .. u : a + i - 1 = n - u + i
  BY <1>0, <1>2
<1> QED
  BY <1>0, <1>2, <1>4, <1>5

\* The channel drops its oldest event when it is full; who does not lag still finds all of
\* what it has not received.
LEMMA StreamChannelKeeps ==
    ASSUME NEW u \in Nat, NEW e \in Event, NEW old \in Seq(Event), NEW new,
           Len(old) <= Cap, u <= Len(old), u + 1 <= Cap,
           new = IF Len(old) = Cap THEN Tail(Append(old, e)) ELSE Append(old, e)
    PROVE  /\ new \in Seq(Event) /\ Len(new) <= Cap /\ u + 1 <= Len(new)
           /\ SubSeq(new, Len(new) - (u + 1) + 1, Len(new))
                  = Append(SubSeq(old, Len(old) - u + 1, Len(old)), e)
<1> DEFINE n == Len(old)
           all == Append(old, e)
           m == Len(new)
           now == SubSeq(new, m - (u + 1) + 1, m)
           before == SubSeq(old, n - u + 1, n)
<1>0. Cap \in Nat \ {0} /\ n \in Nat
  BY EventsAssumption
<1>1. /\ all \in Seq(Event) /\ all # <<>> /\ Len(all) = n + 1 /\ all[n + 1] = e
      /\ \A i \in 1 .. n : all[i] = old[i]
  BY AppendProperties
<1>2. /\ Tail(all) \in Seq(Event) /\ Len(Tail(all)) = n /\ \A i \in 1 .. n : Tail(all)[i] = all[i + 1]
  BY <1>0, <1>1, HeadTailProperties
<1>3. new \in Seq(Event) /\ m <= Cap /\ u + 1 <= m /\ m \in Nat
  BY <1>0, <1>1, <1>2
<1>4. \A i \in 1 .. (u + 1) : new[m - (u + 1) + i] = all[n - u + i]
  <2> TAKE i \in 1 .. (u + 1)
  <2>1. CASE n = Cap
    <3>1. new = Tail(all) /\ m = n /\ n - (u + 1) + i \in 1 .. n /\ (n - (u + 1) + i) + 1 = n - u + i
      BY <1>0, <1>1, <1>2, <2>1
    <3> QED
      BY <1>2, <3>1
  <2>2. CASE n # Cap
    <3>1. new = all /\ m = n + 1 /\ m - (u + 1) + i = n - u + i
      BY <1>0, <1>1, <2>2
    <3> QED
      BY <3>1
  <2> QED
    BY <2>1, <2>2
<1>5. before \in Seq(Event) /\ Len(before) = u /\ \A i \in 1 .. u : before[i] = old[n - u + i]
  BY EndOf
<1>6. now \in Seq(Event) /\ Len(now) = u + 1 /\ \A i \in 1 .. (u + 1) : now[i] = new[m - (u + 1) + i]
  <2>1. u + 1 \in Nat
    OBVIOUS
  <2> QED
    BY <1>3, <2>1, EndOf
<1>7. Append(before, e) \in Seq(Event) /\ Len(Append(before, e)) = u + 1 /\ Append(before, e)[u + 1] = e
      /\ \A i \in 1 .. u : Append(before, e)[i] = before[i]
  BY <1>5, AppendProperties
<1>8. ASSUME NEW i \in 1 .. (u + 1) PROVE now[i] = Append(before, e)[i]
  <2>1. now[i] = all[n - u + i]
    BY <1>4, <1>6
  <2>2. CASE i = u + 1
    <3>1. n - u + i = n + 1
      BY <1>0, <2>2
    <3> QED
      BY <1>1, <1>7, <2>1, <2>2, <3>1
  <2>3. CASE i # u + 1
    <3>1. i \in 1 .. u /\ n - u + i \in 1 .. n
      BY <1>0, <2>3
    <3> QED
      BY <1>1, <1>5, <1>7, <2>1, <3>1
  <2> QED
    BY <2>2, <2>3
<1>9. now = Append(before, e)
  <2> HIDE DEF now, before
  <2> QED
    BY <1>6, <1>7, <1>8, SeqEqual
<1> QED
  BY <1>3, <1>9

LEMMA AppendBehind ==
    ASSUME NEW s \in Seq(Event), NEW t \in Seq(Event), NEW e \in Event
    PROVE  s \o Append(t, e) = Append(s \o t, e) /\ s \o t \in Seq(Event)
<1>1. <<e>> \in Seq(Event) /\ s \o t \in Seq(Event)
  BY ConcatProperties
<1>2. Append(t, e) = t \o <<e>> /\ Append(s \o t, e) = (s \o t) \o <<e>>
  BY <1>1, AppendIsConcat
<1>3. (s \o t) \o <<e>> = s \o (t \o <<e>>)
  BY <1>1, ConcatAssociative
<1> QED
  BY <1>1, <1>2, <1>3

LEMMA PublishKeeps == ASSUME StreamInv, NEW e \in Event, Publish(e) PROVE StreamInv'
<1>1. /\ ui' = Recorded(ui, e) /\ UNCHANGED <<scene, joined, shell, latest>>
      /\ recent' = LET all == Append(recent, e) IN IF Len(all) > Cap THEN Tail(all) ELSE all
      /\ unread'["shell"] = IF ~Listening("shell") THEN 0
                            ELSE IF Lagging("shell") THEN Cap + 1 ELSE unread["shell"] + 1
      /\ DOMAIN unread' = Reader
  BY DEF Publish, deliveryVars, Reader
<1>2. Listening("shell") <=> joined
  BY DEF Listening, StreamInv, ShellFits
<1>3. unread["shell"] \in Nat /\ Cap \in Nat /\ Len(recent) \in Nat /\ recent \in Seq(Event) /\ Len(recent) <= Cap
  BY EventsAssumption DEF StreamInv, StreamTypes
<1>4. ui' = [k \in Key |-> ui'[k]]
  BY <1>1 DEF Recorded
<1>5. /\ recent' \in Seq(Event) /\ Len(recent') <= Cap
      /\ Len(recent') = IF Len(recent) = Cap THEN Cap ELSE Len(recent) + 1
      /\ recent' = IF Len(recent) = Cap THEN Tail(Append(recent, e)) ELSE Append(recent, e)
  <2>1. Append(recent, e) \in Seq(Event) /\ Append(recent, e) # <<>> /\ Len(Append(recent, e)) = Len(recent) + 1
    BY <1>3, AppendProperties
  <2>2. Tail(Append(recent, e)) \in Seq(Event) /\ Len(Tail(Append(recent, e))) = Len(recent)
    BY <1>3, <2>1, HeadTailProperties
  <2>3. recent' = IF Len(recent) = Cap THEN Tail(Append(recent, e)) ELSE Append(recent, e)
    BY <1>1, <1>3, <2>1
  <2> QED
    BY <1>3, <2>1, <2>2, <2>3
<1>6. StreamTypes'
  BY <1>1, <1>3, <1>4, <1>5 DEF StreamInv, StreamTypes
<1>7. KeptForShell'
  BY <1>1, <1>3, <1>5 DEF StreamInv, KeptForShell, Lagging
<1>8. ShellFits'
  BY <1>1, <1>2 DEF StreamInv, ShellFits
<1>9. StreamMeetsCache'
  <2> SUFFICES ASSUME joined, ~Lagging("shell")', shell.phase # "lagged"
               PROVE  /\ Unread("shell")' \in Seq(Event)
                      /\ shell.phase = "resync" => FoldLeft(Recorded, shell.snapshot, Unread("shell")') = ui'
                      /\ shell.phase # "resync" =>
                             FoldLeft(Recorded, Renders(latest), shell.run \o Unread("shell")') = ui'
    BY <1>1, MeetsAfter
  <2> DEFINE u == unread["shell"]
             n == Len(recent)
             before == SubSeq(recent, n - u + 1, n)
  <2>1. ~Lagging("shell") /\ unread'["shell"] = u + 1 /\ u + 1 <= Cap /\ u <= n
    BY <1>1, <1>2, <1>3 DEF Lagging, StreamInv, KeptForShell
  <2>2. SubSeq(recent', Len(recent') - (u + 1) + 1, Len(recent')) = Append(before, e)
    <3>1. PICK new : new = recent'
      OBVIOUS
    <3>2. new = IF Len(recent) = Cap THEN Tail(Append(recent, e)) ELSE Append(recent, e)
      BY <1>5, <3>1
    <3>3. ASSUME NEW v \in Nat, v <= Len(recent), v + 1 <= Cap
          PROVE  SubSeq(new, Len(new) - (v + 1) + 1, Len(new))
                     = Append(SubSeq(recent, Len(recent) - v + 1, Len(recent)), e)
      BY <1>3, <3>2, <3>3, StreamChannelKeeps, ZenonT(40)
    <3>4. u \in Nat /\ u <= Len(recent) /\ u + 1 <= Cap
      BY <1>3, <2>1
    <3> QED
      BY <3>1, <3>3, <3>4
  <2>3. Unread("shell") = before /\ before \in Seq(Event)
    BY <2>1, UnreadTyped
  <2>4. Unread("shell")' = Append(before, e)
    BY <2>1, <2>2 DEF Unread
  <2> HIDE DEF before
  <2>5. Unread("shell")' \in Seq(Event)
    BY <2>3, <2>4, AppendProperties
  <2>6. CASE shell.phase = "resync"
    <3>1. FoldLeft(Recorded, shell.snapshot, before) = ui
      BY <2>1, <2>3, <2>6, StreamMeets DEF Arrives
    <3> QED
      BY <1>1, <2>3, <2>4, <2>5, <2>6, <3>1, RecordedLast
  <2>7. CASE shell.phase # "resync"
    <3>1. shell.run \in Seq(Event)
      BY DEF StreamInv, StreamTypes
    <3>2. FoldLeft(Recorded, Renders(latest), shell.run \o before) = ui
      BY <2>1, <2>3, <2>7, StreamMeets DEF Arrives
    <3>3. shell.run \o Append(before, e) = Append(shell.run \o before, e) /\ shell.run \o before \in Seq(Event)
      BY <2>3, <3>1, AppendBehind
    <3>4. FoldLeft(Recorded, Renders(latest), Append(shell.run \o before, e)) = Recorded(ui, e)
      BY <3>2, <3>3, RecordedLast
    <3> QED
      BY <1>1, <2>4, <2>5, <2>7, <3>3, <3>4
  <2> QED
    BY <2>6, <2>7
<1> QED
  BY <1>6, <1>7, <1>8, <1>9 DEF StreamInv

LEMMA JoinKeeps == ASSUME StreamInv, ShellJoins PROVE StreamInv'
<1>1. /\ joined' /\ ~joined /\ UNCHANGED <<scene, recent, unread, ui, shell>> /\ scene \in {"bar", "flyout"}
      /\ latest' = [k \in Key |-> [Empty EXCEPT !.html = ui[k]]]
  BY DEF ShellJoins, busVars
<1>2. unread["shell"] = 0 /\ shell.phase = "idle" /\ shell.run = <<>>
  BY <1>1 DEF StreamInv, ShellFits
<1>3. Slots(latest') /\ Renders(latest') = ui
  <2>1. \A k \in Key : latest'[k] = [html |-> ui[k], barSent |-> FALSE, overlaySent |-> FALSE]
    BY <1>1 DEF Empty
  <2>2. latest' = [k \in Key |-> latest'[k]]
    BY <1>1
  <2>3. Slots(latest') /\ Renders(latest') = [k \in Key |-> ui[k]]
    BY <2>1, <2>2 DEF Slots, Renders
  <2> QED
    BY <2>3 DEF StreamInv, StreamTypes
<1>4. StreamTypes' /\ KeptForShell' /\ ShellFits'
  BY <1>1, <1>2, <1>3 DEF StreamInv, StreamTypes, KeptForShell, ShellFits
<1>5. StreamMeetsCache'
  <2>1. Cap \in Nat /\ ~Lagging("shell")
    BY <1>2, EventsAssumption DEF Lagging
  <2>2. Unread("shell") = <<>> /\ Unread("shell")' = Unread("shell")
    BY <1>1, <1>2, <2>1, UnreadTyped DEF Unread, Lagging
  <2>3. <<>> \in Seq(Event) /\ <<>> \o <<>> = <<>>
    BY ConcatEmptySeq
  <2>4. FoldLeft(Recorded, ui, <<>>) = ui
    BY NothingApplied
  <2> QED
    BY <1>1, <1>2, <1>3, <2>2, <2>3, <2>4, MeetsAfter
<1> QED
  BY <1>4, <1>5 DEF StreamInv

\* The shell is told that it lags.
LEMMA CaughtUp ==
    ASSUME StreamInv, Lagging("shell"), CatchUp("shell"), UNCHANGED recent
    PROVE  DOMAIN unread' = Reader /\ unread'["shell"] \in Nat /\ KeptForShell'
<1>1. Cap \in Nat \ {0} /\ Len(recent) = Cap
  <2>1. Len(recent) <= Cap /\ Len(recent) \in Nat
    BY DEF StreamInv, StreamTypes
  <2> QED
    BY <2>1, EventsAssumption DEF StreamInv, StreamTypes, KeptForShell, Lagging
<1>2. unread'["shell"] = Cap /\ DOMAIN unread' = Reader
  BY DEF CatchUp, StreamInv, StreamTypes, Reader
<1> QED
  BY <1>1, <1>2 DEF KeptForShell

\* The shell receives the next event.
LEMMA Received ==
    ASSUME StreamInv, ~Lagging("shell"), unread["shell"] > 0, UNCHANGED recent, Consume("shell")
    PROVE  DOMAIN unread' = Reader /\ unread'["shell"] \in Nat /\ KeptForShell'
<1>1. unread'["shell"] = unread["shell"] - 1 /\ unread'["shell"] \in Nat
  BY NextIsFirst
<1>2. unread["shell"] <= Len(recent) /\ Len(recent) \in Nat /\ unread["shell"] \in Nat
  BY EventsAssumption DEF StreamInv, StreamTypes, KeptForShell, Lagging
<1>3. DOMAIN unread' = Reader
  BY DEF Consume, StreamInv, StreamTypes
<1> QED
  BY <1>1, <1>2, <1>3 DEF KeptForShell

LEMMA HasJoined == ASSUME StreamInv, unread["shell"] > 0 \/ shell.phase # "idle" PROVE joined
  BY DEF StreamInv, StreamTypes, ShellFits

\* The shell learns that it lags, after what it held was delivered.
LEMMA LagKeeps ==
    ASSUME StreamInv, Lagging("shell"), CatchUp("shell"), UNCHANGED <<scene, joined, recent, ui>>,
           Slots(latest'), DOMAIN shell' = {"phase", "run", "todo", "snapshot"}, shell'.phase = "lagged",
           shell'.run = <<>>, shell'.snapshot = [k \in Key |-> shell'.snapshot[k]]
    PROVE  StreamInv'
<1>1. joined /\ shell'.run \in Seq(Event)
  <2>1. unread["shell"] > 0
    BY EventsAssumption DEF Lagging, StreamInv, StreamTypes
  <2> QED
    BY <2>1, HasJoined
<1>2. StreamMeetsCache'
  BY DEF StreamMeetsCache
<1> QED
  BY <1>1, <1>2, CaughtUp, ShellMoves

LEMMA ReceiveKeeps == ASSUME StreamInv, ShellReceive PROVE StreamInv'
<1>1. /\ shell.phase = "idle" /\ unread["shell"] > 0 /\ UNCHANGED <<scene, joined, recent, ui, latest>>
      /\ shell.run = <<>> /\ Slots(latest)
  BY DEF ShellReceive, deliveryVars, StreamInv, StreamTypes, ShellFits
<1>2. joined /\ DOMAIN shell = {"phase", "run", "todo", "snapshot"}
      /\ shell.snapshot = [k \in Key |-> shell.snapshot[k]]
  BY <1>1, HasJoined DEF StreamInv, StreamTypes
<1>3. CASE Lagging("shell")
  <2>1. CatchUp("shell") /\ shell' = [shell EXCEPT !.phase = "lagged"]
    BY <1>3 DEF ShellReceive
  <2>2. /\ DOMAIN shell' = {"phase", "run", "todo", "snapshot"} /\ shell'.phase = "lagged"
        /\ shell'.run = <<>> /\ shell'.todo = shell.todo /\ shell'.snapshot = shell.snapshot
    BY <1>1, <1>2, <2>1
  <2> QED
    BY <1>1, <1>2, <1>3, <2>1, <2>2, LagKeeps
<1>4. CASE ~Lagging("shell")
  <2> DEFINE e == NextFor("shell")
  <2>1. /\ Consume("shell")
        /\ shell' = IF Persistent(e) THEN [shell EXCEPT !.phase = "run", !.run = <<e>>]
                    ELSE [shell EXCEPT !.phase = "tail", !.run = <<e>>]
    BY <1>4 DEF ShellReceive
  <2>2. PICK p \in {"run", "tail"} : shell' = [shell EXCEPT !.phase = p, !.run = <<e>>]
    BY <2>1
  <2>3. e \in Event /\ Unread("shell")' \in Seq(Event) /\ Unread("shell") = <<e>> \o Unread("shell")'
        /\ ~Lagging("shell")'
    BY <1>1, <1>4, <2>1, NextIsFirst
  <2> HIDE DEF e
  <2>4. /\ DOMAIN shell' = {"phase", "run", "todo", "snapshot"} /\ shell'.phase = p
        /\ shell'.run = <<e>> /\ shell'.todo = shell.todo /\ shell'.snapshot = shell.snapshot
    BY <1>2, <2>2
  <2>5. <<e>> \in Seq(Event) /\ Len(<<e>>) = 1
    BY <2>3
  <2>6. Arrives(Renders(latest), <<>> \o Unread("shell")) /\ <<>> \o Unread("shell") = Unread("shell")
    BY <1>1, <1>2, <1>4, StreamMeets, UnreadTyped, ConcatEmptySeq
  <2>7. StreamMeetsCache'
    BY <1>1, <2>3, <2>4, <2>6, MeetsAfter DEF Arrives
  <2> QED
    BY <1>1, <1>2, <1>4, <2>1, <2>2, <2>4, <2>5, <2>7, Received, ShellMoves
<1> QED
  BY <1>3, <1>4

LEMMA CollectKeeps == ASSUME StreamInv, ShellCollect PROVE StreamInv'
<1>1. shell.phase = "run" /\ unread["shell"] > 0 /\ UNCHANGED <<scene, joined, recent, ui>> /\ Slots(latest)
  BY DEF ShellCollect, StreamInv, StreamTypes
<1>2. joined /\ DOMAIN shell = {"phase", "run", "todo", "snapshot"}
      /\ shell.run \in Seq(Event) /\ shell.snapshot = [k \in Key |-> shell.snapshot[k]]
  BY <1>1, HasJoined DEF StreamInv, StreamTypes
<1> DEFINE e == NextFor("shell")
<1>3. CASE ~Lagging("shell") /\ Persistent(e)
  <2>1. Consume("shell") /\ shell' = [shell EXCEPT !.run = Append(shell.run, e)] /\ latest' = latest
    BY <1>3 DEF ShellCollect, deliveryVars
  <2>2. e \in Event /\ Unread("shell")' \in Seq(Event) /\ Unread("shell") = <<e>> \o Unread("shell")'
        /\ ~Lagging("shell")'
    BY <1>1, <1>3, <2>1, NextIsFirst
  <2> HIDE DEF e
  <2>3. /\ DOMAIN shell' = {"phase", "run", "todo", "snapshot"} /\ shell'.phase = "run"
        /\ shell'.run = Append(shell.run, e) /\ shell'.todo = shell.todo /\ shell'.snapshot = shell.snapshot
    BY <1>1, <1>2, <2>1
  <2>4. Append(shell.run, e) \in Seq(Event) /\ <<e>> \in Seq(Event) /\ Append(shell.run, e) = shell.run \o <<e>>
    BY <1>2, <2>2, AppendProperties, AppendIsConcat
  <2>5. (shell.run \o <<e>>) \o Unread("shell")' = shell.run \o (<<e>> \o Unread("shell")')
    BY <1>2, <2>2, <2>4, ConcatAssociative
  <2>6. FoldLeft(Recorded, Renders(latest), shell.run \o Unread("shell")) = ui
    BY <1>1, <1>2, <1>3, StreamMeets DEF Arrives
  <2>7. FoldLeft(Recorded, Renders(latest), Append(shell.run, e) \o Unread("shell")') = ui
    BY <2>2, <2>4, <2>5, <2>6
  <2>8. StreamMeetsCache'
    BY <1>1, <2>1, <2>2, <2>3, <2>7, MeetsAfter
  <2> QED
    BY <1>1, <1>2, <1>3, <2>1, <2>3, <2>4, <2>8, Received, ShellMoves
<1>4. CASE ~(~Lagging("shell") /\ Persistent(e))
  <2>1. Deliver(shell.run, <<>>)
    BY <1>4 DEF ShellCollect
  <2>2. Slots(latest') /\ Renders(latest') = FoldLeft(Recorded, Renders(latest), shell.run)
    BY <1>2, <2>1, DeliveredRenders
  <2>3. CASE Lagging("shell")
    <3>1. CatchUp("shell") /\ shell' = [Idle EXCEPT !.phase = "lagged"]
      BY <1>4, <2>3 DEF ShellCollect
    <3>2. /\ DOMAIN shell' = {"phase", "run", "todo", "snapshot"} /\ shell'.phase = "lagged"
          /\ shell'.run = <<>> /\ shell'.todo = <<>> /\ shell'.snapshot = NoRenders
      BY <3>1 DEF Idle
    <3>3. shell'.snapshot = [k \in Key |-> shell'.snapshot[k]]
      BY <3>2 DEF NoRenders
    <3> QED
      BY <1>1, <2>2, <2>3, <3>1, <3>2, <3>3, LagKeeps
  <2>4. CASE ~Lagging("shell")
    <3>1. Consume("shell") /\ shell' = [Idle EXCEPT !.phase = "tail", !.run = <<e>>]
      BY <1>4, <2>4 DEF ShellCollect
    <3>2. e \in Event /\ Unread("shell")' \in Seq(Event) /\ Unread("shell") = <<e>> \o Unread("shell")'
          /\ ~Lagging("shell")'
      BY <1>1, <2>4, <3>1, NextIsFirst
    <3> HIDE DEF e
    <3>3. /\ DOMAIN shell' = {"phase", "run", "todo", "snapshot"} /\ shell'.phase = "tail"
          /\ shell'.run = <<e>> /\ shell'.todo = <<>> /\ shell'.snapshot = NoRenders
      BY <3>1 DEF Idle
    <3>4. shell'.snapshot = [k \in Key |-> shell'.snapshot[k]]
          /\ <<e>> \in Seq(Event) /\ Len(<<e>>) = 1
      BY <3>2, <3>3 DEF NoRenders
    <3>5. FoldLeft(Recorded, Renders(latest'), <<e>> \o Unread("shell")') = ui
      BY <1>1, <1>2, <2>2, <2>4, <3>2, StreamMeets DEF Arrives
    <3>6. StreamMeetsCache'
      BY <1>1, <3>2, <3>3, <3>5, MeetsAfter
    <3> QED
      BY <1>1, <1>2, <2>2, <2>4, <3>1, <3>3, <3>4, <3>6, Received, ShellMoves
  <2> QED
    BY <2>3, <2>4
<1> QED
  BY <1>3, <1>4

LEMMA DeliverKeeps == ASSUME StreamInv, ShellDeliver \/ ShellForward PROVE StreamInv'
<1>1. /\ shell.phase \in {"run", "tail"} /\ shell' = Idle /\ UNCHANGED <<scene, joined, recent, unread, ui>>
      /\ \E emits : Deliver(shell.run, emits)
  BY DEF ShellDeliver, ShellForward, busVars
<1>2. joined /\ shell.run \in Seq(Event) /\ DOMAIN unread = Reader /\ unread["shell"] \in Nat /\ KeptForShell
  BY <1>1, HasJoined DEF StreamInv, StreamTypes
<1>3. Slots(latest') /\ Renders(latest') = FoldLeft(Recorded, Renders(latest), shell.run)
  BY <1>1, <1>2, DeliveredRenders
<1>4. /\ DOMAIN shell' = {"phase", "run", "todo", "snapshot"} /\ shell'.phase = "idle"
      /\ shell'.run = <<>> /\ shell'.todo = <<>> /\ shell'.snapshot = NoRenders
  BY <1>1 DEF Idle
<1>5. shell'.snapshot = [k \in Key |-> shell'.snapshot[k]] /\ <<>> \in Seq(Event)
  BY <1>4 DEF NoRenders
<1>6. Unread("shell")' = Unread("shell") /\ (Lagging("shell")' <=> Lagging("shell")) /\ KeptForShell'
  BY <1>1, <1>2 DEF Unread, Lagging, KeptForShell
<1>7. ASSUME ~Lagging("shell")
      PROVE  /\ Unread("shell") \in Seq(Event)
             /\ FoldLeft(Recorded, Renders(latest'), <<>> \o Unread("shell")) = ui
  <2>1. Unread("shell") \in Seq(Event) /\ <<>> \o Unread("shell") = Unread("shell")
    BY <1>7, UnreadTyped, ConcatEmptySeq
  <2> QED
    BY <1>1, <1>2, <1>3, <1>7, <2>1, StreamMeets DEF Arrives
<1>8. StreamMeetsCache'
  BY <1>1, <1>4, <1>6, <1>7, MeetsAfter
<1> QED
  BY <1>1, <1>2, <1>3, <1>4, <1>5, <1>6, <1>8, ShellMoves

\* What is left in the channel is dropped for the cache, at one moment.
LEMMA ResyncKeeps == ASSUME StreamInv, ShellResync PROVE StreamInv'
<1>1. /\ shell.phase = "lagged" /\ unread' = [unread EXCEPT !["shell"] = 0]
      /\ UNCHANGED <<scene, joined, recent, ui, latest>>
      /\ \E todo : /\ todo = SelectSeq(Unread("shell"), LAMBDA e : ~Persistent(e))
                   /\ shell' = [shell EXCEPT !.phase = "resync", !.snapshot = ui, !.todo = todo]
  BY DEF ShellResync, deliveryVars
<1>2. joined /\ DOMAIN shell = {"phase", "run", "todo", "snapshot"} /\ shell.run = <<>> /\ Slots(latest)
      /\ ui = [k \in Key |-> ui[k]] /\ DOMAIN unread = Reader /\ recent \in Seq(Event) /\ Len(recent) \in Nat
  BY <1>1, HasJoined DEF StreamInv, StreamTypes, ShellFits
<1>3. DOMAIN unread' = Reader /\ unread'["shell"] = 0 /\ KeptForShell'
  BY <1>1, <1>2 DEF Reader, KeptForShell
<1>4. Cap \in Nat /\ ~Lagging("shell")'
  BY <1>3, EventsAssumption DEF Lagging
<1>5. Unread("shell")' = <<>>
  <2>1. Unread("shell")' = SubSeq(recent, Len(recent) - 0 + 1, Len(recent))
    BY <1>1, <1>3, <1>4 DEF Unread
  <2>2. Len(recent) - 0 + 1 \in Int /\ Len(recent) \in Int /\ Len(recent) < Len(recent) - 0 + 1
    BY <1>2
  <2> QED
    BY <2>1, <2>2, SubSeqEmpty
<1>6. PICK todo : /\ todo = SelectSeq(Unread("shell"), LAMBDA e : ~Persistent(e))
                  /\ shell' = [shell EXCEPT !.phase = "resync", !.snapshot = ui, !.todo = todo]
  BY <1>1
<1>7. /\ DOMAIN shell' = {"phase", "run", "todo", "snapshot"} /\ shell'.phase = "resync"
      /\ shell'.run = <<>> /\ shell'.todo = todo /\ shell'.snapshot = ui
  BY ONLY <1>2, <1>6
<1>9. <<>> \in Seq(Event)
  OBVIOUS
<1>10. FoldLeft(Recorded, ui, <<>>) = ui
  BY NothingApplied
<1>11. StreamMeetsCache'
  BY <1>1, <1>5, <1>7, <1>9, <1>10, MeetsAfter
<1>12. shell'.snapshot = [k \in Key |-> shell'.snapshot[k]] /\ Slots(latest') /\ 0 \in Nat
  BY <1>1, <1>2, <1>7
<1>13. UNCHANGED <<scene, joined, recent, ui>>
  BY <1>1
<1> QED
  BY <1>2, <1>3, <1>7, <1>9, <1>11, <1>12, <1>13, ShellMoves

\* While the snapshot waits to replace what delivery holds, the events that are no renders
\* go through it.
LEMMA PendingKeeps == ASSUME StreamInv, ShellForwardPending PROVE StreamInv'
<1>1. /\ shell.phase = "resync" /\ shell.todo # <<>> /\ UNCHANGED <<scene, joined, recent, unread, ui>>
      /\ \E emits : Deliver(<<Head(shell.todo)>>, emits)
      /\ shell' = [shell EXCEPT !.todo = Tail(shell.todo)]
  BY DEF ShellForwardPending, busVars
<1>2. joined /\ DOMAIN shell = {"phase", "run", "todo", "snapshot"} /\ shell.run \in Seq(Event)
      /\ shell.snapshot = [k \in Key |-> shell.snapshot[k]]
      /\ DOMAIN unread = Reader /\ unread["shell"] \in Nat /\ KeptForShell
  BY <1>1, HasJoined DEF StreamInv, StreamTypes
<1>4. Slots(latest')
  <2>1. <<Head(shell.todo)>> \in Seq({Head(shell.todo)})
    OBVIOUS
  <2> QED
    BY <1>1, <2>1, DeliveredRenders
<1>5. /\ DOMAIN shell' = {"phase", "run", "todo", "snapshot"} /\ shell'.phase = "resync"
      /\ shell'.run = shell.run /\ shell'.todo = Tail(shell.todo) /\ shell'.snapshot = shell.snapshot
  BY <1>1, <1>2
<1>6. Unread("shell")' = Unread("shell") /\ (Lagging("shell")' <=> Lagging("shell")) /\ KeptForShell'
  BY <1>1, <1>2 DEF Unread, Lagging, KeptForShell
<1>7. StreamMeetsCache'
  <2>1. ASSUME ~Lagging("shell")
        PROVE  Unread("shell") \in Seq(Event) /\ FoldLeft(Recorded, shell.snapshot, Unread("shell")) = ui
    BY <1>1, <1>2, <2>1, UnreadTyped, StreamMeets DEF Arrives
  <2> QED
    BY <1>1, <1>5, <1>6, <2>1, MeetsAfter
<1> QED
  BY <1>1, <1>2, <1>4, <1>5, <1>6, <1>7, ShellMoves

LEMMA MarkedSlot ==
    ASSUME NEW slot, slot = [html |-> slot.html, barSent |-> slot.barSent, overlaySent |-> slot.overlaySent],
           NEW mark
    PROVE  LET over == [slot EXCEPT !.overlaySent = mark]
               bar_ == [slot EXCEPT !.barSent = mark]
           IN  /\ over = [html |-> slot.html, barSent |-> over.barSent, overlaySent |-> over.overlaySent]
               /\ bar_ = [html |-> slot.html, barSent |-> bar_.barSent, overlaySent |-> bar_.overlaySent]
               /\ over.html = slot.html /\ bar_.html = slot.html
<1> DEFINE R(b, o) == [html : {slot.html}, barSent : {b}, overlaySent : {o}]
<1>1. slot \in R(slot.barSent, slot.overlaySent)
  OBVIOUS
<1>2. /\ [slot EXCEPT !.overlaySent = mark] \in R(slot.barSent, mark)
      /\ [slot EXCEPT !.barSent = mark] \in R(mark, slot.overlaySent)
  BY <1>1
<1>3. ASSUME NEW b, NEW o, NEW r \in R(b, o)
      PROVE  r.html = slot.html /\ r = [html |-> slot.html, barSent |-> r.barSent, overlaySent |-> r.overlaySent]
  OBVIOUS
<1> HIDE DEF R
<1> QED
  BY <1>2, <1>3

\* Opening a flyout marks what it was given, and changes no render.
LEMMA OpenedRenders ==
    ASSUME NEW slots, Slots(slots), NEW request
    PROVE  Slots(Opened(slots, request)) /\ Renders(Opened(slots, request)) = Renders(slots)
<1> DEFINE new == Opened(slots, request)
<1>1. ASSUME NEW k \in Key
      PROVE  /\ new[k].html = slots[k].html
             /\ new[k] = [html |-> new[k].html, barSent |-> new[k].barSent, overlaySent |-> new[k].overlaySent]
  <2>1. CASE k \in Held(slots)
    <3>1. new[k] = [slots[k] EXCEPT !.overlaySent = Shows(request, k)]
      BY <2>1 DEF Opened
    <3> HIDE DEF new
    <3> QED
      BY <3>1, MarkedSlot DEF Slots
  <2>2. CASE k \notin Held(slots)
    <3>1. new[k] = slots[k]
      BY <2>2 DEF Opened
    <3> HIDE DEF new
    <3> QED
      BY <3>1 DEF Slots
  <2> QED
    BY <2>1, <2>2
<1>2. new = [k \in Key |-> new[k]]
  BY DEF Opened
<1> HIDE DEF new
<1> QED
  BY <1>1, <1>2 DEF Slots, Renders, new

LEMMA ReplayKeeps == ASSUME StreamInv, ShellReplay PROVE StreamInv'
<1> DEFINE slots == [k \in Key |-> [Empty EXCEPT !.html = shell.snapshot[k]]]
<1>1. /\ shell.phase = "resync" /\ shell' = Idle /\ UNCHANGED <<scene, joined, recent, unread, ui>>
      /\ latest' = slots \/ latest' = Opened(slots, active)
  BY DEF ShellReplay, busVars
<1>2. joined /\ DOMAIN unread = Reader /\ unread["shell"] \in Nat /\ KeptForShell
      /\ shell.snapshot = [k \in Key |-> shell.snapshot[k]]
  BY <1>1, HasJoined DEF StreamInv, StreamTypes
<1>3. Slots(slots) /\ Renders(slots) = shell.snapshot
  <2>1. \A k \in Key : slots[k] = [html |-> shell.snapshot[k], barSent |-> FALSE, overlaySent |-> FALSE]
    BY DEF Empty
  <2>2. slots = [k \in Key |-> slots[k]]
    OBVIOUS
  <2> HIDE DEF slots
  <2>3. Slots(slots) /\ Renders(slots) = [k \in Key |-> shell.snapshot[k]]
    BY <2>1, <2>2 DEF Slots, Renders
  <2> QED
    BY <1>2, <2>3
<1> HIDE DEF slots
<1>4. Slots(latest') /\ Renders(latest') = shell.snapshot
  BY <1>1, <1>3, OpenedRenders
<1>5. /\ DOMAIN shell' = {"phase", "run", "todo", "snapshot"} /\ shell'.phase = "idle"
      /\ shell'.run = <<>> /\ shell'.snapshot = NoRenders
  BY <1>1 DEF Idle
<1>6. shell'.snapshot = [k \in Key |-> shell'.snapshot[k]] /\ <<>> \in Seq(Event)
  BY <1>5 DEF NoRenders
<1>7. Unread("shell")' = Unread("shell") /\ (Lagging("shell")' <=> Lagging("shell")) /\ KeptForShell'
  BY <1>1, <1>2 DEF Unread, Lagging, KeptForShell
<1>8. ASSUME ~Lagging("shell")
      PROVE  /\ Unread("shell") \in Seq(Event)
             /\ FoldLeft(Recorded, Renders(latest'), <<>> \o Unread("shell")) = ui
  <2>1. Unread("shell") \in Seq(Event) /\ <<>> \o Unread("shell") = Unread("shell")
    BY <1>8, UnreadTyped, ConcatEmptySeq
  <2> QED
    BY <1>1, <1>2, <1>4, <1>8, <2>1, StreamMeets DEF Arrives
<1>9. StreamMeetsCache'
  BY <1>1, <1>5, <1>7, <1>8, MeetsAfter
<1> QED
  BY <1>1, <1>2, <1>4, <1>5, <1>6, <1>7, <1>9, ShellMoves

\* A pull marks what it takes.
LEMMA TakenRenders ==
    ASSUME StreamInv, NEW taken, NEW new,
           \/ new = [k \in Key |-> IF k \in taken THEN [latest[k] EXCEPT !.barSent = TRUE] ELSE latest[k]]
           \/ new = [k \in Key |-> IF k \in taken THEN [latest[k] EXCEPT !.overlaySent = TRUE] ELSE latest[k]]
    PROVE  Slots(new) /\ Renders(new) = Renders(latest)
<1>0. Slots(latest)
  BY DEF StreamInv, StreamTypes
<1>1. ASSUME NEW k \in Key
      PROVE  /\ new[k].html = latest[k].html
             /\ new[k] = [html |-> new[k].html, barSent |-> new[k].barSent, overlaySent |-> new[k].overlaySent]
  <2>1. \/ new[k] = latest[k] \/ new[k] = [latest[k] EXCEPT !.barSent = TRUE]
        \/ new[k] = [latest[k] EXCEPT !.overlaySent = TRUE]
    OBVIOUS
  <2>2. latest[k] = [html |-> latest[k].html, barSent |-> latest[k].barSent, overlaySent |-> latest[k].overlaySent]
    BY <1>0 DEF Slots
  <2> QED
    BY <2>1, <2>2, MarkedSlot
<1>2. new = [k \in Key |-> new[k]]
  OBVIOUS
<1> QED
  BY <1>1, <1>2 DEF Slots, Renders

LEMMA OthersKeepStream ==
    ASSUME StreamInv, \/ Track \/ StartWatch \/ Settle \/ SettleWithFallback
                      \/ (\E t \in Tile : OpenFlyout(t)) \/ DeliverFlyout \/ CloseFlyout
                      \/ BarStep \/ BarReload \/ OverlayStep
    PROVE  StreamInv'
<1>0. Slots(latest) /\ DOMAIN unread = Reader
  BY DEF StreamInv, StreamTypes
<1>1. CASE Track \/ StartWatch \/ Settle \/ SettleWithFallback
  <2>1. UNCHANGED <<scene, joined, recent, ui, shell, latest>>
    BY <1>1 DEF Track, StartWatch, Settle, SettleWithFallback, deliveryVars
  <2>2. \E r \in Reader \ {"shell"} : \E n : unread' = [unread EXCEPT ![r] = n]
    <3>1. CASE Track
      <4>1. unread' = [unread EXCEPT !["tracker"] = Cap]
            \/ unread' = [unread EXCEPT !["tracker"] = unread["tracker"] - 1]
        BY <3>1 DEF Track, CatchUp, Consume
      <4> QED
        BY <4>1 DEF Reader
    <3>2. CASE StartWatch \/ SettleWithFallback
      BY <3>2 DEF StartWatch, SettleWithFallback, Reader
    <3>3. CASE Settle
      <4>1. \E n : unread' = [unread EXCEPT !["watcher"] = n]
        BY <3>3 DEF Settle, CatchUp
      <4> QED
        BY <4>1 DEF Reader
    <3> QED
      BY <1>1, <3>1, <3>2, <3>3
  <2>3. unread'["shell"] = unread["shell"] /\ DOMAIN unread' = Reader
    BY <1>0, <2>2
  <2> QED
    BY <1>0, <2>1, <2>3, StreamAside
<1>2. CASE (\E t \in Tile : OpenFlyout(t)) \/ CloseFlyout \/ BarReload \/ BarReads \/ BarApplies
           \/ OverlayReads \/ OverlayApplies
  <2>1. UNCHANGED <<scene, joined, recent, ui, shell, latest, unread>>
    BY <1>2 DEF OpenFlyout, CloseFlyout, BarReload, BarReads, BarApplies, OverlayReads, OverlayApplies,
                busVars, deliveryVars
  <2> QED
    BY <1>0, <2>1, StreamAside
<1>3. CASE DeliverFlyout
  <2>1. /\ UNCHANGED <<scene, joined, recent, ui, shell, unread>>
        /\ latest' = latest \/ \E request : latest' = Opened(latest, request)
    BY <1>3 DEF DeliverFlyout, busVars, deliveryVars
  <2>2. Slots(latest') /\ Renders(latest') = Renders(latest)
    BY <1>0, <2>1, OpenedRenders
  <2> QED
    BY <1>0, <2>1, <2>2, StreamAside
<1>4. CASE BarTakes \/ OverlayTakes
  <2>1. /\ UNCHANGED <<scene, joined, recent, ui, shell, unread>>
        /\ \E taken :
              \/ latest' = [k \in Key |-> IF k \in taken THEN [latest[k] EXCEPT !.barSent = TRUE] ELSE latest[k]]
              \/ latest' = [k \in Key |-> IF k \in taken THEN [latest[k] EXCEPT !.overlaySent = TRUE] ELSE latest[k]]
    BY <1>4 DEF BarTakes, OverlayTakes, busVars
  <2>2. Slots(latest') /\ Renders(latest') = Renders(latest)
    BY <2>1, TakenRenders
  <2> QED
    BY <1>0, <2>1, <2>2, StreamAside
<1> QED
  BY <1>1, <1>2, <1>3, <1>4 DEF BarStep, OverlayStep

LEMMA StreamInvNext == StreamInv /\ [EventsNext]_eventsVars => StreamInv'
<1> SUFFICES ASSUME StreamInv, [EventsNext]_eventsVars PROVE StreamInv'
  OBVIOUS
<1>1. CASE UNCHANGED eventsVars
  BY <1>1, StreamAside DEF eventsVars, busVars, deliveryVars, StreamInv, StreamTypes
<1>2. CASE ShellStep
  BY <1>2, JoinKeeps, ReceiveKeeps, CollectKeeps, DeliverKeeps, ResyncKeeps, PendingKeeps, ReplayKeeps
     DEF ShellStep
<1>3. ASSUME NEW e \in Event, Publish(e) PROVE StreamInv'
  BY <1>3, PublishKeeps
<1> QED
  BY <1>1, <1>2, <1>3, OthersKeepStream DEF EventsNext

\* Whatever is published while the shell starts, collects renders, lags and resyncs: as long
\* as it is not behind the channel, what it holds and what is on its way to it make up what
\* the supervisor's cache holds (events.rs: subscribe_with_ui, resync_ui;
\* commands/plugin_events.rs).
THEOREM StreamsMeetTheCache == EventsSpec => []StreamMeetsCache
<1>1. StreamInv => StreamMeetsCache
  BY DEF StreamInv
<1> QED
  BY <1>1, StreamInvInit, StreamInvNext, PTL DEF EventsSpec
================================================================================
