------------------------------ MODULE Disk_proofs ------------------------------
(* What lies on the disk and runs from it: the interpreter, processes, fonts, seeds, themes, downloads. *)
EXTENDS RuntimeProvisioner, PluginProcess, FontCache, BundledSeed, ThemeLook, StoreFetch,
        SequenceTheorems, FiniteSetTheorems, TLAPS

--------------------------------------------------------------------------------
(****************************************************************************)
(* RuntimeProvisioner.  One attempt serves everybody who waits, and what     *)
(* is reported ready is on disk, for any plugins and callers.                *)
(****************************************************************************)

Steps == {"idle", "begin", "load", "queued", "installing", "finishing", "wait",
          "run", "stopped"}

\* The part of the type invariant the steps depend on.
Shape ==
    /\ installed \in BOOLEAN
    /\ pc \in [Caller -> Steps]
    /\ moved \in [Caller -> BOOLEAN]
    /\ answer \in [Caller -> Statuses] /\ status \in Statuses

\* The install lock: at most one caller is between StartUv and Finish.
OneHolder ==
    \A c, d \in Caller :
        pc[c] \in {"installing", "finishing"} /\ pc[d] \in {"installing", "finishing"}
            => c = d

\* uv exits with success only when the interpreter is on disk.
SuccessIsInstalled == uv = "Ready" => installed

\* Who finishes has an outcome to return.
HasOutcome == \A c \in Caller : pc[c] = "finishing" => uv \in Outcomes

PInv == /\ Shape /\ OneHolder /\ HasOutcome
        /\ OneAttemptServesAll /\ SuccessIsInstalled /\ ReadyIsInstalled

LEMMA InitInv == Init => PInv
  BY DEF Init, PInv, Shape, OneHolder, HasOutcome, OneAttemptServesAll, SuccessIsInstalled,
         ReadyIsInstalled, Caller, Steps, Statuses, Outcomes

\* A caller gets the lock only when nobody has it.
LEMMA TakeInv == ASSUME PInv, NEW c \in Caller, Take(c) PROVE PInv'
<1> USE DEF PInv, Shape, OneHolder, HasOutcome, OneAttemptServesAll, SuccessIsInstalled,
            ReadyIsInstalled, Steps, Statuses, Outcomes, AtLock, Locked, envVars, uvVars, stopVars
<1>1. CASE Share(c)
  BY <1>1 DEF Share, Return
<1>2. CASE UvMissing(c)
  BY <1>2 DEF UvMissing, Transition
<1>3. CASE StartUv(c)
  BY <1>3 DEF StartUv, Transition, Shared
<1> QED
  BY <1>1, <1>2, <1>3 DEF Take

\* The outcome is uv's, and only the holder finishes.
LEMMA EndInv == ASSUME PInv, NEW c \in Caller, End(c) \/ Finish(c) PROVE PInv'
<1> USE DEF PInv, Shape, OneHolder, HasOutcome, OneAttemptServesAll, SuccessIsInstalled,
            ReadyIsInstalled, Steps, Statuses, Outcomes, envVars, uvVars, stopVars
<1>1. CASE Collect(c)
  BY <1>1 DEF Collect, Transition, Outcome
<1>2. CASE Timeout(c)
  BY <1>2 DEF Timeout, Transition, Detach
<1>3. CASE Finish(c)
  <2>1. \A d \in Caller \ {c} : pc[d] # "installing"
    BY <1>3 DEF Finish
  <2>2. uv \in Statuses /\ (uv = "Ready" => installed)
    BY <1>3 DEF Finish
  <2> QED
    BY <1>3, <2>1, <2>2 DEF Finish, Return
<1> QED
  BY <1>1, <1>2, <1>3 DEF End

\* What the callers do outside the lock.
LEMMA CallInv == ASSUME PInv, NEW c \in Caller,
                        \/ Click(c) \/ Call(c) \/ Wake(c) \/ RunFails(c)
                        \/ ObeyStop(c) \/ Restart(c)
                 PROVE  PInv'
<1> USE DEF PInv, Shape, OneHolder, HasOutcome, OneAttemptServesAll, SuccessIsInstalled,
            ReadyIsInstalled, Steps, Statuses, Outcomes, envVars, uvVars, stopVars
<1>1. CASE Click(c)
  BY <1>1 DEF Click
<1>2. CASE Begin(c)
  BY <1>2 DEF Begin, Return
<1>3. CASE Load(c)
  BY <1>3 DEF Load
<1>4. CASE Wake(c)
  BY <1>4 DEF Wake, HearReady, RetryDelayOver, WakeUp
<1>5. CASE RunFails(c)
  BY <1>5 DEF RunFails
<1>6. CASE ObeyStop(c)
  BY <1>6 DEF ObeyStop
<1>7. CASE Restart(c)
  BY <1>7 DEF Restart
<1> QED
  BY <1>1, <1>2, <1>3, <1>4, <1>5, <1>6, <1>7 DEF Call

\* An aborted caller gives the lock up together with its install.
LEMMA AbortInv == ASSUME PInv, NEW c \in Caller,
                         Abort(c) \/ Stop(c) \/ GraceOver(c)
                  PROVE  PInv'
<1> USE DEF PInv, Shape, OneHolder, HasOutcome, OneAttemptServesAll, SuccessIsInstalled,
            ReadyIsInstalled, Steps, Statuses, Outcomes, envVars, uvVars, callVars
<1>1. CASE Abort(c)
  BY <1>1 DEF Abort, Detach, stopVars
<1>2. CASE Stop(c)
  BY <1>2 DEF Stop
<1>3. CASE GraceOver(c)
  BY <1>3 DEF GraceOver
<1> QED
  BY <1>1, <1>2, <1>3

\* uv, its readers and the host.
LEMMA UvInv == ASSUME PInv,
                      \/ UvWrites \/ UvExits \/ ReadLine \/ ReadStaleLine \/ HostChanges
               PROVE  PInv'
<1> USE DEF PInv, Shape, OneHolder, HasOutcome, OneAttemptServesAll, SuccessIsInstalled,
            ReadyIsInstalled, Steps, Statuses, Outcomes, callVars, stopVars
<1>1. CASE UvWrites
  BY <1>1 DEF UvWrites
<1>2. CASE UvExits
  BY <1>2 DEF UvExits
<1>3. CASE ReadLine
  BY <1>3 DEF ReadLine, Transition
<1>4. CASE ReadStaleLine
  BY <1>4 DEF ReadStaleLine, Transition
<1>5. CASE HostChanges
  BY <1>5 DEF HostChanges, uvVars
<1> QED
  BY <1>1, <1>2, <1>3, <1>4, <1>5

LEMMA StepInv == PInv /\ [Next]_vars => PInv'
<1> SUFFICES ASSUME PInv, [Next]_vars PROVE PInv'
  OBVIOUS
<1>1. CASE Next
  BY <1>1, TakeInv, EndInv, CallInv, AbortInv, UvInv DEF Next
<1>2. CASE UNCHANGED vars
  BY <1>2 DEF vars, callVars, uvVars, PInv, Shape, OneHolder, HasOutcome,
              OneAttemptServesAll, SuccessIsInstalled, ReadyIsInstalled
<1> QED
  BY <1>1, <1>2

LEMMA SpecInv == Spec => []PInv
  BY InitInv, StepInv, PTL DEF Spec

\* Callers that queue behind an install attempt share its outcome: whoever runs
\* uv asked after the last attempt ended (ensure).
THEOREM OneAttemptCorrect == Spec => []OneAttemptServesAll
<1>1. PInv => OneAttemptServesAll
  BY DEF PInv
<1> QED
  BY <1>1, SpecInv, PTL

\* Ready is reported, and answered, only with an interpreter on disk.
THEOREM ReadyCorrect == Spec => []ReadyIsInstalled
<1>1. PInv => ReadyIsInstalled
  BY DEF PInv
<1> QED
  BY <1>1, SpecInv, PTL

--------------------------------------------------------------------------------
(****************************************************************************)
(* PluginProcess.  Where the platform has process groups, nothing that a     *)
(* run started outlives it: for any plugins, pids and children, whatever     *)
(* ends a run and whoever else is given a pid.                               *)
(****************************************************************************)

\* The steps at which a task holds no process, and the others.
AtRest == {"idle", "query", "launch"}
AtWork == {"sync", "synced", "find", "found", "serve", "grace", "asked", "term", "kill", "reap", "drain"}

ProcTypes ==
    /\ procs \in [Pid -> [of : Keeper \cup {"other", "none"}, group : Pid \cup {0},
                          life : {"none", "alive", "zombie"}]]
    /\ runs \in [Keeper -> [step : AtRest \cup AtWork, pid : Pid \cup {0}]]

\* A task that is about to start a process has given up the one before.
RestHoldsNothing == \A k \in Keeper : runs[k].step \in AtRest => runs[k].pid = 0

ProcInv == ProcTypes /\ RestHoldsNothing /\ NothingOutlivesTheRun

LEMMA ProcInitInv == ProcInit => ProcInv
  BY DEF ProcInit, ProcInv, ProcTypes, RestHoldsNothing, NothingOutlivesTheRun, NoProc, NoRun, AtRest,
         AtWork, Held

\* What a process that ended is.
LEMMA DeadIsNotAlive ==
    ASSUME ProcTypes, NEW p \in Pid
    PROVE  /\ Dead(p) \in [of : Keeper \cup {"other", "none"}, group : Pid \cup {0},
                            life : {"none", "alive", "zombie"}]
           /\ Dead(p).life # "alive"
<1>1. Dead(p) = [procs[p] EXCEPT !.life = "zombie"] \/ Dead(p) = NoProc
  BY DEF Dead
<1> QED
  BY <1>1 DEF ProcTypes, NoProc

\* What only ends processes, and leaves each task the one it holds, keeps the promise.
Moves(j) == runs'[j].pid = runs[j].pid /\ (runs'[j].step \in AtRest => runs[j].step \in AtRest)
LEMMA EndingKeeps ==
    ASSUME ProcInv, ProcTypes', \A j \in Keeper : Moves(j),
           \A p \in Pid : procs'[p].life = "alive" => procs'[p] = procs[p]
    PROVE  ProcInv'
  BY DEF ProcInv, RestHoldsNothing, NothingOutlivesTheRun, Held, Moves

\* The same of a signal that some of the reached die of.
LEMMA DyingKeeps ==
    ASSUME ProcInv, NEW k \in Keeper, NEW step \in AtWork, runs[k].step \in AtWork,
           runs' = [runs EXCEPT ![k].step = step],
           NEW S \in SUBSET Pid, procs' = [p \in Pid |-> IF p \in S THEN Dead(p) ELSE procs[p]]
    PROVE  ProcInv'
<1>1. ProcTypes
  BY DEF ProcInv
<1>2. ProcTypes' /\ \A p \in Pid : procs'[p].life = "alive" => procs'[p] = procs[p]
  BY <1>1, DeadIsNotAlive DEF ProcTypes
<1>3. \A j \in Keeper : Moves(j)
  BY <1>1 DEF ProcTypes, Moves, AtRest, AtWork
<1> QED
  BY <1>2, <1>3, EndingKeeps

\* A task that holds nothing starts a process in a group of its own.
LEMMA SpawnKeeps ==
    ASSUME ProcInv, NEW k \in Keeper, NEW step \in AtWork, runs[k].step \in AtRest, SpawnCommand(k, step)
    PROVE  ProcInv'
<1>1. PICK p \in Pid : /\ FreePid(p) /\ procs' = [procs EXCEPT ![p] = Proc(k, p)]
                       /\ runs' = [runs EXCEPT ![k] = [step |-> step, pid |-> p]]
  BY DEF SpawnCommand
<1>2. ProcTypes'
  BY <1>1 DEF ProcInv, ProcTypes, Proc
<1>3. RestHoldsNothing'
  BY <1>1 DEF ProcInv, ProcTypes, RestHoldsNothing, AtRest, AtWork
<1>4. \A q \in Pid : procs[q].of = k => procs[q].life # "alive"
  BY DEF ProcInv, RestHoldsNothing, NothingOutlivesTheRun, Held
<1>5. NothingOutlivesTheRun'
  BY <1>1, <1>4, ProcAssumption DEF ProcInv, ProcTypes, NothingOutlivesTheRun, Held, Proc
<1> QED
  BY <1>2, <1>3, <1>5 DEF ProcInv

\* Dropping the process kills its whole group, and nobody else's task loses its own.
LEMMA DropKeeps ==
    ASSUME HasGroups, ProcInv, NEW k \in Keeper, NEW next \in AtRest, DropProcess(k, next)
    PROVE  ProcInv'
<1> DEFINE Group == Reached(Held(k))
           Fallen(p) == IF \E j \in Keeper \ {k} : Held(j) = p THEN Dead(p) ELSE NoProc
<1>1. /\ runs' = [runs EXCEPT ![k] = [step |-> next, pid |-> 0]]
      /\ procs' = [p \in Pid |-> IF p \in Group \cup Leader(k) THEN Fallen(p) ELSE procs[p]]
  BY DEF DropProcess
<1>2. \A p \in Pid : Fallen(p) = [procs[p] EXCEPT !.life = "zombie"] \/ Fallen(p) = NoProc
  BY DEF Dead
<1> HIDE DEF Fallen
<1>3. \A p \in Pid : /\ Fallen(p) \in [of : Keeper \cup {"other", "none"}, group : Pid \cup {0},
                                       life : {"none", "alive", "zombie"}]
                     /\ Fallen(p).life # "alive"
  BY <1>2 DEF ProcInv, ProcTypes, NoProc
<1>4. ProcTypes'
  BY <1>1, <1>3 DEF ProcInv, ProcTypes
<1>5. RestHoldsNothing'
  BY <1>1 DEF ProcInv, ProcTypes, RestHoldsNothing
<1>6. \A p \in Pid : procs'[p].life = "alive" => procs'[p] = procs[p] /\ p \notin Group
  BY <1>1, <1>3
<1>7. \A p \in Pid : procs'[p].life = "alive" => procs[p].of # k
  BY <1>6 DEF ProcInv, NothingOutlivesTheRun, Reached
<1>8. NothingOutlivesTheRun'
  BY <1>1, <1>6, <1>7 DEF ProcInv, ProcTypes, NothingOutlivesTheRun, Held
<1> QED
  BY <1>4, <1>5, <1>8 DEF ProcInv

LEMMA SystemKeeps ==
    ASSUME ProcInv, StrangerStarts \/ \E p \in Pid : Forks(p) \/ Exits(p)
    PROVE  ProcInv'
<1>1. CASE StrangerStarts
  BY <1>1, ProcAssumption DEF StrangerStarts, Proc, ProcInv, ProcTypes, RestHoldsNothing,
     NothingOutlivesTheRun, Held
<1>2. ASSUME NEW p \in Pid, Forks(p) PROVE ProcInv'
  <2>1. PICK q \in Pid : procs' = [procs EXCEPT ![q] = Proc(procs[p].of, procs[p].group)]
    BY <1>2 DEF Forks
  <2>2. procs[p].life = "alive" /\ runs' = runs
    BY <1>2 DEF Forks
  <2> QED
    BY <2>1, <2>2 DEF Proc, ProcInv, ProcTypes, RestHoldsNothing, NothingOutlivesTheRun, Held
<1>3. ASSUME NEW p \in Pid, Exits(p) PROVE ProcInv'
  <2>1. procs' = [procs EXCEPT ![p] = Dead(p)] /\ runs' = runs
    BY <1>3 DEF Exits
  <2>2. ProcTypes' /\ \A q \in Pid : procs'[q].life = "alive" => procs'[q] = procs[q]
    BY <2>1, DeadIsNotAlive DEF ProcInv, ProcTypes
  <2> QED
    BY <2>1, <2>2, EndingKeeps DEF Moves
<1> QED
  BY <1>1, <1>2, <1>3

\* A run that waits, asks, kills or moves on still holds what it held.
LEMMA EndOfRunKeeps ==
    ASSUME ProcInv, NEW k \in Keeper,
           Reap(k) \/ ServeEnds(k) \/ Terminate(k) \/ KillGroup(k) \/ TimeOver(k)
    PROVE  ProcInv'
<1> USE DEF RunAt, AtRest, AtWork
<1>0. ProcTypes
  BY DEF ProcInv
<1>1. CASE Reap(k)
  <2>1. procs' = [procs EXCEPT ![Held(k)] = NoProc]
    BY <1>1 DEF Reap
  <2>2. \E step \in AtWork : runs' = [runs EXCEPT ![k].step = step] /\ runs[k].step \in AtWork
    <3>1. runs[k].step \in {"sync", "find", "grace", "term", "reap"}
      BY <1>1 DEF Reap, Waits
    <3> QED
      BY <1>1, <3>1 DEF Reap
  <2>3. ProcTypes' /\ \A j \in Keeper : Moves(j)
    <3>1. PICK step \in AtWork : runs' = [runs EXCEPT ![k].step = step]
      BY <2>2
    <3>2. \A j \in Keeper : Moves(j)
      BY <1>0, <2>2, <3>1 DEF ProcTypes, Moves
    <3>3. NoProc \in [of : Keeper \cup {"other", "none"}, group : Pid \cup {0}, life : {"none", "alive", "zombie"}]
      BY DEF NoProc
    <3> QED
      BY <1>0, <2>1, <3>1, <3>2, <3>3 DEF ProcTypes
  <2>4. \A p \in Pid : procs'[p].life = "alive" => procs'[p] = procs[p]
    BY <1>0, <2>1 DEF ProcTypes, NoProc
  <2> QED
    BY <2>3, <2>4, EndingKeeps
<1>2. CASE ServeEnds(k) \/ TimeOver(k)
  <2>1. ProcTypes' /\ procs' = procs
    BY <1>0, <1>2 DEF ServeEnds, TimeOver, ProcTypes
  <2>2. \A j \in Keeper : Moves(j)
    BY <1>0, <1>2 DEF ServeEnds, TimeOver, ProcTypes, Moves
  <2> QED
    BY <2>1, <2>2, EndingKeeps
<1>3. CASE Terminate(k)
  <2>1. PICK dead \in SUBSET Reached(Held(k)) :
            procs' = [p \in Pid |-> IF p \in dead THEN Dead(p) ELSE procs[p]]
    BY <1>3 DEF Terminate, Dying
  <2>2. \E step \in AtWork : runs' = [runs EXCEPT ![k].step = step] /\ runs[k].step \in AtWork
    BY <1>3 DEF Terminate
  <2>3. dead \in SUBSET Pid
    BY <2>1 DEF Reached
  <2> QED
    BY <2>1, <2>2, <2>3, DyingKeeps
<1>4. CASE KillGroup(k)
  <2>1. procs' = [p \in Pid |-> IF p \in Reached(Held(k)) \cup Leader(k) THEN Dead(p) ELSE procs[p]]
    BY <1>4 DEF KillGroup, Dying
  <2>2. \E step \in AtWork : runs' = [runs EXCEPT ![k].step = step] /\ runs[k].step \in AtWork
    BY <1>4 DEF KillGroup
  <2>3. Reached(Held(k)) \cup Leader(k) \in SUBSET Pid
    BY DEF Reached, Leader
  <2> QED
    BY <2>1, <2>2, <2>3, DyingKeeps
<1> QED
  BY <1>1, <1>2, <1>3, <1>4

LEMMA RunKeeps ==
    ASSUME HasGroups, ProcInv, NEW k \in Keeper,
           StartRun(k) \/ Prepared(k) \/ SpawnNext(k) \/ Cancelled(k) \/ RunEnds(k)
    PROVE  ProcInv'
<1> USE DEF RunAt
<1>1. CASE StartRun(k)
  BY <1>1, SpawnKeeps DEF StartRun, AtRest, AtWork
<1>2. CASE Prepared(k)
  BY <1>2, DropKeeps DEF Prepared, AtRest
<1>3. CASE Cancelled(k) \/ RunEnds(k)
  BY <1>3, DropKeeps DEF Cancelled, RunEnds, AtRest
<1>4. CASE SpawnNext(k)
  <2>1. CASE \E step \in {"find", "serve"} : runs[k].step \in AtRest /\ SpawnCommand(k, step)
    BY <2>1, SpawnKeeps DEF AtWork
  <2>2. CASE /\ runs[k].step \in {"query", "launch"} /\ runs' = [runs EXCEPT ![k] = NoRun]
             /\ UNCHANGED procs
    <3>1. \A j \in Keeper : runs'[j].pid = runs[j].pid
      BY <2>2 DEF NoRun, ProcInv, ProcTypes, RestHoldsNothing, AtRest
    <3> QED
      BY <2>2, <3>1 DEF NoRun, ProcInv, ProcTypes, RestHoldsNothing, NothingOutlivesTheRun, Held, AtRest
  <2> QED
    BY <1>4, <2>1, <2>2 DEF SpawnNext, AtRest
<1> QED
  BY <1>1, <1>2, <1>3, <1>4

\* Nothing that a run started outlives it, where processes have groups (process.rs, Drop;
\* kill_process_group).
THEOREM NothingOutlivesCorrect == ASSUME HasGroups PROVE ProcSpec => []NothingOutlivesTheRun
<1>1. ProcInv /\ [ProcNext]_procVars => ProcInv'
  <2> SUFFICES ASSUME ProcInv, [ProcNext]_procVars PROVE ProcInv'
    OBVIOUS
  <2>1. CASE ProcNext
    BY <2>1, SystemKeeps, EndOfRunKeeps, RunKeeps DEF ProcNext
  <2>2. CASE UNCHANGED procVars
    BY <2>2 DEF procVars, ProcInv, ProcTypes, RestHoldsNothing, NothingOutlivesTheRun, Held
  <2> QED
    BY <2>1, <2>2
<1>2. ProcInv => NothingOutlivesTheRun
  BY DEF ProcInv
<1> QED
  BY <1>1, <1>2, ProcInitInv, PTL DEF ProcSpec

--------------------------------------------------------------------------------
(****************************************************************************)
(* FontCache.  What is handed out as complete is complete: the manifest is   *)
(* written last, over files that are there and never go.                     *)
(****************************************************************************)

\* The faces that are asked for are finitely many, and an order of them leaves none out.
LEMMA AskedIsFinite == IsFiniteSet(Asked) /\ Cardinality(Asked) \in Nat
<1> DEFINE up == Preferred(Weights.upright, {400, 500, 600, 700})
           it == Preferred(Weights.italic, {400})
           N(w) == [style |-> "normal", weight |-> w]
           I(w) == [style |-> "italic", weight |-> w]
           near(t) == Nearest(Weights.upright, t)
<1>1. {N(w) : w \in up} \subseteq {N(near(400)), N(near(500)), N(near(600)), N(near(700))}
  BY DEF Preferred
<1>2. {I(w) : w \in it} \subseteq {I(Nearest(Weights.italic, 400))}
  BY DEF Preferred
<1> DEFINE all == {N(near(400))} \cup {N(near(500))} \cup {N(near(600))} \cup {N(near(700))}
                  \cup {I(Nearest(Weights.italic, 400))}
<1>3. Asked \subseteq all
  BY <1>1, <1>2 DEF Asked
<1>4. IsFiniteSet(all)
  <2> DEFINE a == {N(near(400))}
             b == a \cup {N(near(500))}
             c == b \cup {N(near(600))}
             d == c \cup {N(near(700))}
  <2>1. IsFiniteSet(a)
    BY FS_Singleton
  <2> HIDE DEF N, I, near, a
  <2>2. IsFiniteSet(b)
    BY <2>1, FS_AddElement
  <2> HIDE DEF b
  <2>3. IsFiniteSet(c)
    BY <2>2, FS_AddElement
  <2> HIDE DEF c
  <2>4. IsFiniteSet(d)
    BY <2>3, FS_AddElement
  <2> HIDE DEF d
  <2>5. IsFiniteSet(d \cup {I(Nearest(Weights.italic, 400))})
    BY <2>4, FS_AddElement
  <2> QED
    BY <2>5 DEF a, b, c, d
<1> HIDE DEF all
<1> QED
  BY <1>3, <1>4, FS_Subset, FS_CardinalityType

LEMMA OrderIsOnto ==
  ASSUME NEW order \in Orders(Asked)
  PROVE  /\ order \in Seq(Asked) /\ Len(order) = Cardinality(Asked) /\ DOMAIN order = 1 .. Len(order)
         /\ {order[i] : i \in DOMAIN order} = Asked
<1> DEFINE n == Cardinality(Asked)
<1>0. n \in Nat /\ IsFiniteSet(Asked)
  BY AskedIsFinite
<1>1. order \in [1 .. n -> Asked] /\ \A i, j \in 1 .. n : order[i] = order[j] => i = j
  BY DEF Orders
<1>2. order \in Seq(Asked) /\ Len(order) = n
  BY <1>0, <1>1
<1>3. order \in Injection(1 .. n, Asked)
  BY <1>1 DEF Injection, IsInjective
<1>4. Cardinality(1 .. n) = n
  BY <1>0, FS_Interval
<1>5. order \in Surjection(1 .. n, Asked)
  BY <1>0, <1>3, <1>4, FS_Injection
<1>6. \A face \in Asked : \E i \in 1 .. n : order[i] = face
  BY <1>5 DEF Surjection
<1> QED
  BY <1>1, <1>2, <1>6

FontFile == [name : Nat, release : Nat, face : Asked, good : BOOLEAN]
NamedFile == [name : Nat, release : Nat, face : Asked]
FontTypes ==
    /\ release \in Nat /\ askers \in [Asker -> {"idle", "waiting", "served"}]
    /\ installer \in [asker : Asker \cup {"none"}, step : {"free", "css", "files"}, release : Nat,
                      faces : Seq(Asked), next : Nat \ {0}]
    /\ fontFiles \subseteq FontFile
    /\ fontManifest \in [release : Nat, files : SUBSET NamedFile]

\* Files of one release that have all the faces that were asked for.
Complete(files) ==
    /\ files # {} /\ {file.face : file \in files} = Asked
    /\ \E r \in Nat : \A file \in files : file.release = r
ManifestIsComplete == fontManifest.files # {} => Complete(fontManifest.files)

\* What is in the folder while files are fetched is what this install wrote.
OnlyFetched ==
    /\ installer.step = "css" => fontFiles = {}
    /\ installer.step = "files" =>
          /\ installer.faces \in Orders(Asked) /\ Asked # {}
          /\ \A f \in fontFiles :
                f.good /\ f.name \in DOMAIN installer.faces
                /\ [name |-> f.name, release |-> f.release, face |-> f.face] = Named(f.name)

FontInv == FontTypes /\ ManifestIsComplete /\ OnlyFetched /\ HandedFontsAreWhole

LEMMA NoInstallFits ==
  ASSUME NEW a \in Asker \cup {"none"}, NEW s \in {"free", "css", "files"}
  PROVE  LET i == [NoInstall EXCEPT !.asker = a, !.step = s]
         IN  /\ i \in [asker : Asker \cup {"none"}, step : {"free", "css", "files"}, release : Nat,
                      faces : Seq(Asked), next : Nat \ {0}]
             /\ i.step = s
             /\ NoInstall \in [asker : Asker \cup {"none"}, step : {"free", "css", "files"}, release : Nat,
                      faces : Seq(Asked), next : Nat \ {0}]
             /\ NoInstall.step = "free"
<1> DEFINE R == [asker : Asker \cup {"none"}, step : {"free", "css", "files"}, release : Nat,
                 faces : Seq(Asked), next : Nat \ {0}]
<1>1. <<>> \in Seq(Asked)
  OBVIOUS
<1>2. NoInstall \in R /\ NoInstall.step = "free"
  BY <1>1 DEF NoInstall
<1>3. [NoInstall EXCEPT !.asker = a, !.step = s] \in R /\ [NoInstall EXCEPT !.asker = a, !.step = s].step = s
  BY <1>2
<1> QED
  BY <1>2, <1>3

LEMMA FontInvInit == FontInit => FontInv
  BY DEF FontInit, FontInv, FontTypes, ManifestIsComplete, OnlyFetched, HandedFontsAreWhole, NoInstall, NoManifest

LEMMA HandedIsWhole ==
  ASSUME HandedFontsAreWhole, NEW files, Complete(files), \A file \in files : Intact(file), Hand(files)
  PROVE  HandedFontsAreWhole'
<1> DEFINE h == [whole |-> \A file \in files : Intact(file),
                 releases |-> {file.release : file \in files},
                 faces |-> {file.face : file \in files}]
<1>1. handed' = handed \cup {h}
  BY DEF Hand
<1>2. h.whole /\ h.faces = Asked /\ Cardinality(h.releases) = 1
  <2>1. PICK r \in Nat : \A file \in files : file.release = r
    BY DEF Complete
  <2>2. h.releases = {r}
    BY <2>1 DEF Complete
  <2>3. Cardinality({r}) = 1
    BY FS_Singleton
  <2>4. Cardinality(h.releases) = 1
    BY <2>2, <2>3
  <2>5. h.whole = (\A file \in files : Intact(file)) /\ h.faces = {file.face : file \in files}
    OBVIOUS
  <2> QED
    BY <2>4, <2>5 DEF Complete
<1> HIDE DEF h
<1> QED
  BY <1>1, <1>2 DEF HandedFontsAreWhole

LEMMA OutsideFontsKeep ==
  ASSUME FontInv, NewRelease \/ FileDeleted \/ FileDamaged \/ FontCrash \/ InstallFails
                  \/ \E a \in Asker : Ask(a)
  PROVE  FontInv'
<1>1. HandedFontsAreWhole'
  BY DEF FontInv, HandedFontsAreWhole, NewRelease, FileDeleted, FileDamaged, FontCrash, InstallFails, Release, Ask
<1>2. CASE FileDamaged
  <2>1. PICK f \in fontFiles : fontFiles' = (fontFiles \ {f}) \cup {[f EXCEPT !.good = FALSE]}
    BY <1>2 DEF FileDamaged
  <2>2. [f EXCEPT !.good = FALSE] \in FontFile
    BY <2>1 DEF FontInv, FontTypes, FontFile
  <2> QED
    BY <1>1, <1>2, <2>1, <2>2 DEF FileDamaged, FontInv, FontTypes, ManifestIsComplete, Complete, OnlyFetched
<1>3. CASE FontCrash \/ InstallFails
  <2>1. /\ installer' = NoInstall /\ UNCHANGED <<release, fontFiles, fontManifest>>
        /\ askers' \in [Asker -> {"idle", "waiting", "served"}]
    BY <1>3 DEF FontCrash, InstallFails, Release, FontInv, FontTypes
  <2> QED
    BY <1>1, <2>1 DEF FontInv, FontTypes, ManifestIsComplete, Complete, OnlyFetched, NoInstall
<1>4. CASE NewRelease \/ \E a \in Asker : Ask(a)
  <2>1. /\ UNCHANGED <<installer, fontFiles, fontManifest>> /\ release' \in Nat
        /\ askers' \in [Asker -> {"idle", "waiting", "served"}]
    BY <1>4 DEF NewRelease, Ask, FontInv, FontTypes
  <2> QED
    BY <1>1, <2>1 DEF FontInv, FontTypes, ManifestIsComplete, Complete, OnlyFetched, Named
<1>5. CASE FileDeleted
  <2>1. /\ UNCHANGED <<installer, release, askers>> /\ fontFiles' \subseteq fontFiles
        /\ fontManifest' \in {fontManifest, NoManifest}
    BY <1>5 DEF FileDeleted
  <2> QED
    BY <1>1, <2>1 DEF FontInv, FontTypes, ManifestIsComplete, Complete, OnlyFetched, Named, NoManifest
<1> QED
  BY <1>2, <1>3, <1>4, <1>5

LEMMA EnsureKeeps == ASSUME FontInv, NEW a \in Asker, EnsureAt(a) PROVE FontInv'
<1>1. CASE CacheHolds /\ Hand(fontManifest.files) /\ Release(a, "idle") /\ UNCHANGED <<fontFiles, fontManifest>>
  <2>1. HandedFontsAreWhole'
    BY <1>1, HandedIsWhole DEF CacheHolds, FontInv, ManifestIsComplete
  <2> QED
    BY <1>1, <2>1 DEF EnsureAt, Release, FontInv, FontTypes, ManifestIsComplete, Complete, OnlyFetched, NoInstall
<1>2. CASE /\ fontFiles' = {} /\ fontManifest' = NoManifest /\ UNCHANGED handed
           /\ installer' = [NoInstall EXCEPT !.asker = a, !.step = "css"]
           /\ askers' = [askers EXCEPT ![a] = "served"]
  <2>1. /\ installer' \in [asker : Asker \cup {"none"}, step : {"free", "css", "files"}, release : Nat,
                          faces : Seq(Asked), next : Nat \ {0}]
        /\ installer'.step = "css"
    BY <1>2, NoInstallFits
  <2> QED
    BY <1>2, <2>1 DEF EnsureAt, FontInv, FontTypes, ManifestIsComplete, OnlyFetched, NoManifest,
       HandedFontsAreWhole
<1>3. CASE Release(a, "idle") /\ UNCHANGED <<fontFiles, fontManifest, handed>>
  BY <1>3 DEF EnsureAt, Release, FontInv, FontTypes, ManifestIsComplete, Complete, OnlyFetched, NoInstall,
     HandedFontsAreWhole
<1> QED
  BY <1>1, <1>2, <1>3 DEF EnsureAt

LEMMA StylesheetKeeps == ASSUME FontInv, Stylesheet PROVE FontInv'
<1>0. HandedFontsAreWhole' /\ UNCHANGED <<release, fontFiles, fontManifest>> /\ installer.step = "css"
  BY DEF Stylesheet, FontInv, HandedFontsAreWhole
<1>1. CASE Release(installer.asker, "idle")
  BY <1>0, <1>1, NoInstallFits DEF Release, FontInv, FontTypes, ManifestIsComplete, Complete, OnlyFetched
<1>2. CASE Asked # {} /\ \E order \in Orders(Asked) :
             /\ installer' = [installer EXCEPT !.step = "files", !.release = release, !.faces = order]
             /\ UNCHANGED askers
  <2>1. PICK order \in Orders(Asked) :
           installer' = [installer EXCEPT !.step = "files", !.release = release, !.faces = order]
    BY <1>2
  <2>2. order \in Seq(Asked)
    BY OrderIsOnto
  <2>3. /\ installer' \in [asker : Asker \cup {"none"}, step : {"free", "css", "files"}, release : Nat,
                          faces : Seq(Asked), next : Nat \ {0}]
        /\ installer'.step = "files" /\ installer'.faces = order
    BY <2>1, <2>2 DEF FontInv, FontTypes
  <2> QED
    BY <1>0, <1>2, <2>3 DEF FontInv, FontTypes, ManifestIsComplete, Complete, OnlyFetched
<1> QED
  BY <1>1, <1>2 DEF Stylesheet

LEMMA WriteFileKeeps == ASSUME FontInv, WriteFile PROVE FontInv'
<1> DEFINE i == installer.next
           new == [name |-> i, release |-> installer.release, face |-> installer.faces[i], good |-> TRUE]
<1>1. /\ installer.step = "files" /\ i <= Len(installer.faces)
      /\ fontFiles' = {f \in fontFiles : f.name # i} \cup {new}
      /\ installer' = [installer EXCEPT !.next = @ + 1]
      /\ UNCHANGED <<release, askers, fontManifest, handed>>
  BY DEF WriteFile
<1>2. installer.faces \in Orders(Asked) /\ installer.faces \in Seq(Asked) /\ i \in Nat \ {0}
      /\ DOMAIN installer.faces = 1 .. Len(installer.faces)
  BY <1>1, OrderIsOnto DEF FontInv, FontTypes, OnlyFetched
<1>3. i \in DOMAIN installer.faces /\ installer.faces[i] \in Asked
  BY <1>1, <1>2
<1>4. new \in FontFile
  BY <1>3 DEF FontFile, FontInv, FontTypes
<1>5. /\ installer' \in [asker : Asker \cup {"none"}, step : {"free", "css", "files"}, release : Nat,
                        faces : Seq(Asked), next : Nat \ {0}]
      /\ installer'.step = "files" /\ installer'.faces = installer.faces
      /\ installer'.release = installer.release
  BY <1>1 DEF FontInv, FontTypes
<1>6. FontTypes' /\ ManifestIsComplete' /\ HandedFontsAreWhole'
  BY <1>1, <1>4, <1>5 DEF FontInv, FontTypes, ManifestIsComplete, Complete, HandedFontsAreWhole
<1>7. ASSUME NEW f \in fontFiles'
      PROVE  f.good /\ f.name \in DOMAIN installer.faces
             /\ [name |-> f.name, release |-> f.release, face |-> f.face] =
                [name |-> f.name, release |-> installer.release, face |-> installer.faces[f.name]]
  BY <1>1, <1>3 DEF FontInv, OnlyFetched, Named
<1>8. OnlyFetched'
  BY <1>1, <1>2, <1>5, <1>7 DEF FontInv, OnlyFetched, Named
<1> QED
  BY <1>6, <1>8 DEF FontInv

LEMMA WriteManifestKeeps == ASSUME FontInv, WriteManifest PROVE FontInv'
<1> DEFINE files == {Named(i) : i \in DOMAIN installer.faces}
<1>1. /\ installer.step = "files" /\ fontManifest' = [release |-> installer.release, files |-> files]
      /\ Release(installer.asker, "idle") /\ UNCHANGED <<release, fontFiles>>
      /\ IF Missing(files) THEN UNCHANGED handed ELSE Hand(files)
  BY DEF WriteManifest
<1>2. /\ installer.faces \in Orders(Asked) /\ Asked # {} /\ installer.faces \in Seq(Asked)
      /\ DOMAIN installer.faces = 1 .. Len(installer.faces)
      /\ {installer.faces[i] : i \in DOMAIN installer.faces} = Asked
  BY <1>1, OrderIsOnto DEF FontInv, OnlyFetched
<1>3. Complete(files)
  <2>1. {file.face : file \in files} = Asked
    <3>1. \A file \in files : \E i \in DOMAIN installer.faces : file.face = installer.faces[i]
      BY DEF Named
    <3>2. \A i \in DOMAIN installer.faces : \E file \in files : file.face = installer.faces[i]
      <4> TAKE i \in DOMAIN installer.faces
      <4>1. Named(i) \in files /\ Named(i).face = installer.faces[i]
        BY DEF Named
      <4> QED
        BY <4>1
    <3> HIDE DEF files
    <3>3. {file.face : file \in files} = {installer.faces[i] : i \in DOMAIN installer.faces}
      BY <3>1, <3>2, ZenonT(30)
    <3> QED
      BY <1>2, <3>3
  <2>2. \A file \in files : file.release = installer.release
    BY DEF Named
  <2> QED
    BY <1>2, <2>1, <2>2 DEF Complete, FontInv, FontTypes
<1>4. files \subseteq NamedFile
  BY <1>2 DEF Named, NamedFile, FontInv, FontTypes
<1>5. HandedFontsAreWhole'
  <2>1. CASE Missing(files)
    BY <1>1, <2>1 DEF FontInv, HandedFontsAreWhole
  <2>2. CASE ~Missing(files)
    <3>1. ASSUME NEW file \in files PROVE Intact(file)
      <4>1. PICK f \in fontFiles : f.name = file.name
        BY <2>2 DEF Missing
      <4>2. f.good /\ [name |-> f.name, release |-> f.release, face |-> f.face] = Named(f.name)
        BY <1>1 DEF FontInv, OnlyFetched
      <4>3. file = Named(file.name)
        BY DEF Named
      <4> QED
        BY <4>1, <4>2, <4>3 DEF Intact
    <3> QED
      BY <1>1, <1>3, <2>2, <3>1, HandedIsWhole DEF FontInv
  <2> QED
    BY <2>1, <2>2
<1>6. FontTypes'
  BY <1>1, <1>4, NoInstallFits DEF FontInv, FontTypes, Release
<1>7. ManifestIsComplete'
  <2>1. fontManifest'.files = files
    BY <1>1
  <2> HIDE DEF files
  <2> QED
    BY <1>3, <2>1 DEF ManifestIsComplete, Complete
<1>8. OnlyFetched'
  BY <1>1 DEF OnlyFetched, Release, NoInstall
<1> QED
  BY <1>5, <1>6, <1>7, <1>8 DEF FontInv

LEMMA FontInvNext == FontInv /\ [FontNext]_fontVars => FontInv'
<1> SUFFICES ASSUME FontInv, [FontNext]_fontVars PROVE FontInv'
  OBVIOUS
<1>1. CASE UNCHANGED fontVars
  BY <1>1 DEF fontVars, FontInv, FontTypes, ManifestIsComplete, Complete, OnlyFetched, Named, HandedFontsAreWhole
<1>2. CASE FontNext
  BY <1>2, OutsideFontsKeep, EnsureKeeps, StylesheetKeeps, WriteFileKeeps, WriteManifestKeeps DEF FontNext
<1> QED
  BY <1>1, <1>2

\* Whatever a page is handed is whole: each file is there, undamaged, of one release, and no
\* face that was asked for is missing, for all families, pages and releases (fonts/cache.rs).
THEOREM HandedFontsStayWhole == FontSpec => []HandedFontsAreWhole
<1> QED
  BY FontInvInit, FontInvNext, PTL DEF FontSpec, FontInv

--------------------------------------------------------------------------------
(****************************************************************************)
(* BundledSeed.  What the user removed or changed is left as it is,          *)
(* whatever editions come and wherever seeding is cut short.                 *)
(****************************************************************************)

Codes == Edition \cup UserCode \cup {"absent", "partial"}
Entries == [seeded : Edition \cup {"none", "no entry"}, update : Edition \cup {"none"}]
Under == [todo : SUBSET Bundled, plugin : Bundled, step : {"remove", "removing", "copy", "copying"}]
Between == [todo : SUBSET Bundled, plugin : {"none"}, step : {"none"}]

SeedTypes ==
    /\ appPhase \in {"off", "seeding", "sweeping", "running"}
    /\ bundle \in [Bundled -> Edition] /\ folders \in [Bundled -> Codes]
    /\ seedFile \in [Bundled -> Entries] /\ seedState \in [Bundled -> Entries]
    /\ seeding \in Under \cup Between /\ pluginData \subseteq Bundled
    /\ word \in [Bundled -> UserCode \cup {"removed", "none"}]

\* A folder is what the user said of it last.
WordStands(p) ==
    /\ word[p] \in UserCode => folders[p] = word[p]
    /\ word[p] = "removed" => folders[p] = "absent"

\* What is seeded is not the user's own, and one they removed is installed only when the
\* seed state does not know it.
SeedsOthers ==
    seeding.step # "none" =>
        /\ appPhase = "seeding" /\ word[seeding.plugin] \notin UserCode
        /\ word[seeding.plugin] = "removed" => seeding.step = "copy" /\ seedState[seeding.plugin] = NoEntry

SeedInv == SeedTypes /\ (\A p \in Bundled : WordStands(p)) /\ SeedsOthers

LEMMA Unentered == NoEntry \in Entries /\ NoEntries \in [Bundled -> Entries] /\ Resting \in Between
  BY DEF NoEntry, NoEntries, Entries, Resting, Between

LEMMA SeedInvInit == SeedInit => SeedInv
<1> SUFFICES ASSUME SeedInit PROVE SeedInv
  OBVIOUS
<1>1. SeedTypes
  BY Unentered DEF SeedInit, SeedTypes, Codes
<1>2. (\A p \in Bundled : WordStands(p)) /\ SeedsOthers
  BY SeedAssumption DEF SeedInit, WordStands, SeedsOthers, Resting
<1> QED
  BY <1>1, <1>2 DEF SeedInv

\* Steps that touch neither a folder nor what was said of it.
LEMMA FoldersKeep ==
  ASSUME SeedInv, SeedTypes', UNCHANGED <<folders, word>>, seeding'.step = "none"
  PROVE  SeedInv'
  BY DEF SeedInv, WordStands, SeedsOthers

LEMMA UserKeeps ==
  ASSUME SeedInv, NEW p \in Bundled, EditPlugin(p) \/ BringBack(p) \/ DeleteByHand(p) \/ RemoveInApp(p)
  PROVE  SeedInv'
<1>1. PICK code \in UserCode \cup {"absent"} : UserPuts(p, code)
  BY DEF EditPlugin, BringBack, DeleteByHand, RemoveInApp
<1>2. pluginData' \subseteq Bundled
  BY DEF EditPlugin, BringBack, DeleteByHand, RemoveInApp, SeedInv, SeedTypes
<1>3. SeedTypes'
  BY <1>1, <1>2 DEF UserPuts, SeedInv, SeedTypes, Codes
<1>4. \A q \in Bundled : WordStands(q)'
  BY <1>1, SeedAssumption DEF UserPuts, SeedInv, SeedTypes, WordStands
<1>5. seeding.step = "none" /\ seeding' = seeding
  BY <1>1 DEF UserPuts, Restful, SeedInv, SeedsOthers
<1> QED
  BY <1>3, <1>4, <1>5 DEF SeedInv, SeedsOthers

LEMMA WritesKeep == ASSUME SeedInv, NEW p \in Bundled, PluginWrites(p) PROVE SeedInv'
<1>1. SeedTypes'
  BY DEF PluginWrites, SeedInv, SeedTypes, historyVars
<1> QED
  BY <1>1, FoldersKeep DEF PluginWrites, historyVars, SeedInv, SeedsOthers

LEMMA PhaseKeeps ==
  ASSUME SeedInv, Upgrade \/ QuitApp \/ StartApp \/ WriteState \/ WriteTorn \/ SweepData \/ CrashApp
  PROVE  SeedInv'
<1>1. SeedTypes'
  <2>1. CASE Upgrade \/ QuitApp \/ StartApp
    <3>1. [Resting EXCEPT !.todo = Bundled] \in Between
      BY DEF Resting, Between
    <3> QED
      BY <2>1, <3>1, Unentered DEF Upgrade, QuitApp, StartApp, SeedInv, SeedTypes, historyVars
  <2>2. CASE WriteState \/ WriteTorn
    BY <2>2, Unentered DEF WriteState, WriteTorn, SeedInv, SeedTypes, historyVars
  <2>3. CASE SweepData \/ CrashApp
    BY <2>3, Unentered DEF SweepData, CrashApp, SeedInv, SeedTypes, historyVars
  <2> QED
    BY <2>1, <2>2, <2>3
<1>2. UNCHANGED <<folders, word>>
  BY DEF Upgrade, QuitApp, StartApp, WriteState, WriteTorn, SweepData, CrashApp, historyVars
<1>3. seeding'.step = "none"
  BY DEF Upgrade, QuitApp, StartApp, WriteState, WriteTorn, SweepData, CrashApp, SeedInv, SeedsOthers, Resting
<1> QED
  BY <1>1, <1>2, <1>3, FoldersKeep

LEMMA AbandonKeeps ==
  ASSUME SeedInv, Abandon, UNCHANGED <<folders, word, bundle, seedFile, pluginData>>,
         seedState' \in [Bundled -> Entries]
  PROVE  SeedInv'
<1>1. SeedTypes' /\ seeding'.step = "none"
  BY Unentered DEF Abandon, SeedInv, SeedTypes, Resting
<1> QED
  BY <1>1, FoldersKeep

\* What is decided: the user's own code is neither installed over nor replaced.
LEMMA DecideFits ==
  ASSUME SeedInv, NEW p \in Bundled
  PROVE  LET action == Decide(folders[p], bundle[p], seedState[p])
         IN  action \in {"install", "replace"} =>
                 /\ word[p] \notin UserCode
                 /\ word[p] = "removed" => action = "install" /\ seedState[p] = NoEntry
<1>1. bundle[p] \in Edition /\ seedState[p].seeded \in Edition \cup {"none", "no entry"} /\ WordStands(p)
  BY DEF SeedInv, SeedTypes, Entries
<1> QED
  BY <1>1, SeedAssumption DEF Decide, WordStands

LEMMA ExamineKeeps == ASSUME SeedInv, NEW p \in Bundled, Examine(p) PROVE SeedInv'
<1> DEFINE action == Decide(folders[p], bundle[p], seedState[p])
<1>0. /\ UNCHANGED <<bundle, folders, seedFile, pluginData, word>>
      /\ appPhase = "seeding" /\ seeding.step = "none" /\ seeding \in Between
  BY DEF Examine, historyVars, SeedInv, SeedTypes, Under, Between
<1>1. CASE /\ action \in {"install", "replace"} /\ UNCHANGED <<appPhase, seedState>>
           /\ seeding' = [seeding EXCEPT !.plugin = p, !.step = IF action = "replace" THEN "remove" ELSE "copy"]
  <2>1. seeding' \in Under /\ seeding'.plugin = p
        /\ seeding'.step = IF action = "replace" THEN "remove" ELSE "copy"
    BY <1>0, <1>1 DEF Between, Under
  <2>2. SeedTypes'
    BY <1>0, <1>1, <2>1 DEF SeedInv, SeedTypes
  <2> HIDE DEF action
  <2>3. word[p] \notin UserCode /\ (word[p] = "removed" => action = "install" /\ seedState[p] = NoEntry)
    BY <1>1, DecideFits DEF action
  <2>4. SeedsOthers'
    BY <1>0, <1>1, <2>1, <2>3 DEF SeedsOthers
  <2> QED
    BY <1>0, <2>2, <2>4 DEF SeedInv, WordStands
<1>2. ASSUME NEW entry \in Entries, Seeded(p, entry), UNCHANGED appPhase PROVE SeedInv'
  <2>1. seeding' \in Between
    BY <1>0, <1>2 DEF Seeded, Resting, Between
  <2>2. seedState' \in [Bundled -> Entries] /\ seeding'.step = "none"
    BY <1>2, <2>1 DEF Seeded, SeedInv, SeedTypes, Between
  <2>3. SeedTypes'
    BY <1>0, <1>2, <2>1, <2>2 DEF SeedInv, SeedTypes
  <2> QED
    BY <1>0, <2>2, <2>3, FoldersKeep
<1>3. CASE Abandon /\ UNCHANGED seedState
  BY <1>0, <1>3, AbandonKeeps DEF SeedInv, SeedTypes
<1>4. /\ Entry(IF seedState[p] = NoEntry THEN "none" ELSE seedState[p].seeded, bundle[p]) \in Entries
      /\ Entry(bundle[p], "none") \in Entries
  BY DEF Entry, Entries, SeedInv, SeedTypes
<1> QED
  BY <1>1, <1>2, <1>3, <1>4 DEF Examine

\* A plugin is removed, copied, or left half-way.
LEMMA FolderKeeps ==
  ASSUME SeedInv, RemoveOld \/ OldRemoved \/ CopyNew \/ NewCopied \/ CopyFails
  PROVE  SeedInv'
<1>p. PICK p \in Bundled : p = seeding.plugin
  BY DEF RemoveOld, OldRemoved, CopyNew, NewCopied, CopyFails, SeedAt, SeedInv, SeedTypes, Under, Between
<1>0. /\ p \in Bundled /\ seeding \in Under /\ word[p] \notin UserCode
      /\ word[p] = "removed" => seeding.step = "copy" /\ seedState[p] = NoEntry
  BY <1>p DEF RemoveOld, OldRemoved, CopyNew, NewCopied, CopyFails, SeedAt, SeedInv, SeedTypes, SeedsOthers, Under, Between
<1>1. UNCHANGED <<bundle, seedFile, pluginData>>
  BY DEF RemoveOld, OldRemoved, CopyNew, NewCopied, CopyFails
<1>2. CASE Abandon /\ UNCHANGED <<folders, word, seedState>>
  BY <1>1, <1>2, AbandonKeeps DEF SeedInv, SeedTypes
<1>3. ASSUME NEW code \in Codes, folders' = [folders EXCEPT ![p] = code],
             word' = IF word[p] = "removed" THEN [word EXCEPT ![p] = "none"] ELSE word
      PROVE  /\ folders' \in [Bundled -> Codes] /\ word' \in [Bundled -> UserCode \cup {"removed", "none"}]
             /\ \A q \in Bundled : WordStands(q)'
             /\ word'[p] \notin UserCode /\ word'[p] # "removed"
  <2>1. folders' \in [Bundled -> Codes] /\ word' \in [Bundled -> UserCode \cup {"removed", "none"}]
    BY <1>0, <1>p, <1>3 DEF SeedInv, SeedTypes
  <2>2. word'[p] \notin UserCode /\ word'[p] # "removed"
    BY <1>0, <1>p, <1>3, SeedAssumption DEF SeedInv, SeedTypes
  <2>3. ASSUME NEW q \in Bundled, q # p PROVE WordStands(q)'
    BY <1>0, <1>p, <1>3, <2>3 DEF SeedInv, SeedTypes, WordStands
  <2>4. WordStands(p)'
    BY <2>2 DEF WordStands
  <2> QED
    BY <2>1, <2>2, <2>3, <2>4
<1>4. CASE \/ RemoveOld /\ seeding' = [seeding EXCEPT !.step = "removing"]
              /\ folders' = [folders EXCEPT ![p] = "partial"] /\ appPhase' = appPhase
           \/ OldRemoved /\ seeding' = [seeding EXCEPT !.step = "copy"]
              /\ folders' = [folders EXCEPT ![p] = "absent"] /\ appPhase' = appPhase
  <2>1. UNCHANGED <<word, seedState>> /\ word[p] # "removed"
    BY <1>0, <1>p, <1>4 DEF RemoveOld, OldRemoved, SeedAt, historyVars
  <2>2. seeding' \in Under /\ seeding'.plugin = p /\ seeding'.step \in {"removing", "copy"}
    BY <1>0, <1>p, <1>4 DEF Under
  <2>3. PICK code \in Codes : folders' = [folders EXCEPT ![p] = code]
    BY <1>4, <1>p DEF Codes
  <2>4. folders' \in [Bundled -> Codes] /\ \A q \in Bundled : WordStands(q)'
    BY <1>3, <2>1, <2>3
  <2>5. SeedTypes'
    BY <1>1, <1>4, <2>1, <2>2, <2>4 DEF SeedInv, SeedTypes
  <2>6. SeedsOthers'
    BY <1>0, <1>p, <1>4, <2>1, <2>2 DEF SeedsOthers, RemoveOld, OldRemoved, SeedAt
  <2> QED
    BY <2>4, <2>5, <2>6 DEF SeedInv
<1>5. CASE CopyNew
  <2>1. /\ folders' = [folders EXCEPT ![p] = "partial"] /\ seeding' = [seeding EXCEPT !.step = "copying"]
        /\ word' = IF seedState[p] = NoEntry THEN [word EXCEPT ![p] = "none"] ELSE word
        /\ UNCHANGED <<appPhase, seedState>> /\ appPhase = "seeding"
    BY <1>5, <1>p DEF CopyNew, SeedAt
  <2>2. seeding' \in Under /\ seeding'.plugin = p
    BY <1>0, <1>p, <2>1 DEF Under
  <2>3. /\ word' \in [Bundled -> UserCode \cup {"removed", "none"}] /\ word'[p] \notin UserCode /\ word'[p] # "removed"
        /\ \A q \in Bundled \ {p} : word'[q] = word[q]
    BY <1>0, <1>p, <2>1, SeedAssumption DEF SeedInv, SeedTypes
  <2>4. folders' \in [Bundled -> Codes] /\ \A q \in Bundled \ {p} : folders'[q] = folders[q]
    BY <1>0, <1>p, <2>1 DEF SeedInv, SeedTypes, Codes
  <2>5. SeedTypes'
    BY <1>1, <2>1, <2>2, <2>3, <2>4 DEF SeedInv, SeedTypes
  <2>6. \A q \in Bundled : WordStands(q)'
    BY <2>3, <2>4 DEF WordStands, SeedInv
  <2>7. SeedsOthers'
    BY <1>p, <2>1, <2>2, <2>3 DEF SeedsOthers
  <2> QED
    BY <2>5, <2>6, <2>7 DEF SeedInv
<1>6. CASE NewCopied
  <2>1. /\ folders' = [folders EXCEPT ![p] = bundle[p]] /\ UNCHANGED <<appPhase, word>>
        /\ Seeded(p, Entry(bundle[p], "none")) /\ word[p] # "removed"
    BY <1>0, <1>p, <1>6 DEF NewCopied, SeedAt, historyVars
  <2>2. seeding' \in Between /\ seeding'.step = "none"
    BY <1>0, <1>p, <2>1 DEF Seeded, Resting, Between, Under
  <2>3. bundle[p] \in Codes /\ Entry(bundle[p], "none") \in Entries
    BY <1>0, <1>p DEF Codes, Entry, Entries, SeedInv, SeedTypes
  <2>4. seedState' \in [Bundled -> Entries]
    BY <2>1, <2>3 DEF Seeded, SeedInv, SeedTypes
  <2>5. folders' \in [Bundled -> Codes] /\ \A q \in Bundled : WordStands(q)'
    BY <1>3, <2>1, <2>3
  <2>6. SeedTypes'
    BY <1>1, <2>1, <2>2, <2>4, <2>5 DEF SeedInv, SeedTypes
  <2> QED
    BY <2>2, <2>5, <2>6 DEF SeedInv, SeedsOthers
<1>7. CASE CopyFails
  <2>1. PICK left \in {"absent", "partial"} : folders' = [folders EXCEPT ![p] = left]
    BY <1>7, <1>p DEF CopyFails
  <2>2. UNCHANGED <<word, seedState>> /\ appPhase' = "sweeping" /\ seeding' = Resting /\ word[p] # "removed"
    BY <1>0, <1>p, <1>7 DEF CopyFails, SeedAt, historyVars, Abandon
  <2>3. left \in Codes
    BY DEF Codes
  <2>4. folders' \in [Bundled -> Codes] /\ \A q \in Bundled : WordStands(q)'
    BY <1>3, <2>1, <2>2, <2>3
  <2>5. SeedTypes' /\ seeding'.step = "none"
    BY <1>1, <2>2, <2>4, Unentered DEF SeedInv, SeedTypes, Resting
  <2> QED
    BY <2>4, <2>5 DEF SeedInv, SeedsOthers
<1> QED
  BY <1>p, <1>2, <1>4, <1>5, <1>6, <1>7 DEF RemoveOld, OldRemoved, historyVars

LEMMA SeedInvNext == SeedInv /\ [SeedNext]_seedVars => SeedInv'
<1> SUFFICES ASSUME SeedInv, [SeedNext]_seedVars PROVE SeedInv'
  OBVIOUS
<1>1. CASE UNCHANGED seedVars
  BY <1>1 DEF seedVars, historyVars, SeedInv, SeedTypes, WordStands, SeedsOthers
<1>2. CASE SeedNext
  BY <1>2, UserKeeps, WritesKeep, PhaseKeeps, ExamineKeeps, FolderKeeps DEF SeedNext
<1> QED
  BY <1>1, <1>2

\* The user's own code stays byte for byte, and a plugin they removed stays away while the
\* seed state knows it, for all bundles, editions, upgrades, failures and crashes (seed.rs).
THEOREM UsersWordAlwaysStands == SeedSpec => []UsersWordStands
<1>1. SeedInv => UsersWordStands
  BY DEF SeedInv, WordStands, UsersWordStands
<1> QED
  BY <1>1, SeedInvInit, SeedInvNext, PTL DEF SeedSpec

--------------------------------------------------------------------------------
(****************************************************************************)
(* ThemeLook.  What is given away stands for the look it was made from,      *)
(* whatever is installed where it arrives: a file that passes the strict     *)
(* reading says every token and every setting.                               *)
(****************************************************************************)

\* A theme file that was shared says all there is to say about a look.

\* A function of all tokens; a function of all settings.
AllTokens(t)   == t = [k \in LookToken |-> t[k]]
AllSettings(s) == s = [k \in SettingPath |-> s[k]]

\* What the document says is the look, with nothing left to the installation.
SaysAll(doc) ==
    /\ doc = [json |-> doc.json, tokens |-> doc.tokens, settings |-> doc.settings, meta |-> doc.meta]
    /\ AllTokens(doc.tokens) /\ AllSettings(doc.settings) /\ Canonical(doc.tokens) = doc.tokens
LookSaid(doc) == [tokens |-> Repaired(doc.tokens, FALSE), settings |-> doc.settings]
StandsFor(doc, look) == Strict(doc) => SaysAll(doc) /\ look = LookSaid(doc)

\* The shapes of the state.
ConfigShape(c) ==
    /\ c = [theme |-> c.theme, overrides |-> c.overrides, settings |-> c.settings]
    /\ c.theme \in ThemeName /\ AllSettings(c.settings)
ConfigShapes ==
    peerConfig = [p \in Peer |-> peerConfig[p]] /\ \A p \in Peer : ConfigShape(peerConfig[p])
DropinShapes ==
    /\ dropins = [p \in Peer |-> dropins[p]]
    /\ \A p \in Peer : dropins[p] = [n \in ThemeName |-> dropins[p][n]]
ArrivedShapes ==
    /\ arrived = [p \in Peer |-> arrived[p]]
    /\ \A p \in Peer : arrived[p] = [n \in ThemeName |-> arrived[p][n]]
LookShapes == ConfigShapes /\ DropinShapes /\ ArrivedShapes /\ fresh \in [Peer -> BOOLEAN]

\* A given-away file stands for the look it was made from, and so does the drop-in it became.
FilesStand   == \A f \in shared : StandsFor(f.doc, f.look)
DropinStands(p, n) ==
    arrived[p][n] # NoLook =>
        n \in LocalTheme /\ Strict(dropins[p][n]) /\ StandsFor(dropins[p][n], arrived[p][n])
\* A theme was activated as its file says, and nothing is laid over it.
FreshFits(p) ==
    fresh[p] =>
        /\ peerConfig[p].overrides = Empty
        /\ arrived[p][peerConfig[p].theme] # NoLook =>
               peerConfig[p].settings = dropins[p][peerConfig[p].theme].settings
NoTextChosen(p) == "text" \notin DOMAIN peerConfig[p].overrides
LookInv ==
    /\ LookShapes /\ FilesStand
    /\ \A p \in Peer : FreshFits(p) /\ NoTextChosen(p) /\ \A n \in ThemeName : DropinStands(p, n)

LEMMA WithFacts ==
  ASSUME NEW a, NEW b
  PROVE  /\ DOMAIN With(a, b) = DOMAIN a \cup DOMAIN b
         /\ AllTokens(a) /\ DOMAIN b \subseteq LookToken => AllTokens(With(a, b))
         /\ AllTokens(b) /\ DOMAIN a \subseteq LookToken => With(a, b) = b
         /\ AllTokens(a) => With(a, Empty) = a
<1>1. DOMAIN With(a, b) = DOMAIN a \cup DOMAIN b
  BY DEF With
<1>2. ASSUME AllTokens(a), DOMAIN b \subseteq LookToken PROVE AllTokens(With(a, b))
  <2>1. DOMAIN a \cup DOMAIN b = LookToken
    BY <1>2 DEF AllTokens
  <2>2. With(a, b) = [k \in LookToken |-> IF k \in DOMAIN b THEN b[k] ELSE a[k]]
    BY <2>1, Zenon DEF With
  <2> QED
    BY <2>2 DEF AllTokens
<1>3. ASSUME AllTokens(b), DOMAIN a \subseteq LookToken PROVE With(a, b) = b
  <2>1. DOMAIN b = LookToken /\ DOMAIN a \cup DOMAIN b = LookToken
    BY <1>3 DEF AllTokens
  <2>2. With(a, b) = [k \in LookToken |-> IF k \in DOMAIN b THEN b[k] ELSE a[k]]
    BY <2>1, Zenon DEF With
  <2>3. With(a, b) = [k \in LookToken |-> b[k]]
    BY <2>1, <2>2
  <2> QED
    BY <1>3, <2>3 DEF AllTokens
<1>4. ASSUME AllTokens(a) PROVE With(a, Empty) = a
  <2>1. DOMAIN Empty = {} /\ DOMAIN a = LookToken
    BY <1>4 DEF AllTokens, Empty
  <2>2. DOMAIN a \cup DOMAIN Empty = LookToken
    BY <2>1
  <2>3. With(a, Empty) = [k \in LookToken |-> IF k \in DOMAIN Empty THEN Empty[k] ELSE a[k]]
    BY <2>2, Zenon DEF With
  <2>4. With(a, Empty) = [k \in LookToken |-> a[k]]
    BY <2>1, <2>3
  <2> QED
    BY <1>4, <2>4 DEF AllTokens
<1> QED
  BY <1>1, <1>2, <1>3, <1>4

\* Fonts are made canonical once and for all.
LEMMA CanonicalFacts ==
  ASSUME NEW t
  PROVE  /\ DOMAIN t \subseteq DOMAIN Canonical(t)
         /\ DOMAIN Canonical(t) \subseteq DOMAIN t \cup {"sans"}
         /\ AllTokens(t) => AllTokens(Canonical(t)) /\ Canonical(Canonical(t)) = Canonical(t)
<1> DEFINE inter == [k \in {"sans"} |-> "inter"]
<1>0. DOMAIN inter = {"sans"} /\ inter["sans"] = "inter" /\ "sans" \in LookToken
      /\ "source" \in LookToken
  BY DEF LookToken
<1>1. CASE "source" \in DOMAIN t /\ t["source"] = "google"
  <2>1. Canonical(t) = With(t, inter)
    BY <1>1 DEF Canonical
  <2>2. DOMAIN With(t, inter) = DOMAIN t \cup {"sans"}
    BY <1>0, WithFacts
  <2>3. ASSUME AllTokens(t)
        PROVE  AllTokens(Canonical(t)) /\ Canonical(Canonical(t)) = Canonical(t)
    <3> DEFINE c == With(t, inter)
    <3>1. AllTokens(c)
      <4>1. DOMAIN inter \subseteq LookToken
        BY <1>0
      <4> HIDE DEF inter
      <4>2. AllTokens(With(t, inter))
        BY <2>3, <4>1, WithFacts
      <4> QED
        BY <4>2
    <3>2. DOMAIN c = LookToken
      BY <3>1 DEF AllTokens
    <3>3. c["source"] = "google" /\ c["sans"] = "inter"
      BY <1>0, <1>1, <2>2 DEF With
    <3>4. Canonical(c) = With(c, inter)
      BY <1>0, <3>2, <3>3 DEF Canonical
    <3>5. \A k \in LookToken : (IF k \in DOMAIN inter THEN inter[k] ELSE c[k]) = c[k]
      BY <1>0, <3>3
    <3>6. DOMAIN c \cup DOMAIN inter = LookToken
      BY <1>0, <3>2
    <3>7. With(c, inter) = [k \in LookToken |-> IF k \in DOMAIN inter THEN inter[k] ELSE c[k]]
      BY <3>6, Zenon DEF With
    <3> HIDE DEF c, inter
    <3>8. With(c, inter) = [k \in LookToken |-> c[k]]
      BY <3>5, <3>7
    <3> QED
      BY <2>1, <3>1, <3>4, <3>8 DEF c, AllTokens
  <2> QED
    BY <2>1, <2>2, <2>3
<1>2. CASE ~("source" \in DOMAIN t /\ t["source"] = "google")
  BY <1>2 DEF Canonical
<1> QED
  BY <1>1, <1>2

\* A strict document of all tokens is read as it is.
LEMMA StrictRead ==
  ASSUME NEW doc, Strict(doc), AllTokens(doc.tokens),
         doc = [json |-> doc.json, tokens |-> doc.tokens, settings |-> doc.settings,
                meta |-> doc.meta]
  PROVE  Tolerant(doc).tokens = doc.tokens
<1>1. {t \in DOMAIN doc.tokens : ValidToken(doc, t)} = LookToken
  BY DEF Strict, StrictTokens, AllTokens
<1>2. Tolerant(doc) = [doc EXCEPT !.tokens = [k \in LookToken |-> doc.tokens[k]]]
  BY <1>1, Zenon DEF Tolerant
<1>3. \A q, t : q = [doc EXCEPT !.tokens = t] => q.tokens = t
  OBVIOUS
<1> QED
  BY <1>2, <1>3 DEF AllTokens

\* Settings that a document says in full are taken over as they are.
LEMMA SettingsTaken ==
  ASSUME NEW old, NEW doc, Strict(doc), AllSettings(doc.settings), NEW base,
         DOMAIN base \subseteq SettingPath
  PROVE  ApplySettings(old, With(base, doc.settings)) = doc.settings
<1>1. DOMAIN doc.settings = SettingPath
  BY DEF AllSettings
<1>2. \A s \in SettingPath : doc.settings[s] \in SettingValue
  BY <1>1 DEF Strict, ValidSetting
<1>3. /\ DOMAIN With(base, doc.settings) = SettingPath
      /\ \A s \in SettingPath : With(base, doc.settings)[s] = doc.settings[s]
  BY <1>1 DEF With
<1>4. ApplySettings(old, With(base, doc.settings)) = [s \in SettingPath |-> doc.settings[s]]
  BY <1>2, <1>3 DEF ApplySettings
<1> QED
  BY <1>4 DEF AllSettings

\* What the bundled themes are.
LEMMA BundleFacts ==
  ASSUME NEW p \in Peer, NEW n
  PROVE  AllTokens(Base(p, n).tokens) /\ AllSettings(Base(p, n).settings)
         /\ AllSettings(Bundles[p]["default"].settings)
  BY LookAssumption DEF Base, AllTokens, AllSettings, BundledTheme

\* What a theme resolves to is complete and canonical.
LEMMA ResolvedFacts ==
  ASSUME NEW p \in Peer, NEW n, NEW tokens, tokens = Resolve(p, n), DOMAIN tokens \subseteq LookToken
  PROVE  AllTokens(tokens) /\ Canonical(tokens) = tokens
<1> DEFINE base == Base(p, n).tokens
           top == Tolerant(dropins[p][n]).tokens
<1>1. AllTokens(base)
  BY BundleFacts
<1>2. tokens = Canonical(With(base, top))
  BY DEF Resolve
<1> HIDE DEF base, top
<1>3. DOMAIN With(base, top) \subseteq LookToken
  BY <1>2, CanonicalFacts
<1>4. AllTokens(With(base, top))
  BY <1>1, <1>3, WithFacts
<1> QED
  BY <1>2, <1>4, CanonicalFacts

\* What is exported stands for what the theme looks like.
LEMMA ExportStands ==
  ASSUME NEW p \in Peer, NEW n
  PROVE  StandsFor(ExportDoc(p, n), LookOf(p, n))
<1> DEFINE doc == ExportDoc(p, n)
           tokens == Resolve(p, n)
           def == Bundles[p]["default"].settings
           block == SettingsBlock(p, n)
<1>1. doc.tokens = tokens /\ doc.settings = With(def, block)
      /\ doc = [json |-> doc.json, tokens |-> doc.tokens, settings |-> doc.settings, meta |-> doc.meta]
  BY DEF ExportDoc
<1>2. AllSettings(def)
  BY BundleFacts
<1>3. LookOf(p, n) = Look(tokens, Empty, ApplySettings(def, block))
  BY DEF LookOf, Preview
<1> HIDE DEF doc, tokens, def, block
<1> SUFFICES ASSUME Strict(doc) PROVE SaysAll(doc) /\ LookOf(p, n) = LookSaid(doc)
  BY DEF StandsFor, doc
<1>4. AllTokens(tokens) /\ Canonical(tokens) = tokens
  <2>1. DOMAIN tokens \subseteq LookToken
    BY <1>1 DEF Strict, StrictTokens, ValidToken
  <2> QED
    BY <2>1, ResolvedFacts DEF tokens
<1>5. DOMAIN With(def, block) = SettingPath
      /\ \A s \in SettingPath : With(def, block)[s] \in SettingValue
  <2>1. DOMAIN With(def, block) = SettingPath \cup DOMAIN block
    BY <1>2, WithFacts DEF AllSettings
  <2>2. \A s \in DOMAIN With(def, block) : s \in SettingPath /\ With(def, block)[s] \in SettingValue
    BY <1>1 DEF Strict, ValidSetting
  <2> QED
    BY <2>1, <2>2
<1>6. With(def, block) = [s \in SettingPath |-> IF s \in DOMAIN block THEN block[s] ELSE def[s]]
  <2>1. DOMAIN def \cup DOMAIN block = SettingPath
    BY <1>5, WithFacts
  <2> QED
    BY <2>1, Zenon DEF With
<1>7. ApplySettings(def, block) = With(def, block)
  <2>1. \A s \in SettingPath : (IF s \in DOMAIN block /\ block[s] \in SettingValue THEN block[s] ELSE def[s])
                                 = (IF s \in DOMAIN block THEN block[s] ELSE def[s])
    BY <1>5, <1>6
  <2> QED
    BY <1>6, <2>1 DEF ApplySettings
<1>8. AllSettings(doc.settings)
  BY <1>1, <1>6 DEF AllSettings
<1>9. "text" \notin DOMAIN Empty
  BY DEF Empty
<1>10. With(tokens, Empty) = tokens
  BY <1>4, WithFacts
<1>11. LookOf(p, n) = LookSaid(doc)
  <2>1. Look(tokens, Empty, ApplySettings(def, block))
          = [tokens |-> Repaired(Canonical(With(tokens, Empty)), "text" \in DOMAIN Empty),
             settings |-> ApplySettings(def, block)]
    BY Zenon DEF Look
  <2>2. Repaired(tokens, "text" \in DOMAIN Empty) = Repaired(tokens, FALSE)
    BY <1>9 DEF Repaired
  <2>3. Canonical(With(tokens, Empty)) = tokens
    BY <1>4, <1>10
  <2> QED
    BY <1>1, <1>3, <1>7, <2>1, <2>2, <2>3, Zenon DEF LookSaid
<1> QED
  BY <1>1, <1>4, <1>8, <1>11 DEF SaysAll

\* What is painted now is what the look of the page is saved as.
LEMMA SavedStands ==
  ASSUME NEW p \in Peer, AllSettings(peerConfig[p].settings), NoTextChosen(p)
  PROVE  StandsFor(CurrentLook(p), Painted(p))
<1> DEFINE doc == CurrentLook(p)
           overrides == peerConfig[p].overrides
           under == Resolve(p, peerConfig[p].theme)
           tokens == Canonical(With(under, overrides))
           settings == peerConfig[p].settings
<1>1. doc.tokens = tokens /\ doc.settings = settings
      /\ doc = [json |-> doc.json, tokens |-> doc.tokens, settings |-> doc.settings, meta |-> doc.meta]
  BY DEF CurrentLook, Snapshot
<1>2. Painted(p) = [tokens |-> Repaired(tokens, "text" \in DOMAIN overrides), settings |-> settings]
  BY DEF Painted, Look
<1> HIDE DEF doc
<1> SUFFICES ASSUME Strict(doc) PROVE SaysAll(doc) /\ Painted(p) = LookSaid(doc)
  BY DEF StandsFor, doc
<1>3. DOMAIN tokens \subseteq LookToken
  BY <1>1 DEF Strict, StrictTokens, ValidToken
<1>4. "text" \notin DOMAIN overrides
  BY DEF NoTextChosen
<1>5. Painted(p) = LookSaid(doc)
  <2>1. Repaired(tokens, "text" \in DOMAIN overrides) = Repaired(tokens, FALSE)
    <3> HIDE DEF tokens, overrides
    <3> QED
      BY <1>4 DEF Repaired
  <2> QED
    BY <1>1, <1>2, <2>1, Zenon DEF LookSaid
<1> HIDE DEF overrides, under
<1>6. DOMAIN under \subseteq LookToken /\ DOMAIN overrides \subseteq LookToken
  <2>1. DOMAIN With(under, overrides) \subseteq LookToken
    BY <1>3, CanonicalFacts
  <2>2. DOMAIN With(under, overrides) = DOMAIN under \cup DOMAIN overrides
    BY WithFacts
  <2> QED
    BY <2>1, <2>2
<1>7. AllTokens(under)
  BY <1>6, ResolvedFacts DEF under
<1>8. AllTokens(tokens) /\ Canonical(tokens) = tokens
  BY <1>6, <1>7, CanonicalFacts, WithFacts
<1> QED
  BY <1>1, <1>5, <1>8 DEF SaysAll

\* Users choose other tokens than the text's color; what the page derives from that choice
\* no document says.
TextIsDerived == \A o \in Overrides : "text" \notin DOMAIN o

LEMMA LookInvInit == LookInit => LookInv
<1> SUFFICES ASSUME LookInit PROVE LookInv
  OBVIOUS
<1>1. ASSUME NEW p \in Peer
      PROVE  /\ ConfigShape(peerConfig[p]) /\ peerConfig[p].overrides = Empty
  <2> DEFINE settings == Bundles[p]["default"].settings
  <2>1. peerConfig[p] = [theme |-> "default", overrides |-> Empty, settings |-> settings]
    BY DEF LookInit
  <2>2. AllSettings(settings)
    BY BundleFacts
  <2> HIDE DEF settings
  <2> QED
    BY <2>1, <2>2 DEF ConfigShape, ThemeName, BundledTheme
<1>2. LookShapes
  BY <1>1 DEF LookInit, LookShapes, ConfigShapes, DropinShapes, ArrivedShapes
<1>3. \A p \in Peer : ~fresh[p] /\ \A n \in ThemeName : arrived[p][n] = NoLook
  BY DEF LookInit
<1>4. \A p \in Peer : NoTextChosen(p)
  BY <1>1 DEF NoTextChosen, Empty
<1> QED
  BY <1>2, <1>3, <1>4 DEF LookInv, FilesStand, FreshFits, DropinStands, LookInit

\* What activating a theme leaves of the config.
LEMMA ActivatedFacts ==
  ASSUME NEW p \in Peer, NEW name, NEW files
  PROVE  LET config == Activated(p, name, files) IN
         /\ name \in ThemeName => ConfigShape(config)
         /\ config.theme = name /\ config.overrides = Empty
         /\ name \notin BundledTheme /\ Strict(files[name]) /\ AllSettings(files[name].settings)
                => config.settings = files[name].settings
<1> DEFINE block == With(IF name \in BundledTheme THEN Base(p, name).settings ELSE Empty,
                         files[name].settings)
           settings == ApplySettings(peerConfig[p].settings, block)
<1>1. Activated(p, name, files) = [theme |-> name, overrides |-> Empty, settings |-> settings]
  BY DEF Activated
<1>2. AllSettings(settings)
  <2> HIDE DEF block
  <2> QED
    BY DEF AllSettings, ApplySettings
<1>3. ASSUME name \notin BundledTheme, Strict(files[name]), AllSettings(files[name].settings)
      PROVE  settings = files[name].settings
  <2>1. block = With(Empty, files[name].settings) /\ DOMAIN Empty \subseteq SettingPath
    BY <1>3 DEF Empty
  <2> HIDE DEF block
  <2> QED
    BY <1>3, <2>1, SettingsTaken
<1> HIDE DEF settings
<1> QED
  BY <1>1, <1>2, <1>3 DEF ConfigShape

\* One installation's config changes.
LEMMA ConfigSet ==
  ASSUME ConfigShapes, NEW p \in Peer, NEW c, ConfigShape(c), peerConfig' = [peerConfig EXCEPT ![p] = c]
  PROVE  ConfigShapes' /\ peerConfig'[p] = c /\ \A q \in Peer \ {p} : peerConfig'[q] = peerConfig[q]
<1>1. peerConfig'[p] = c /\ \A q \in Peer \ {p} : peerConfig'[q] = peerConfig[q]
  BY DEF ConfigShapes
<1>2. peerConfig' = [q \in Peer |-> peerConfig'[q]]
  BY DEF ConfigShapes
<1>3. \A q \in Peer : ConfigShape(peerConfig'[q])
  BY <1>1 DEF ConfigShapes
<1> QED
  BY <1>1, <1>2, <1>3 DEF ConfigShapes

\* One place of a function changes.
Changed(new, was, place, value) == new = [was EXCEPT ![place] = value]

\* One theme file of one installation changes.
LEMMA DropinSet ==
  ASSUME DropinShapes, NEW p \in Peer, NEW n \in ThemeName, NEW doc, NEW row,
         Changed(row, dropins[p], n, doc), Changed(dropins', dropins, p, row)
  PROVE  /\ DropinShapes' /\ dropins'[p][n] = doc
         /\ \A q \in Peer, m \in ThemeName : q # p \/ m # n => dropins'[q][m] = dropins[q][m]
<1>1. /\ dropins'[p] = [dropins[p] EXCEPT ![n] = doc]
      /\ \A q \in Peer \ {p} : dropins'[q] = dropins[q]
      /\ dropins' = [q \in Peer |-> dropins'[q]]
  BY DEF DropinShapes, Changed
<1>2. /\ dropins'[p] = [m \in ThemeName |-> dropins'[p][m]] /\ dropins'[p][n] = doc
      /\ \A m \in ThemeName \ {n} : dropins'[p][m] = dropins[p][m]
  BY <1>1 DEF DropinShapes, Changed
<1> QED
  BY <1>1, <1>2 DEF DropinShapes

LEMMA ArrivedSet ==
  ASSUME ArrivedShapes, NEW p \in Peer, NEW n \in ThemeName, NEW look, NEW row,
         Changed(row, arrived[p], n, look), Changed(arrived', arrived, p, row)
  PROVE  /\ ArrivedShapes' /\ arrived'[p][n] = look
         /\ \A q \in Peer, m \in ThemeName : q # p \/ m # n => arrived'[q][m] = arrived[q][m]
<1>1. /\ arrived'[p] = [arrived[p] EXCEPT ![n] = look]
      /\ \A q \in Peer \ {p} : arrived'[q] = arrived[q]
      /\ arrived' = [q \in Peer |-> arrived'[q]]
  BY DEF ArrivedShapes, Changed
<1>2. /\ arrived'[p] = [m \in ThemeName |-> arrived'[p][m]] /\ arrived'[p][n] = look
      /\ \A m \in ThemeName \ {n} : arrived'[p][m] = arrived[p][m]
  BY <1>1 DEF ArrivedShapes, Changed
<1> QED
  BY <1>1, <1>2 DEF ArrivedShapes

LEMMA FreshSet ==
  ASSUME fresh \in [Peer -> BOOLEAN], NEW p \in Peer, NEW b \in BOOLEAN,
         fresh' = [fresh EXCEPT ![p] = b]
  PROVE  fresh' \in [Peer -> BOOLEAN] /\ fresh'[p] = b /\ \A q \in Peer \ {p} : fresh'[q] = fresh[q]
  OBVIOUS

\* What one installation does leaves the others as they are.
LEMMA OnePeer ==
  ASSUME LookInv, NEW p \in Peer, LookShapes', FilesStand',
         \A q \in Peer \ {p} :
            /\ peerConfig'[q] = peerConfig[q] /\ fresh'[q] = fresh[q]
            /\ \A m \in ThemeName : dropins'[q][m] = dropins[q][m] /\ arrived'[q][m] = arrived[q][m],
         FreshFits(p)', NoTextChosen(p)', \A n \in ThemeName : DropinStands(p, n)'
  PROVE  LookInv'
<1>1. ASSUME NEW q \in Peer \ {p}
      PROVE  FreshFits(q)' /\ NoTextChosen(q)' /\ \A n \in ThemeName : DropinStands(q, n)'
  <2>1. peerConfig[q].theme \in ThemeName
    BY DEF LookInv, LookShapes, ConfigShapes, ConfigShape
  <2>2. FreshFits(q)' /\ NoTextChosen(q)'
    BY <2>1 DEF LookInv, FreshFits, NoTextChosen
  <2>3. \A n \in ThemeName : DropinStands(q, n)'
    BY DEF LookInv, DropinStands
  <2> QED
    BY <2>2, <2>3
<1> QED
  BY <1>1 DEF LookInv

\* A theme is activated.
LEMMA ActivateStep ==
  ASSUME LookInv, NEW p \in Peer, NEW name \in ThemeName, Activate(p, name)
  PROVE  LookInv'
<1> DEFINE c == Activated(p, name, dropins[p])
<1>1. /\ peerConfig' = [peerConfig EXCEPT ![p] = c] /\ fresh' = [fresh EXCEPT ![p] = TRUE]
      /\ UNCHANGED <<dropins, shared, arrived>>
  BY DEF Activate
<1>2. /\ ConfigShape(c) /\ c.theme = name /\ c.overrides = Empty
      /\ name \notin BundledTheme /\ Strict(dropins[p][name]) /\ AllSettings(dropins[p][name].settings)
             => c.settings = dropins[p][name].settings
  BY ActivatedFacts
<1> HIDE DEF c
<1>3. ConfigShapes' /\ peerConfig'[p] = c /\ \A q \in Peer \ {p} : peerConfig'[q] = peerConfig[q]
  BY <1>1, <1>2, ConfigSet DEF LookInv, LookShapes
<1>4. fresh' \in [Peer -> BOOLEAN] /\ \A q \in Peer \ {p} : fresh'[q] = fresh[q]
  BY <1>1, FreshSet DEF LookInv, LookShapes
<1>5. LookShapes'
  BY <1>1, <1>3, <1>4 DEF LookInv, LookShapes, DropinShapes, ArrivedShapes
<1>6. FilesStand' /\ \A n \in ThemeName : DropinStands(p, n)'
  BY <1>1 DEF LookInv, FilesStand, DropinStands
<1>7. FreshFits(p)'
  <2>1. ASSUME arrived[p][name] # NoLook PROVE c.settings = dropins[p][name].settings
    BY <1>2, <2>1, LookAssumption DEF LookInv, DropinStands, StandsFor, SaysAll
  <2> QED
    BY <1>1, <1>2, <1>3, <2>1 DEF FreshFits
<1>8. NoTextChosen(p)'
  BY <1>2, <1>3 DEF NoTextChosen, Empty
<1> QED
  BY <1>1, <1>3, <1>4, <1>5, <1>6, <1>7, <1>8, OnePeer

\* The user overrides tokens, or sets a setting.
LEMMA ChooseStep ==
  ASSUME TextIsDerived, LookInv, NEW p \in Peer, Override(p) \/ SetSetting(p)
  PROVE  LookInv'
<1>0. ConfigShape(peerConfig[p]) /\ peerConfig = [q \in Peer |-> peerConfig[q]]
  BY DEF LookInv, LookShapes, ConfigShapes
<1>1. fresh' = [fresh EXCEPT ![p] = FALSE] /\ UNCHANGED <<dropins, shared, arrived>>
  BY DEF Override, SetSetting
<1>2. PICK c : /\ ConfigShape(c) /\ "text" \notin DOMAIN c.overrides
               /\ peerConfig' = [peerConfig EXCEPT ![p] = c]
  <2>1. CASE Override(p)
    <3>1. PICK o \in Overrides : peerConfig' = [peerConfig EXCEPT ![p].overrides = Canonical(o)]
      BY <2>1 DEF Override
    <3>2. "text" \notin DOMAIN Canonical(o)
      BY CanonicalFacts DEF TextIsDerived
    <3> DEFINE c == [theme |-> peerConfig[p].theme, overrides |-> Canonical(o),
                     settings |-> peerConfig[p].settings]
    <3>3. ConfigShape(c) /\ c.overrides = Canonical(o)
      BY <1>0 DEF ConfigShape
    <3>4. peerConfig' = [peerConfig EXCEPT ![p] = [peerConfig[p] EXCEPT !.overrides = Canonical(o)]]
      BY <1>0, <3>1
    <3>5. \A x, q : q = [peerConfig[p] EXCEPT !.overrides = x]
                       => q = [theme |-> peerConfig[p].theme, overrides |-> x,
                               settings |-> peerConfig[p].settings]
      BY <1>0 DEF ConfigShape
    <3>6. [peerConfig[p] EXCEPT !.overrides = Canonical(o)] = c
      BY <3>5, Zenon
    <3> HIDE DEF c
    <3> QED
      BY <3>2, <3>3, <3>4, <3>6
  <2>2. CASE SetSetting(p)
    <3>1. PICK s \in SettingPath, v \in SettingValue :
             peerConfig' = [peerConfig EXCEPT ![p] = SetAt(peerConfig[p], s, v)]
      BY <2>2 DEF SetSetting
    <3> DEFINE new == [peerConfig[p].settings EXCEPT ![s] = v]
               c == [theme |-> peerConfig[p].theme, overrides |-> peerConfig[p].overrides,
                     settings |-> new]
    <3>2. AllSettings(new)
      BY <1>0 DEF ConfigShape, AllSettings
    <3>3. SetAt(peerConfig[p], s, v) = [peerConfig[p] EXCEPT !.settings = new]
      BY <1>0 DEF SetAt, ConfigShape
    <3>4. \A x, q : q = [peerConfig[p] EXCEPT !.settings = x]
                       => q = [theme |-> peerConfig[p].theme, overrides |-> peerConfig[p].overrides,
                               settings |-> x]
      BY <1>0 DEF ConfigShape
    <3> HIDE DEF new
    <3>5. SetAt(peerConfig[p], s, v) = c
      BY <3>3, <3>4, Zenon
    <3>6. ConfigShape(c) /\ c.overrides = peerConfig[p].overrides
      BY <1>0, <3>2 DEF ConfigShape
    <3>7. "text" \notin DOMAIN peerConfig[p].overrides
      BY DEF LookInv, NoTextChosen
    <3> HIDE DEF c
    <3> QED
      BY <3>1, <3>5, <3>6, <3>7
  <2> QED
    BY <2>1, <2>2
<1>3. ConfigShapes' /\ peerConfig'[p] = c /\ \A q \in Peer \ {p} : peerConfig'[q] = peerConfig[q]
  BY <1>2, ConfigSet DEF LookInv, LookShapes
<1>4. /\ fresh' \in [Peer -> BOOLEAN] /\ fresh'[p] = FALSE
      /\ \A q \in Peer \ {p} : fresh'[q] = fresh[q]
  BY <1>1, FreshSet DEF LookInv, LookShapes
<1>5. LookShapes'
  BY <1>1, <1>3, <1>4 DEF LookInv, LookShapes, DropinShapes, ArrivedShapes
<1>6. FilesStand' /\ \A n \in ThemeName : DropinStands(p, n)'
  BY <1>1 DEF LookInv, FilesStand, DropinStands
<1>7. FreshFits(p)' /\ NoTextChosen(p)'
  BY <1>2, <1>3, <1>4 DEF FreshFits, NoTextChosen
<1> QED
  BY <1>1, <1>3, <1>4, <1>5, <1>6, <1>7, OnePeer

\* A drop-in becomes what no shared file said, or goes.
LEMMA WriteStep ==
  ASSUME LookInv, NEW p \in Peer, NEW name \in ThemeName,
         WriteTheme(p, name) \/ HandEdit(p, name) \/ DeleteTheme(p, name)
  PROVE  LookInv'
<1>1. DropinShapes /\ ArrivedShapes
  BY DEF LookInv, LookShapes
<1>2. PICK doc : dropins' = [dropins EXCEPT ![p][name] = doc]
  BY DEF WriteTheme, HandEdit, DeleteTheme
<1>3. arrived' = [arrived EXCEPT ![p][name] = NoLook] /\ shared' = shared
  BY DEF WriteTheme, HandEdit, DeleteTheme
<1> DEFINE files == [dropins[p] EXCEPT ![name] = doc]
           looks == [arrived[p] EXCEPT ![name] = NoLook]
<1>4. /\ Changed(files, dropins[p], name, doc) /\ Changed(dropins', dropins, p, files)
      /\ Changed(looks, arrived[p], name, NoLook) /\ Changed(arrived', arrived, p, looks)
  BY <1>1, <1>2, <1>3 DEF DropinShapes, ArrivedShapes, Changed
<1> HIDE DEF files, looks
<1>5. /\ DropinShapes' /\ \A q \in Peer, m \in ThemeName : q # p \/ m # name => dropins'[q][m] = dropins[q][m]
  BY <1>1, <1>4, DropinSet
<1>6. /\ ArrivedShapes' /\ arrived'[p][name] = NoLook
      /\ \A q \in Peer, m \in ThemeName : q # p \/ m # name => arrived'[q][m] = arrived[q][m]
  BY <1>1, <1>4, ArrivedSet
<1>7. FilesStand' /\ \A n \in ThemeName : DropinStands(p, n)'
  <2>1. FilesStand'
    BY <1>3 DEF LookInv, FilesStand
  <2>2. ASSUME NEW n \in ThemeName PROVE DropinStands(p, n)'
    BY <1>5, <1>6 DEF LookInv, DropinStands
  <2> QED
    BY <2>1, <2>2
<1>8. CASE UNCHANGED <<peerConfig, fresh>>
  <2>1. LookShapes'
    BY <1>5, <1>6, <1>8 DEF LookInv, LookShapes, ConfigShapes
  <2>2. peerConfig[p].theme \in ThemeName
    BY DEF LookInv, LookShapes, ConfigShapes, ConfigShape
  <2>3. FreshFits(p)' /\ NoTextChosen(p)'
    BY <1>5, <1>6, <1>8, <2>2 DEF LookInv, FreshFits, NoTextChosen
  <2> QED
    BY <1>5, <1>6, <1>7, <1>8, <2>1, <2>3, OnePeer
<1>9. CASE DeleteTheme(p, name) /\ peerConfig[p].theme = name
  <2> DEFINE c == Activated(p, "default", dropins[p])
  <2>1. peerConfig' = [peerConfig EXCEPT ![p] = c] /\ fresh' = [fresh EXCEPT ![p] = TRUE]
    BY <1>9 DEF DeleteTheme
  <2>2. "default" \in BundledTheme /\ "default" \in ThemeName /\ "default" \notin LocalTheme
    BY LookAssumption DEF BundledTheme, ThemeName
  <2>3. ConfigShape(c) /\ c.theme = "default" /\ c.overrides = Empty
    BY <2>2, ActivatedFacts
  <2> HIDE DEF c
  <2>4. ConfigShapes' /\ peerConfig'[p] = c /\ \A q \in Peer \ {p} : peerConfig'[q] = peerConfig[q]
    BY <2>1, <2>3, ConfigSet DEF LookInv, LookShapes
  <2>5. fresh' \in [Peer -> BOOLEAN] /\ \A q \in Peer \ {p} : fresh'[q] = fresh[q]
    BY <2>1, FreshSet DEF LookInv, LookShapes
  <2>6. LookShapes'
    BY <1>5, <1>6, <2>4, <2>5 DEF LookShapes
  <2>7. arrived'[p]["default"] = NoLook
    BY <1>7, <2>2 DEF DropinStands
  <2>8. FreshFits(p)' /\ NoTextChosen(p)'
    BY <2>3, <2>4, <2>7 DEF FreshFits, NoTextChosen, Empty
  <2> QED
    BY <1>5, <1>6, <1>7, <2>4, <2>5, <2>6, <2>8, OnePeer
<1> QED
  BY <1>8, <1>9 DEF WriteTheme, HandEdit, DeleteTheme

\* The look of the page is saved and activated.
LEMMA SaveStep ==
  ASSUME LookInv, NEW p \in Peer, NEW name \in LocalTheme, NEW overwrite,
         SaveLook(p, name, overwrite)
  PROVE  LookInv'
<1> DEFINE doc == CurrentLook(p)
           look == Painted(p)
           files == [dropins[p] EXCEPT ![name] = doc]
           looks == [arrived[p] EXCEPT ![name] = look]
           c == Activated(p, name, files)
<1>1. DropinShapes /\ ArrivedShapes
  BY DEF LookInv, LookShapes
<1>2. /\ Strict(doc) /\ dropins' = [dropins EXCEPT ![p] = files]
      /\ peerConfig' = [peerConfig EXCEPT ![p] = c]
      /\ arrived' = [arrived EXCEPT ![p][name] = look] /\ fresh' = [fresh EXCEPT ![p] = TRUE]
      /\ shared' \in Copied(name, doc, look)
  BY DEF SaveLook, Writable
<1>3. StandsFor(doc, look)
  BY SavedStands DEF LookInv, LookShapes, ConfigShapes, ConfigShape
<1>4. name \in ThemeName /\ name \notin BundledTheme
  BY LookAssumption DEF ThemeName
<1>5. files[name] = doc
  BY <1>1, <1>4 DEF DropinShapes
<1>6. Changed(files, dropins[p], name, doc) /\ Changed(dropins', dropins, p, files)
  BY <1>2 DEF Changed
<1>7. Changed(looks, arrived[p], name, look) /\ Changed(arrived', arrived, p, looks)
  BY <1>1, <1>2, <1>4 DEF ArrivedShapes, Changed
<1> HIDE DEF doc, look, files, looks
<1>8. /\ ConfigShape(c) /\ c.theme = name /\ c.overrides = Empty /\ c.settings = doc.settings
  <2>1. Strict(files[name]) /\ AllSettings(files[name].settings)
    BY <1>2, <1>3, <1>5 DEF StandsFor, SaysAll
  <2> QED
    BY <1>4, <1>5, <2>1, ActivatedFacts
<1> HIDE DEF c
<1>9. /\ DropinShapes' /\ dropins'[p][name] = doc
      /\ \A q \in Peer, m \in ThemeName : q # p \/ m # name => dropins'[q][m] = dropins[q][m]
  BY <1>1, <1>4, <1>6, DropinSet
<1>10. /\ ArrivedShapes' /\ arrived'[p][name] = look
      /\ \A q \in Peer, m \in ThemeName : q # p \/ m # name => arrived'[q][m] = arrived[q][m]
  BY <1>1, <1>4, <1>7, ArrivedSet
<1>11. ConfigShapes' /\ peerConfig'[p] = c /\ \A q \in Peer \ {p} : peerConfig'[q] = peerConfig[q]
  BY <1>2, <1>8, ConfigSet DEF LookInv, LookShapes
<1>12. fresh' \in [Peer -> BOOLEAN] /\ \A q \in Peer \ {p} : fresh'[q] = fresh[q]
  BY <1>2, FreshSet DEF LookInv, LookShapes
<1>13. LookShapes'
  BY <1>9, <1>10, <1>11, <1>12 DEF LookShapes
<1>14. FilesStand'
  <2>1. \A f \in shared' : f \in shared \/ (f.doc = doc /\ f.look = look)
    BY <1>2 DEF Copied
  <2> QED
    BY <1>3, <2>1 DEF LookInv, FilesStand
<1>15. ASSUME NEW n \in ThemeName PROVE DropinStands(p, n)'
  BY <1>2, <1>3, <1>9, <1>10 DEF LookInv, DropinStands
<1>16. FreshFits(p)' /\ NoTextChosen(p)'
  BY <1>8, <1>9, <1>11 DEF FreshFits, NoTextChosen, Empty
<1> QED
  BY <1>9, <1>10, <1>11, <1>12, <1>13, <1>14, <1>15, <1>16, OnePeer

\* A theme is given away, or comes in.
LEMMA ShareStep ==
  ASSUME LookInv, NEW p \in Peer,
         \/ \E name \in ThemeName : Export(p, name)
         \/ \E file \in shared, overwrite \in BOOLEAN : Import(p, file, overwrite)
  PROVE  LookInv'
<1>1. ASSUME NEW name \in ThemeName, Export(p, name) PROVE LookInv'
  <2>1. UNCHANGED <<peerConfig, dropins, arrived, fresh>>
    BY <1>1 DEF Export
  <2>2. \A f \in shared' : f \in shared \/ (f.doc = ExportDoc(p, name) /\ f.look = LookOf(p, name))
    BY <1>1 DEF Export
  <2>3. FilesStand'
    BY <2>2, ExportStands DEF LookInv, FilesStand
  <2>4. LookShapes'
    BY <2>1 DEF LookInv, LookShapes, ConfigShapes, DropinShapes, ArrivedShapes
  <2>5. FreshFits(p)' /\ NoTextChosen(p)' /\ \A n \in ThemeName : DropinStands(p, n)'
    BY <2>1 DEF LookInv, FreshFits, NoTextChosen, DropinStands
  <2> QED
    BY <2>1, <2>3, <2>4, <2>5, OnePeer
<1>2. ASSUME NEW file \in shared, NEW overwrite \in BOOLEAN, Import(p, file, overwrite) PROVE LookInv'
  <2> DEFINE name == Imported(file)
             doc == file.doc
             look == file.look
  <2>1. DropinShapes /\ ArrivedShapes
    BY DEF LookInv, LookShapes
  <2>2. /\ name \in LocalTheme /\ Strict(doc)
        /\ dropins' = [dropins EXCEPT ![p][name] = doc]
        /\ arrived' = [arrived EXCEPT ![p][name] = look]
        /\ fresh' = [fresh EXCEPT ![p] = fresh[p] /\ peerConfig[p].theme # name]
        /\ UNCHANGED <<peerConfig, shared>>
    BY <1>2 DEF Import, MayWrite
  <2> HIDE DEF name
  <2>3. name \in ThemeName
    BY <2>2 DEF ThemeName
  <2> DEFINE files == [dropins[p] EXCEPT ![name] = doc]
             looks == [arrived[p] EXCEPT ![name] = look]
  <2>4. /\ Changed(files, dropins[p], name, doc) /\ Changed(dropins', dropins, p, files)
         /\ Changed(looks, arrived[p], name, look) /\ Changed(arrived', arrived, p, looks)
    BY <2>1, <2>2 DEF DropinShapes, ArrivedShapes, Changed
  <2> HIDE DEF doc, look, files, looks
  <2>5. /\ DropinShapes' /\ dropins'[p][name] = doc
        /\ \A q \in Peer, m \in ThemeName : q # p \/ m # name => dropins'[q][m] = dropins[q][m]
    BY <2>1, <2>3, <2>4, DropinSet
  <2>6. /\ ArrivedShapes' /\ arrived'[p][name] = look
        /\ \A q \in Peer, m \in ThemeName : q # p \/ m # name => arrived'[q][m] = arrived[q][m]
    BY <2>1, <2>3, <2>4, ArrivedSet
  <2>7. PICK b \in BOOLEAN : b = (fresh[p] /\ peerConfig[p].theme # name)
    OBVIOUS
  <2>8. fresh' = [fresh EXCEPT ![p] = b]
    BY <2>2, <2>7, Zenon
  <2>9. fresh' \in [Peer -> BOOLEAN] /\ fresh'[p] = b /\ \A q \in Peer \ {p} : fresh'[q] = fresh[q]
    BY <2>8, FreshSet DEF LookInv, LookShapes
  <2>10. LookShapes'
    BY <2>2, <2>5, <2>6, <2>9 DEF LookInv, LookShapes, ConfigShapes
  <2>11. FilesStand'
    BY <2>2 DEF LookInv, FilesStand
  <2>12. StandsFor(doc, look)
    BY DEF LookInv, FilesStand, doc, look
  <2>13. ASSUME NEW n \in ThemeName PROVE DropinStands(p, n)'
    BY <2>2, <2>5, <2>6, <2>12 DEF LookInv, DropinStands
  <2>14. peerConfig[p].theme \in ThemeName
    BY DEF LookInv, LookShapes, ConfigShapes, ConfigShape
  <2>15. FreshFits(p)' /\ NoTextChosen(p)'
    <3>1. NoTextChosen(p)'
      BY <2>2 DEF LookInv, NoTextChosen
    <3>2. ASSUME b PROVE FreshFits(p)'
      <4>1. fresh[p] /\ peerConfig[p].theme # name
        BY <2>7, <3>2
      <4>2. /\ dropins'[p][peerConfig[p].theme] = dropins[p][peerConfig[p].theme]
            /\ arrived'[p][peerConfig[p].theme] = arrived[p][peerConfig[p].theme]
        BY <2>5, <2>6, <2>14, <4>1
      <4> QED
        BY <2>2, <4>1, <4>2 DEF LookInv, FreshFits
    <3>3. ASSUME ~b PROVE FreshFits(p)'
      BY <2>9, <3>3 DEF FreshFits
    <3> QED
      BY <3>1, <3>2, <3>3
  <2> QED
    BY <2>2, <2>5, <2>6, <2>9, <2>10, <2>11, <2>13, <2>15, OnePeer
<1> QED
  BY <1>1, <1>2

LEMMA LookStep == ASSUME TextIsDerived, LookInv, [LookNext]_lookVars PROVE LookInv'
<1>1. CASE LookNext
  BY <1>1, ActivateStep, ChooseStep, WriteStep, SaveStep, ShareStep DEF LookNext
<1>2. CASE UNCHANGED lookVars
  BY <1>2 DEF lookVars, LookInv, LookShapes, ConfigShapes, DropinShapes, ArrivedShapes, FilesStand,
              FreshFits, NoTextChosen, DropinStands
<1> QED
  BY <1>1, <1>2

\* An exported theme is self-contained, and a look that is saved stays: whoever activates
\* what was shared sees what its author saw, on any installations, versions, theme files
\* and overrides of other tokens than the text's (themes/mod.rs, themes/io/export.rs).
THEOREM LooksTravel == ASSUME TextIsDerived PROVE LookSpec => []SharedLooksTheSame
<1>1. LookInv => SharedLooksTheSame
  <2> SUFFICES ASSUME LookInv, NEW p \in Peer, fresh[p],
                      arrived[p][peerConfig[p].theme] # NoLook
               PROVE  Painted(p) = arrived[p][peerConfig[p].theme]
    BY DEF SharedLooksTheSame
  <2> DEFINE theme == peerConfig[p].theme
             doc == dropins[p][theme]
  <2>1. theme \in ThemeName
    BY DEF LookInv, LookShapes, ConfigShapes, ConfigShape
  <2>2. Strict(doc) /\ StandsFor(doc, arrived[p][theme])
    BY <2>1 DEF LookInv, DropinStands
  <2>3. SaysAll(doc) /\ arrived[p][theme] = LookSaid(doc)
    BY <2>2 DEF StandsFor
  <2>4. peerConfig[p].overrides = Empty /\ peerConfig[p].settings = doc.settings
    BY DEF LookInv, FreshFits
  <2>5. Tolerant(doc).tokens = doc.tokens
    BY <2>2, <2>3, StrictRead DEF SaysAll
  <2>6. With(Base(p, theme).tokens, doc.tokens) = doc.tokens
    <3>1. AllTokens(Base(p, theme).tokens) /\ AllTokens(doc.tokens)
      BY <2>3, BundleFacts DEF SaysAll
    <3>2. DOMAIN Base(p, theme).tokens \subseteq LookToken
      BY <3>1 DEF AllTokens
    <3> HIDE DEF doc
    <3> QED
      BY <3>1, <3>2, WithFacts
  <2>7. Resolve(p, theme) = doc.tokens
    BY <2>3, <2>5, <2>6 DEF Resolve, SaysAll
  <2>8. With(doc.tokens, Empty) = doc.tokens
    BY <2>3, WithFacts DEF SaysAll
  <2>9. Painted(p) = Look(doc.tokens, Empty, doc.settings)
    BY <2>4, <2>7 DEF Painted
  <2> HIDE DEF doc
  <2>10. Look(doc.tokens, Empty, doc.settings)
           = [tokens |-> Repaired(Canonical(With(doc.tokens, Empty)), "text" \in DOMAIN Empty),
              settings |-> doc.settings]
    BY Zenon DEF Look
  <2>11. Repaired(doc.tokens, "text" \in DOMAIN Empty) = Repaired(doc.tokens, FALSE)
    BY DEF Repaired, Empty
  <2>12. Canonical(With(doc.tokens, Empty)) = doc.tokens
    BY <2>3, <2>8 DEF SaysAll
  <2> QED
    BY <2>3, <2>9, <2>10, <2>11, <2>12, Zenon DEF LookSaid
<1> QED
  BY LookInvInit, LookStep, <1>1, PTL DEF LookSpec

--------------------------------------------------------------------------------
(****************************************************************************)
(* StoreFetch.  What is written to the disk is what was hashed: until an     *)
(* archive is opened nothing is unpacked, and from then on what was seen,    *)
(* hashed, counted and written are its entries so far.                       *)
(****************************************************************************)

\* What is written to the disk is what was hashed.

\* The shapes of the state.
IsFetch(f) ==
    f = [step |-> f.step, from |-> f.from, archive |-> f.archive, host |-> f.host, hops |-> f.hops,
         told |-> f.told, next |-> f.next]
IsBytes(b) == b = [of |-> b.of, received |-> b.received] /\ b.received \in Int
StagingTypes ==
    /\ staging = [part |-> staging.part, zip |-> staging.zip, folder |-> staging.folder]
    /\ IsBytes(staging.part) /\ IsBytes(staging.zip) /\ mishap \in BOOLEAN
FetchTypes ==
    /\ IsFetch(fetch) /\ fetch.from \in {"store", "local"} /\ fetch.hops \in Nat /\ fetch.next \in Nat
    /\ fetch.step # "idle" => fetch.archive \in Archives
    /\ StagingTypes

\* Until an archive is opened nothing is unpacked, and nothing is left of an earlier attempt.
BeginsEmpty ==
    fetch.step \in {"ask", "answer", "stream", "rename", "open", "layout"} =>
        staging.folder = {} /\ unpacked = NothingUnpacked /\ fetch.next = 1
\* If no step failed, what is opened is the archive, whole.
WholeArchive == [of |-> fetch.archive, received |-> Len(fetch.archive)]
Streams ==
    /\ FetchAt("stream") => staging.part.of = fetch.archive
                            /\ staging.part.received \in 0..Len(fetch.archive)
    /\ FetchAt("rename") /\ ~mishap => staging.part = WholeArchive
    /\ FetchAt("open") /\ ~mishap => staging.zip = WholeArchive
    /\ fetch.step \in {"ask", "answer", "stream", "rename", "open"} => fetch.from = "store"
    /\ FetchAt("layout") => fetch.from = "local"
\* What the extraction has seen, hashed, counted and written are the entries so far.
Passed == {i \in Inside : i < fetch.next}
Unpacks ==
    /\ unpacked = [seen |-> unpacked.seen, directories |-> unpacked.directories,
                   files |-> unpacked.files, total |-> unpacked.total, tree |-> unpacked.tree]
    /\ unpacked.seen = {FoldPath(Relative(fetch.archive[i])) : i \in Passed}
    /\ unpacked.directories = UNION {Parents(Relative(fetch.archive[i])) : i \in Passed}
    /\ unpacked.files = Cardinality(Passed) /\ unpacked.total \in Nat
    /\ \A sums \in [0..Len(fetch.archive) -> 0..MaxTotalBytes] :
        Adds(sums) => unpacked.total = sums[fetch.next - 1]
    /\ unpacked.tree = {FileOf(fetch.archive[i]) : i \in Passed}
    /\ staging.folder = unpacked.tree
Extracting ==
    FetchAt("entries") =>
        /\ fetch.next \in 1..(Len(fetch.archive) + 1)
        /\ fetch.from = "local" => Manifests(fetch.archive) # {}
        /\ Unpacks

StagedRight ==
    FetchAt("staged") => staging.folder = IF fetch.from = "store" THEN Listed ELSE Content
RefusedRight ==
    (FetchAt("refused") /\ ~mishap /\ fetch.from = "store" /\ fetch.host \in ContentHost
      /\ fetch.hops < RedirectLimit /\ Size(fetch.archive) <= MaxBytes)
        => ~(Sound /\ Content = Listed)
FetchInv ==
    FetchTypes /\ BeginsEmpty /\ Streams /\ Extracting /\ StagedRight /\ RefusedRight

\* The folders of an archive are spelt one way, where the disk ignores case.
FolderNames(archive) ==
    {name \in DOMAIN Lower :
        \E i \in 1..Len(archive) : \E n \in 1..(Len(archive[i].path) - 1) : name = archive[i].path[n]}
FoldersTell ==
    FoldsCase => \A archive \in Archives : \A a, b \in FolderNames(archive) : Lower[a] = Lower[b] => a = b

LEMMA Limits ==
  /\ RedirectLimit \in Nat /\ MaxBytes \in Nat /\ MaxFiles \in Nat /\ MaxDirectories \in Nat
  /\ MaxDepth \in Nat /\ MaxFileBytes \in Nat /\ MaxTotalBytes \in Nat
  BY FetchAssumption

LEMMA ArchiveFacts ==
  ASSUME NEW archive \in Archives
  PROVE  /\ Len(archive) \in Nat /\ DOMAIN archive = 1..Len(archive)
         /\ \A i \in 1..Len(archive) :
               archive[i].path \in Seq(DOMAIN Lower) /\ archive[i].size \in Nat
<1>1. archive = [i \in 1..Len(archive) |-> archive[i]] /\ Len(archive) \in Nat
  BY FetchAssumption
<1>2. DOMAIN archive = 1..Len(archive)
  BY <1>1
<1> QED
  BY <1>1, <1>2, FetchAssumption

LEMMA PrefixIsSeq ==
  ASSUME FetchTypes, fetch.archive \in Archives,
         fetch.from = "local" => Manifests(fetch.archive) # {}
  PROVE  Prefix \in Seq(DOMAIN Lower)
<1>1. CASE fetch.from = "store"
  <2>1. <<RepoRoot>> \in Seq(DOMAIN Lower) /\ PluginPath \in Seq(DOMAIN Lower)
    BY FetchAssumption
  <2> QED
    BY <1>1, <2>1, ConcatProperties DEF Prefix
<1>2. CASE fetch.from = "local"
  <2> DEFINE i == FirstManifest(fetch.archive)
  <2>1. i \in Manifests(fetch.archive)
    BY <1>2, Zenon DEF FirstManifest
  <2> HIDE DEF i
  <2>2. i \in 1..Len(fetch.archive) /\ fetch.archive[i].path # <<>>
    BY <2>1, ArchiveFacts DEF Manifests
  <2> DEFINE path == fetch.archive[i].path
  <2>3. path \in Seq(DOMAIN Lower) /\ path # <<>>
    BY <2>2, ArchiveFacts
  <2>4. Prefix = SubSeq(path, 1, Len(path) - 1)
    BY <1>2 DEF Prefix, Front, i
  <2> HIDE DEF path
  <2>5. Len(path) \in Nat \ {0}
    BY <2>3, EmptySeq, LenProperties
  <2> QED
    BY <2>3, <2>4, <2>5, SubSeqProperties
<1> QED
  BY <1>1, <1>2 DEF FetchTypes

\* The place of an entry below the folder is a path, and its folders are the archive's.
LEMMA RelativeFacts ==
  ASSUME fetch.archive \in Archives, Prefix \in Seq(DOMAIN Lower), NEW i \in Inside
  PROVE  LET path == Relative(fetch.archive[i])
         IN  /\ path \in Seq(DOMAIN Lower)
             /\ \A n \in 1..(Len(path) - 1) : path[n] \in FolderNames(fetch.archive)
<1> DEFINE long == fetch.archive[i].path
           k == Len(Prefix)
           path == SubSeq(long, k + 1, Len(long))
<1>1. i \in 1..Len(fetch.archive) /\ Wanted(fetch.archive[i])
  BY ArchiveFacts DEF Inside
<1>2. long \in Seq(DOMAIN Lower) /\ Len(long) \in Nat /\ k \in Nat
  BY <1>1, ArchiveFacts, LenProperties
<1>3. k <= Len(long)
  BY <1>1 DEF Wanted, IsStrictPrefix, IsPrefix
<1>4. Relative(fetch.archive[i]) = path
  BY DEF Relative
<1> HIDE DEF k
<1>5. /\ path \in Seq(DOMAIN Lower) /\ Len(path) = Len(long) - k
      /\ \A n \in 1..(Len(long) - k) : path[n] = long[k + n]
  <2> HIDE DEF long
  <2>1. k + 1 \in 1..(Len(long) + 1) /\ Len(long) \in ((k + 1) - 1)..Len(long)
    BY <1>2, <1>3
  <2> QED
    BY <1>2, <1>3, <2>1, SubSeqProperties
<1>6. ASSUME NEW n \in 1..(Len(path) - 1) PROVE path[n] \in FolderNames(fetch.archive)
  <2>1. n \in 1..(Len(long) - k) /\ k + n \in 1..(Len(long) - 1) /\ path[n] = long[k + n]
    BY <1>2, <1>3, <1>5
  <2>2. long[k + n] \in DOMAIN Lower
    <3> HIDE DEF long
    <3> QED
      BY <1>2, <2>1, ElementOfSeq
  <2> HIDE DEF path
  <2> QED
    BY <1>1, <2>1, <2>2 DEF FolderNames
<1> HIDE DEF path
<1> QED
  BY <1>4, <1>5, <1>6

LEMMA FoldedEqual ==
  ASSUME NEW p, NEW q, FoldPath(p) = FoldPath(q)
  PROVE  DOMAIN p = DOMAIN q /\ \A i \in DOMAIN p : Lower[p[i]] = Lower[q[i]]
<1>1. DOMAIN FoldPath(p) = DOMAIN p /\ DOMAIN FoldPath(q) = DOMAIN q
  BY DEF FoldPath
<1>2. \A i \in DOMAIN p : FoldPath(p)[i] = Lower[p[i]]
  BY DEF FoldPath
<1>3. \A i \in DOMAIN q : FoldPath(q)[i] = Lower[q[i]]
  BY DEF FoldPath
<1> QED
  BY <1>1, <1>2, <1>3

\* A file that neither collides nor is in the way is put where its entry says, over nothing.
LEMMA WrittenIsAdded ==
  ASSUME NEW path \in Seq(DOMAIN Lower), NEW file, file = [at |-> path, body |-> file.body, exec |-> file.exec],
         \A f \in staging.folder : f.at \in Seq(DOMAIN Lower) /\ FoldPath(f.at) # FoldPath(path),
         ~InTheWay(path), NEW Names,
         \A n \in 1..(Len(path) - 1) : path[n] \in Names,
         \A f \in staging.folder : \A n \in 1..(Len(f.at) - 1) : f.at[n] \in Names,
         FoldsCase => \A a, b \in Names : Lower[a] = Lower[b] => a = b
  PROVE  Written(file) = staging.folder \cup {file}
<1>1. \A f \in staging.folder : ~SameOnDisk(f.at, path)
  BY DEF SameOnDisk
<1>2. ASSUME NEW f \in staging.folder, NEW i \in 1..Len(path), Len(f.at) >= i,
             SameOnDisk(SubSeq(f.at, 1, i), SubSeq(path, 1, i))
      PROVE  f.at[i] = path[i]
  <2> DEFINE at == f.at
  <2>1. at \in Seq(DOMAIN Lower) /\ Len(at) \in Nat /\ Len(path) \in Nat /\ i <= Len(at)
        /\ i <= Len(path) /\ i \in Nat
    BY <1>2, LenProperties
  <2>2. i = Len(path) => SubSeq(path, 1, i) = path
    BY SubSeqFull
  <2>3. i = Len(at) => SubSeq(at, 1, i) = at
    BY <2>1, SubSeqFull
  <2>4. i < Len(at) => SubSeq(at, 1, i) \in Parents(at)
    BY <2>1 DEF Parents
  <2>5. i < Len(path) => SubSeq(path, 1, i) \in Parents(path)
    BY <2>1 DEF Parents
  <2>6. ~(i < Len(at) /\ i = Len(path))
    BY <1>2, <2>2, <2>4 DEF InTheWay
  <2>7. ~(i = Len(at) /\ i < Len(path))
    BY <1>2, <2>3, <2>5 DEF InTheWay, SameOnDisk
  <2>8. ~(i = Len(at) /\ i = Len(path))
    BY <1>1, <1>2, <2>2, <2>3
  <2>9. i < Len(at) /\ i < Len(path)
    BY <2>1, <2>6, <2>7, <2>8
  <2>10. at[i] \in Names /\ path[i] \in Names
    BY <2>1, <2>9
  <2> HIDE DEF at
  <2>11. /\ SubSeq(at, 1, i)[i] = at[i] /\ SubSeq(path, 1, i)[i] = path[i]
         /\ i \in DOMAIN SubSeq(at, 1, i)
    BY <2>1, <2>9
  <2>12. CASE FoldsCase
    <3> DEFINE p == SubSeq(at, 1, i)
               q == SubSeq(path, 1, i)
    <3>1. FoldPath(p) = FoldPath(q) /\ i \in DOMAIN p
      BY <1>2, <2>11, <2>12 DEF SameOnDisk, at
    <3> HIDE DEF p, q
    <3>6. Lower[p[i]] = Lower[q[i]]
      BY <3>1, FoldedEqual
    <3>8. Lower[SubSeq(at, 1, i)[i]] = Lower[SubSeq(path, 1, i)[i]]
      BY <3>6 DEF p, q
    <3>2. Lower[at[i]] = Lower[path[i]]
      BY <2>11, <3>8
    <3> QED
      BY <2>10, <2>12, <3>2 DEF at
  <2>13. CASE ~FoldsCase
    BY <1>2, <2>11, <2>13 DEF SameOnDisk, at
  <2> QED
    BY <2>12, <2>13
<1>3. OnDisk(path) = path
  <2> DEFINE There(i) == {f.at[i] : f \in {g \in staging.folder :
                 Len(g.at) >= i /\ SameOnDisk(SubSeq(g.at, 1, i), SubSeq(path, 1, i))}}
             Name(i) == IF There(i) = {} THEN path[i] ELSE CHOOSE name \in There(i) : TRUE
  <2>1. OnDisk(path) = [i \in DOMAIN path |-> Name(i)]
    BY DEF OnDisk
  <2>2. ASSUME NEW i \in DOMAIN path PROVE Name(i) = path[i]
    <3>1. i \in 1..Len(path)
      BY LenProperties
    <3>2. \A name \in There(i) : name = path[i]
      BY <1>2, <3>1
    <3> HIDE DEF There
    <3>3. CASE There(i) = {}
      BY <3>3
    <3>4. CASE There(i) # {}
      <4>1. (CHOOSE name \in There(i) : TRUE) \in There(i)
        BY <3>4, Zenon
      <4> QED
        BY <3>2, <3>4, <4>1
    <3> QED
      BY <3>3, <3>4
  <2> HIDE DEF Name
  <2>3. path = [i \in DOMAIN path |-> path[i]]
    OBVIOUS
  <2> QED
    BY <2>1, <2>2, <2>3
<1>4. \A x, q : q = [file EXCEPT !.at = x] => q = [at |-> x, body |-> file.body, exec |-> file.exec]
  OBVIOUS
<1>5. file.at = path
  OBVIOUS
<1>6. [file EXCEPT !.at = OnDisk(file.at)] = file
  BY <1>3, <1>4, <1>5
<1>7. {f \in staging.folder : ~SameOnDisk(f.at, file.at)} = staging.folder
  BY <1>1, <1>5
<1> QED
  BY <1>6, <1>7 DEF Written

\* While the archive is the same, so is what it holds.
LEMMA SameArchive ==
  ASSUME fetch'.from = fetch.from, fetch'.archive = fetch.archive
  PROVE  /\ Prefix' = Prefix /\ Inside' = Inside /\ Content' = Content
         /\ \A e : Relative(e)' = Relative(e) /\ FileOf(e)' = FileOf(e) /\ Wanted(e)' = Wanted(e)
<1>1. Prefix' = Prefix
  BY DEF Prefix
<1>2. \A e : Wanted(e)' = Wanted(e) /\ Relative(e)' = Relative(e) /\ FileOf(e)' = FileOf(e)
  BY <1>1 DEF Wanted, Relative, FileOf
<1>3. Inside' = Inside
  BY <1>2 DEF Inside
<1>4. Content' = Content
  BY <1>2, <1>3 DEF Content
<1> QED
  BY <1>1, <1>2, <1>3, <1>4

\* What becomes of the record of an install.
LEMMA FetchSet ==
  ASSUME FetchTypes, NEW v, NEW w
  PROVE  /\ [fetch EXCEPT !.step = v]
             = [step |-> v, from |-> fetch.from, archive |-> fetch.archive, host |-> fetch.host,
                hops |-> fetch.hops, told |-> fetch.told, next |-> fetch.next]
         /\ [fetch EXCEPT !.host = v, !.hops = w]
             = [step |-> fetch.step, from |-> fetch.from, archive |-> fetch.archive, host |-> v,
                hops |-> w, told |-> fetch.told, next |-> fetch.next]
         /\ [fetch EXCEPT !.step = v, !.told = w]
             = [step |-> v, from |-> fetch.from, archive |-> fetch.archive, host |-> fetch.host,
                hops |-> fetch.hops, told |-> w, next |-> fetch.next]
         /\ [fetch EXCEPT !.next = v]
             = [step |-> fetch.step, from |-> fetch.from, archive |-> fetch.archive, host |-> fetch.host,
                hops |-> fetch.hops, told |-> fetch.told, next |-> v]
<1> DEFINE step == fetch.step
           from == fetch.from
           archive == fetch.archive
           host == fetch.host
           hops == fetch.hops
           told == fetch.told
           next == fetch.next
<1>1. fetch = [step |-> step, from |-> from, archive |-> archive, host |-> host, hops |-> hops,
               told |-> told, next |-> next]
  BY DEF FetchTypes, IsFetch
<1> HIDE DEF step, from, archive, host, hops, told, next
<1>2. [fetch EXCEPT !.step = v] = [step |-> v, from |-> from, archive |-> archive, host |-> host,
                                   hops |-> hops, told |-> told, next |-> next]
  BY <1>1
<1>3. [fetch EXCEPT !.host = v, !.hops = w]
         = [step |-> step, from |-> from, archive |-> archive, host |-> v, hops |-> w, told |-> told,
            next |-> next]
  <2> DEFINE f == [fetch EXCEPT !.host = v]
  <2>1. [fetch EXCEPT !.host = v, !.hops = w] = [f EXCEPT !.hops = w]
    OBVIOUS
  <2>2. f = [step |-> step, from |-> from, archive |-> archive, host |-> v,
              hops |-> hops, told |-> told, next |-> next]
    BY <1>1
  <2> HIDE DEF f
  <2>3. [f EXCEPT !.hops = w]
          = [step |-> step, from |-> from, archive |-> archive, host |-> v,
              hops |-> w, told |-> told, next |-> next]
    BY <2>2
  <2> QED
    BY <2>1, <2>3
<1>4. [fetch EXCEPT !.step = v, !.told = w]
         = [step |-> v, from |-> from, archive |-> archive, host |-> host, hops |-> hops, told |-> w,
            next |-> next]
  <2> DEFINE f == [fetch EXCEPT !.step = v]
  <2>1. [fetch EXCEPT !.step = v, !.told = w] = [f EXCEPT !.told = w]
    OBVIOUS
  <2>2. f = [step |-> v, from |-> from, archive |-> archive, host |-> host,
              hops |-> hops, told |-> told, next |-> next]
    BY <1>1
  <2> HIDE DEF f
  <2>3. [f EXCEPT !.told = w]
          = [step |-> v, from |-> from, archive |-> archive, host |-> host,
              hops |-> hops, told |-> w, next |-> next]
    BY <2>2
  <2> QED
    BY <2>1, <2>3
<1>5. [fetch EXCEPT !.next = v]
         = [step |-> step, from |-> from, archive |-> archive, host |-> host, hops |-> hops,
            told |-> told, next |-> v]
  BY <1>1
<1> QED
  BY <1>2, <1>3, <1>4, <1>5 DEF step, from, archive, host, hops, told, next

LEMMA FetchInvInit == FetchInit => FetchInv
<1> SUFFICES ASSUME FetchInit PROVE FetchInv
  OBVIOUS
<1>1. /\ fetch = NoFetch /\ staging = [part |-> NoBytes, zip |-> NoBytes, folder |-> {}]
      /\ mishap = FALSE
  BY DEF FetchInit
<1>2. FetchTypes
  <2>1. IsFetch(fetch) /\ fetch.step = "idle"
    BY <1>1 DEF IsFetch, NoFetch
  <2>2. fetch.from = "store" /\ fetch.hops = 0 /\ fetch.next = 1
    BY <1>1 DEF NoFetch
  <2>3. IsBytes(NoBytes)
    BY DEF IsBytes, NoBytes
  <2> HIDE DEF NoBytes
  <2>4. staging = [part |-> staging.part, zip |-> staging.zip, folder |-> staging.folder]
        /\ staging.part = NoBytes /\ staging.zip = NoBytes
    BY <1>1
  <2>5. mishap \in BOOLEAN
    BY <1>1
  <2>6. fetch.hops \in Nat /\ fetch.next \in Nat /\ fetch.from \in {"store", "local"}
    BY <2>2
  <2> QED
    BY <2>1, <2>3, <2>4, <2>5, <2>6, Zenon DEF FetchTypes, StagingTypes
<1> QED
  BY <1>1, <1>2 DEF FetchInv, BeginsEmpty, Streams, Extracting, StagedRight, RefusedRight, FetchAt,
                    NoFetch

\* An install begins.
LEMMA StartStep == ASSUME FetchInv, StartFetch PROVE FetchInv'
<1>1. FetchTypes
  BY DEF FetchInv
<1>2. /\ unpacked' = NothingUnpacked /\ mishap' = FALSE
      /\ staging' = [staging EXCEPT !.zip = NoBytes, !.folder = {}]
  BY DEF StartFetch
<1>3. /\ staging' = [part |-> staging.part, zip |-> NoBytes, folder |-> {}]
  BY <1>1, <1>2 DEF FetchTypes, StagingTypes
<1>4. PICK archive \in Archives :
        \/ \E host \in ContentHost \cup OtherHost :
              fetch' = [NoFetch EXCEPT !.step = "ask", !.archive = archive, !.host = host]
        \/ fetch' = [NoFetch EXCEPT !.step = "layout", !.from = "local", !.archive = archive]
  BY DEF StartFetch
<1>5. PICK host \in ContentHost \cup OtherHost \cup {"none"}, from \in {"store", "local"} :
         /\ fetch' = [step |-> IF from = "store" THEN "ask" ELSE "layout", from |-> from,
                      archive |-> archive, host |-> host, hops |-> 0, told |-> FALSE, next |-> 1]
  BY <1>4 DEF NoFetch
<1>6. FetchTypes'
  <2>1. IsFetch(fetch') /\ fetch'.archive \in Archives
    BY <1>5 DEF IsFetch
  <2>2. fetch'.from \in {"store", "local"} /\ fetch'.hops = 0 /\ fetch'.next = 1
    BY <1>5
  <2>3. IsBytes(NoBytes)
    BY DEF IsBytes, NoBytes
  <2>4. staging' = [part |-> staging'.part, zip |-> staging'.zip, folder |-> staging'.folder]
        /\ staging'.part = staging.part /\ staging'.zip = NoBytes
    BY <1>3
  <2>5. mishap' \in BOOLEAN /\ IsBytes(staging.part)
    BY <1>1, <1>2 DEF FetchTypes, StagingTypes
  <2>6. fetch'.hops \in Nat /\ fetch'.next \in Nat
    BY <2>2
  <2> QED
    BY <2>1, <2>2, <2>3, <2>4, <2>5, <2>6, Zenon DEF FetchTypes, StagingTypes
<1> QED
  BY <1>2, <1>3, <1>5, <1>6 DEF FetchInv, BeginsEmpty, Streams, Extracting, StagedRight, RefusedRight,
                                FetchAt

\* An install moves on to another step, or ends, and the archive is what it was.
LEMMA MovesOn ==
  ASSUME FetchInv, fetch'.from = fetch.from, fetch'.archive = fetch.archive, FetchTypes',
         BeginsEmpty', Streams', fetch'.step \notin {"entries", "staged"}, RefusedRight'
  PROVE  FetchInv'
  BY DEF FetchInv, Extracting, StagedRight, FetchAt

LEMMA StepTo ==
  ASSUME FetchTypes, NEW v, fetch' = [fetch EXCEPT !.step = v], fetch.step # "idle",
         UNCHANGED <<staging, mishap>> \/ StagingTypes'
  PROVE  /\ FetchTypes' /\ fetch'.step = v /\ fetch'.from = fetch.from /\ fetch'.next = fetch.next
         /\ fetch'.archive = fetch.archive /\ fetch'.host = fetch.host /\ fetch'.hops = fetch.hops
<1>1. fetch' = [step |-> v, from |-> fetch.from, archive |-> fetch.archive, host |-> fetch.host,
                hops |-> fetch.hops, told |-> fetch.told, next |-> fetch.next]
  BY FetchSet
<1>2. /\ IsFetch(fetch') /\ fetch'.step = v /\ fetch'.from = fetch.from /\ fetch'.next = fetch.next
      /\ fetch'.archive = fetch.archive /\ fetch'.host = fetch.host /\ fetch'.hops = fetch.hops
  BY <1>1 DEF IsFetch
<1>3. StagingTypes'
  BY DEF FetchTypes, StagingTypes
<1> QED
  BY <1>2, <1>3 DEF FetchTypes

LEMMA SoundKept ==
  ASSUME fetch'.from = fetch.from, fetch'.archive = fetch.archive
  PROVE  Content' = Content /\ (Sound' => Sound)
<1>1. /\ Inside' = Inside /\ Content' = Content
      /\ \A e : Relative(e)' = Relative(e) /\ FileOf(e)' = FileOf(e) /\ Wanted(e)' = Wanted(e)
  BY SameArchive
<1>2. \A e : Refused(e)' = Refused(e)
  BY DEF Refused, InRoot
<1>3. \A sums : Adds(sums)' = Adds(sums)
  BY <1>1 DEF Adds
<1> QED
  <2>1. ASSUME StayApart' PROVE StayApart
    <3> SUFFICES ASSUME NEW i \in Inside, NEW j \in Inside
                 PROVE  LET p == Relative(fetch.archive[i])
                            q == Relative(fetch.archive[j])
                        IN (FoldPath(p) = FoldPath(q) => i = j)
                           /\ \A up \in Parents(p) : ~SameOnDisk(up, q)
      BY DEF StayApart
    <3>1. /\ Relative(fetch.archive[i])' = Relative(fetch.archive[i])
          /\ Relative(fetch.archive[j])' = Relative(fetch.archive[j])
      BY <1>1
    <3>2. LET p == Relative(fetch.archive[i])'
              q == Relative(fetch.archive[j])'
          IN (FoldPath(p) = FoldPath(q) => i = j)
             /\ \A up \in Parents(p) : ~SameOnDisk(up, q)
      BY <1>1, <2>1 DEF StayApart
    <3> QED
      BY <3>1, <3>2
  <2>2. WithinLimits' = WithinLimits
    BY <1>1, <1>3 DEF WithinLimits
  <2> QED
    BY <1>1, <1>2, <2>1, <2>2 DEF Sound

\* An install ends: some step failed, the archive is too long, or it is none to be taken.
LEMMA EndsRight ==
  ASSUME FetchInv, fetch.step # "idle", fetch' = [fetch EXCEPT !.step = "refused"],
         staging' \in {staging, WithoutPart, Cleaned}, mishap' \in BOOLEAN,
         \/ mishap' \/ Size(fetch.archive) > MaxBytes \/ fetch.from = "local"
         \/ ~(Sound /\ Content = Listed)
  PROVE  FetchInv'
<1>1. FetchTypes
  BY DEF FetchInv
<1>2. StagingTypes'
  <2>1. IsBytes(NoBytes)
    BY DEF IsBytes, NoBytes
  <2> HIDE DEF NoBytes
  <2>2. WithoutPart = [part |-> NoBytes, zip |-> staging.zip, folder |-> staging.folder]
    BY <1>1 DEF FetchTypes, StagingTypes, WithoutPart
  <2>3. Cleaned = [part |-> staging.part, zip |-> NoBytes, folder |-> {}]
    <3> DEFINE f == [staging EXCEPT !.zip = NoBytes]
    <3>1. Cleaned = [f EXCEPT !.folder = {}]
      BY DEF Cleaned
    <3>2. f = [part |-> staging.part, zip |-> NoBytes, folder |-> staging.folder]
      BY <1>1 DEF FetchTypes, StagingTypes
    <3> HIDE DEF f
    <3> QED
      BY <3>1, <3>2
  <2>4. PICK part, zip, folder : staging' = [part |-> part, zip |-> zip, folder |-> folder]
                                 /\ IsBytes(part) /\ IsBytes(zip)
    BY <1>1, <2>1, <2>2, <2>3 DEF FetchTypes, StagingTypes
  <2> QED
    BY <2>4 DEF StagingTypes
<1>3. /\ FetchTypes' /\ fetch'.step = "refused" /\ fetch'.from = fetch.from
      /\ fetch'.archive = fetch.archive
  BY <1>1, <1>2, StepTo
<1>4. Content' = Content /\ (Sound' => Sound)
  BY <1>3, SoundKept
<1>5. RefusedRight'
  <2>1. MaxBytes \in Nat /\ Size(fetch.archive) \in Nat
    BY <1>1, ArchiveFacts, FetchAssumption DEF FetchTypes, Size
  <2> QED
    BY <1>3, <1>4, <2>1 DEF RefusedRight, Size
<1> QED
  BY <1>3, <1>5, MovesOn DEF BeginsEmpty, Streams, FetchAt

\* A refusal for a reason that the property names.
LEMMA AskStep == ASSUME FetchInv, AskHost PROVE FetchInv'
<1>1. FetchTypes /\ fetch.step = "ask" /\ BeginsEmpty /\ Streams
  BY DEF FetchInv, AskHost, FetchAt
<1>2. CASE /\ fetch.host \notin ContentHost \/ fetch.hops >= RedirectLimit
           /\ FetchEnds(staging) /\ UNCHANGED mishap
  <2>1. fetch' = [fetch EXCEPT !.step = "refused"] /\ staging' = staging
    BY <1>2 DEF FetchEnds, CleanUp
  <2>2. FetchTypes' /\ fetch'.step = "refused" /\ fetch'.from = fetch.from
        /\ fetch'.archive = fetch.archive /\ fetch'.host = fetch.host /\ fetch'.hops = fetch.hops
    BY <1>1, <1>2, <2>1, FetchSet DEF FetchTypes, StagingTypes, IsFetch
  <2>3. RefusedRight'
    BY <1>1, <1>2, <2>2, FetchAssumption DEF RefusedRight, FetchTypes
  <2> QED
    BY <2>2, <2>3, MovesOn DEF BeginsEmpty, Streams, FetchAt
<1>3. CASE /\ UNCHANGED <<staging, unpacked, mishap>>
           /\ \E host \in ContentHost \cup OtherHost :
                 fetch' = [fetch EXCEPT !.host = host, !.hops = @ + 1]
  <2>1. PICK host \in ContentHost \cup OtherHost :
          fetch' = [fetch EXCEPT !.host = host, !.hops = fetch.hops + 1]
    BY <1>3
  <2>2. fetch' = [step |-> fetch.step, from |-> fetch.from, archive |-> fetch.archive, host |-> host,
                  hops |-> fetch.hops + 1, told |-> fetch.told, next |-> fetch.next]
    BY <1>1, <2>1, FetchSet
  <2>3. FetchTypes' /\ fetch'.step = "ask" /\ fetch'.from = fetch.from
        /\ fetch'.archive = fetch.archive /\ fetch'.next = fetch.next
    <3>1. fetch'.hops = fetch.hops + 1 /\ fetch.hops \in Nat
      BY <1>1, <2>2 DEF FetchTypes, StagingTypes
    <3>2. fetch'.hops \in Nat
      BY <3>1
    <3>3. /\ IsFetch(fetch') /\ fetch'.step = "ask" /\ fetch'.from = fetch.from
          /\ fetch'.archive = fetch.archive /\ fetch'.next = fetch.next
      BY <1>1, <2>2 DEF IsFetch
    <3> QED
      BY <1>1, <1>3, <3>2, <3>3 DEF FetchTypes, StagingTypes
  <2> QED
    BY <1>1, <1>3, <2>3, MovesOn DEF BeginsEmpty, Streams, FetchAt, RefusedRight
<1>4. CASE fetch' = [fetch EXCEPT !.step = "answer"] /\ UNCHANGED <<staging, unpacked, mishap, fetchLeft>>
  <2>1. FetchTypes' /\ fetch'.step = "answer" /\ fetch'.from = fetch.from
        /\ fetch'.archive = fetch.archive /\ fetch'.next = fetch.next
    BY <1>1, <1>4, FetchSet DEF FetchTypes, StagingTypes, IsFetch
  <2> QED
    BY <1>1, <1>4, <2>1, MovesOn DEF BeginsEmpty, Streams, FetchAt, RefusedRight
<1>5. CASE Fails /\ fetch' = [fetch EXCEPT !.step = "refused"] /\ UNCHANGED <<staging, unpacked>>
  <2>1. FetchTypes' /\ fetch'.step = "refused" /\ fetch'.from = fetch.from
        /\ fetch'.archive = fetch.archive /\ mishap'
    BY <1>1, <1>5, FetchSet DEF FetchTypes, StagingTypes, IsFetch, Fails
  <2> QED
    BY <1>1, <2>1, MovesOn DEF BeginsEmpty, Streams, FetchAt, RefusedRight
<1> QED
  BY <1>2, <1>3, <1>4, <1>5 DEF AskHost

\* The archive is streamed into the .part file.
LEMMA StreamStep ==
  ASSUME FetchInv, Answer \/ Chunk \/ BreaksOff \/ StreamEnds PROVE FetchInv'
<1>1. FetchTypes /\ BeginsEmpty /\ Streams /\ fetch.step \in {"answer", "stream"}
  BY DEF FetchInv, Answer, Chunk, BreaksOff, StreamEnds, FetchAt
<1>2. fetch.archive \in Archives /\ Len(fetch.archive) \in Nat
  BY <1>1, ArchiveFacts DEF FetchTypes, StagingTypes
<1>3. Size(fetch.archive) = Len(fetch.archive) /\ MaxBytes \in Nat
  BY FetchAssumption DEF Size
<1>4. \A b : [staging EXCEPT !.part = b] = [part |-> b, zip |-> staging.zip, folder |-> staging.folder]
  BY <1>1 DEF FetchTypes, StagingTypes
\* What lies in the folder stays; the .part file is one.
<1>5. ASSUME NEW b, IsBytes(b), staging' = [staging EXCEPT !.part = b], mishap' \in BOOLEAN,
             NEW step, step # "idle", NEW told, 
             fetch' = [fetch EXCEPT !.step = step, !.told = told]
      PROVE  /\ FetchTypes' /\ fetch'.step = step /\ fetch'.from = fetch.from
             /\ fetch'.archive = fetch.archive /\ fetch'.next = fetch.next
             /\ staging'.part = b /\ staging'.folder = staging.folder
  <2>1. staging' = [part |-> b, zip |-> staging.zip, folder |-> staging.folder]
    BY <1>4, <1>5
  <2>2. fetch' = [step |-> step, from |-> fetch.from, archive |-> fetch.archive, host |-> fetch.host,
                  hops |-> fetch.hops, told |-> told, next |-> fetch.next]
    BY <1>1, <1>5, FetchSet
  <2> QED
    BY <1>1, <1>2, <1>5, <2>1, <2>2 DEF FetchTypes, StagingTypes, IsFetch
<1>6. [fetch EXCEPT !.step = "stream"] = [fetch EXCEPT !.step = "stream", !.told = fetch.told]
  BY <1>1, FetchSet
<1>7. CASE Answer
  <2> DEFINE b == [of |-> fetch.archive, received |-> 0]
  <2>1. IsBytes(b)
    BY DEF IsBytes
  <2>2. PICK told \in BOOLEAN :
          IF told /\ Size(fetch.archive) > MaxBytes
          THEN fetch' = [fetch EXCEPT !.step = "refused"] /\ UNCHANGED staging
          ELSE /\ fetch' = [fetch EXCEPT !.step = "stream", !.told = told]
               /\ staging' = [staging EXCEPT !.part = b]
    BY <1>7 DEF Answer
  <2>3. UNCHANGED <<unpacked, mishap>> /\ fetch.step = "answer"
    BY <1>7 DEF Answer, FetchAt
  <2> HIDE DEF b
  <2>4. CASE fetch' = [fetch EXCEPT !.step = "refused"] /\ UNCHANGED staging
             /\ Size(fetch.archive) > MaxBytes
    <3>1. FetchTypes' /\ fetch'.step = "refused" /\ fetch'.from = fetch.from
          /\ fetch'.archive = fetch.archive
      BY <1>1, <1>2, <2>3, <2>4, FetchSet DEF FetchTypes, StagingTypes, IsFetch
    <3>2. RefusedRight'
      BY <1>2, <1>3, <2>4, <3>1 DEF RefusedRight, Size
    <3> QED
      BY <3>1, <3>2, MovesOn DEF BeginsEmpty, Streams, FetchAt
  <2>5. CASE fetch' = [fetch EXCEPT !.step = "stream", !.told = told]
             /\ staging' = [staging EXCEPT !.part = b]
    <3>1. /\ FetchTypes' /\ fetch'.step = "stream" /\ fetch'.from = fetch.from
          /\ fetch'.archive = fetch.archive /\ fetch'.next = fetch.next
          /\ staging'.part = b /\ staging'.folder = staging.folder
      BY <1>1, <1>5, <2>1, <2>3, <2>5 DEF FetchTypes, StagingTypes
    <3>2. b.of = fetch.archive /\ b.received = 0
      BY DEF b
    <3> QED
      BY <1>1, <1>2, <2>3, <3>1, <3>2, MovesOn DEF BeginsEmpty, Streams, FetchAt, RefusedRight
  <2> QED
    BY <2>2, <2>4, <2>5
<1>8. /\ FetchAt("stream") => staging.part.received \in 0..Len(fetch.archive)
      /\ Chunk \/ BreaksOff \/ StreamEnds => FetchAt("stream") /\ fetch.step # "idle"
  BY <1>1 DEF Streams, Chunk, BreaksOff, StreamEnds, FetchAt
<1>9. CASE Chunk
  <2>1. CASE staging.part.received + 1 > MaxBytes
    <3>1. FetchEnds(WithoutPart) /\ UNCHANGED mishap
      BY <1>9, <2>1 DEF Chunk
    <3>2. Size(fetch.archive) > MaxBytes
      BY <1>2, <1>3, <1>8, <1>9, <2>1 DEF Chunk
    <3> QED
      BY <1>1, <1>8, <1>9, <3>1, <3>2, EndsRight DEF FetchEnds, CleanUp, FetchTypes, StagingTypes
  <2>2. CASE ~(staging.part.received + 1 > MaxBytes)
    <3> DEFINE b == [of |-> staging.part.of, received |-> staging.part.received + 1]
    <3>1. /\ staging' = [staging EXCEPT !.part.received = staging.part.received + 1]
          /\ UNCHANGED <<fetch, unpacked, mishap>> /\ staging.part.received < Len(fetch.archive)
      BY <1>1, <1>3, <1>9, <2>2 DEF Chunk, FetchTypes, StagingTypes
    <3>2. IsBytes(b) /\ b.of = staging.part.of /\ b.received = staging.part.received + 1
      BY <1>8, <1>9 DEF IsBytes
    <3>3. staging' = [part |-> b, zip |-> staging.zip, folder |-> staging.folder]
      BY <1>1, <3>1 DEF FetchTypes, StagingTypes, IsBytes
    <3> HIDE DEF b
    <3>4. FetchTypes'
      BY <1>1, <3>1, <3>2, <3>3 DEF FetchTypes, StagingTypes
    <3>5. b.of = fetch.archive /\ b.received \in 0..Len(fetch.archive)
      BY <1>1, <1>2, <1>8, <1>9, <3>1, <3>2 DEF Streams
    <3> QED
      BY <1>1, <1>8, <1>9, <3>1, <3>3, <3>4, <3>5, MovesOn DEF BeginsEmpty, Streams, FetchAt, RefusedRight
  <2> QED
    BY <2>1, <2>2
<1>10. CASE BreaksOff
  <2>1. mishap' = TRUE /\ UNCHANGED unpacked
    BY <1>10 DEF BreaksOff, Fails
  <2>2. CASE fetch' = [fetch EXCEPT !.step = "refused"] /\ staging' = WithoutPart
    BY <1>8, <1>10, <2>1, <2>2, EndsRight
  <2>3. CASE fetch' = [fetch EXCEPT !.step = "rename"] /\ UNCHANGED staging
    <3>1. StagingTypes'
      BY <1>1, <2>1, <2>3 DEF FetchTypes, StagingTypes
    <3>2. FetchTypes' /\ fetch'.step = "rename" /\ fetch'.from = fetch.from /\ fetch'.next = fetch.next
          /\ fetch'.archive = fetch.archive
      BY <1>1, <1>8, <1>10, <2>3, <3>1, StepTo
    <3> QED
      BY <1>1, <1>8, <1>10, <2>1, <2>3, <3>2, MovesOn DEF BeginsEmpty, Streams, FetchAt, RefusedRight
  <2> QED
    BY <1>10, <2>2, <2>3 DEF BreaksOff
<1>11. CASE StreamEnds
  <2>1. fetch' = [fetch EXCEPT !.step = "rename"] /\ UNCHANGED <<staging, unpacked, mishap>>
        /\ staging.part = WholeArchive
    BY <1>1, <1>3, <1>8, <1>11 DEF StreamEnds, Streams, WholeArchive, FetchTypes, StagingTypes, IsBytes
  <2> QED
    BY <1>1, <1>2, <1>8, <1>11, <2>1, StepTo, MovesOn
       DEF BeginsEmpty, Streams, FetchAt, RefusedRight, WholeArchive
<1> QED
  BY <1>7, <1>9, <1>10, <1>11

\* The .part file becomes the archive, and what is cut short cannot be opened.
LEMMA RenameStep == ASSUME FetchInv, RenamePart PROVE FetchInv'
<1>1. FetchTypes /\ BeginsEmpty /\ Streams /\ FetchAt("rename") /\ fetch.step = "rename"
  BY DEF FetchInv, RenamePart, FetchAt
<1>2. CASE /\ staging' = [staging EXCEPT !.zip = staging.part, !.part = NoBytes]
           /\ fetch' = [fetch EXCEPT !.step = "open"] /\ UNCHANGED <<unpacked, mishap>>
  <2>1. staging' = [part |-> NoBytes, zip |-> staging.part, folder |-> staging.folder]
    <3> DEFINE f == [staging EXCEPT !.zip = staging.part]
    <3>1. staging' = [f EXCEPT !.part = NoBytes]
      BY <1>2
    <3>2. f = [part |-> staging.part, zip |-> staging.part, folder |-> staging.folder]
      BY <1>1 DEF FetchTypes, StagingTypes
    <3> HIDE DEF f
    <3> QED
      BY <3>1, <3>2
  <2>2. StagingTypes'
    <3>1. IsBytes(NoBytes)
      BY DEF IsBytes, NoBytes
    <3> HIDE DEF NoBytes
    <3> QED
      BY <1>1, <1>2, <2>1, <3>1 DEF FetchTypes, StagingTypes
  <2>3. FetchTypes' /\ fetch'.step = "open" /\ fetch'.from = fetch.from /\ fetch'.next = fetch.next
        /\ fetch'.archive = fetch.archive
    BY <1>1, <1>2, <2>2, StepTo
  <2> QED
    BY <1>1, <1>2, <2>1, <2>3, MovesOn
       DEF BeginsEmpty, Streams, FetchAt, RefusedRight, WholeArchive
<1>3. CASE Fails /\ fetch' = [fetch EXCEPT !.step = "refused"] /\ UNCHANGED <<staging, unpacked>>
  BY <1>1, <1>3, EndsRight DEF Fails
<1> QED
  BY <1>2, <1>3 DEF RenamePart

LEMMA Enters ==
  ASSUME FetchInv, fetch.step \in {"open", "layout"}, fetch' = [fetch EXCEPT !.step = "entries"],
         UNCHANGED <<staging, unpacked, mishap>>,
         fetch.from = "local" => Manifests(fetch.archive) # {}
  PROVE  FetchInv'
<1>1. FetchTypes /\ fetch.step # "idle" /\ staging.folder = {} /\ unpacked = NothingUnpacked
      /\ fetch.next = 1
  BY DEF FetchInv, BeginsEmpty
<1>2. FetchTypes' /\ fetch'.step = "entries" /\ fetch'.from = fetch.from /\ fetch'.next = 1
      /\ fetch'.archive = fetch.archive
  BY <1>1, StepTo
<1>3. Len(fetch.archive) \in Nat /\ DOMAIN fetch.archive = 1..Len(fetch.archive)
  BY <1>1, ArchiveFacts DEF FetchTypes
<1>4. Inside' = Inside /\ Passed' = {}
  BY <1>2, <1>3, SameArchive DEF Passed, Inside
<1>5. Unpacks'
  <2>1. unpacked' = [seen |-> {}, directories |-> {}, files |-> 0, total |-> 0, tree |-> {}]
    BY <1>1 DEF NothingUnpacked
  <2>2. Cardinality({}) = 0
    BY FS_EmptySet
  <2>3. \A sums : Adds(sums)' => sums[0] = 0
    BY DEF Adds
  <2>4. staging'.folder = {}
    BY <1>1
  <2> QED
    BY <1>2, <1>4, <2>1, <2>2, <2>3, <2>4 DEF Unpacks
<1>6. Extracting'
  BY <1>2, <1>3, <1>5 DEF Extracting
<1> QED
  BY <1>2, <1>6 DEF FetchInv, BeginsEmpty, Streams, StagedRight, RefusedRight, FetchAt

LEMMA OpenStep == ASSUME FetchInv, OpenZip \/ LocalLayout PROVE FetchInv'
<1>1. FetchTypes /\ Streams
  BY DEF FetchInv
<1>2. CASE OpenZip
  <2>1. fetch.step = "open" /\ fetch.from = "store" /\ (~mishap => staging.zip = WholeArchive)
    BY <1>1, <1>2 DEF OpenZip, FetchAt, Streams
  <2>2. CASE Whole(staging.zip)
    BY <1>2, <2>1, <2>2, Enters DEF OpenZip
  <2>3. CASE ~Whole(staging.zip)
    <3>1. mishap
      <4>1. Len(fetch.archive) \in Nat
        BY <1>1, <2>1, ArchiveFacts DEF FetchTypes
      <4> QED
        BY <2>1, <2>3, <4>1 DEF Whole, WholeArchive, Size
    <3>2. FetchEnds(Cleaned) /\ UNCHANGED mishap
      BY <1>2, <2>3 DEF OpenZip
    <3> QED
      BY <1>1, <2>1, <3>1, <3>2, EndsRight DEF FetchEnds, CleanUp, FetchTypes, StagingTypes
  <2> QED
    BY <2>2, <2>3
<1>3. CASE LocalLayout
  <2>1. fetch.step = "layout" /\ fetch.from = "local"
    BY <1>1, <1>3 DEF LocalLayout, FetchAt, Streams
  <2>2. CASE FetchEnds(Cleaned) /\ UNCHANGED mishap
    BY <1>1, <2>1, <2>2, EndsRight DEF FetchEnds, CleanUp, FetchTypes, StagingTypes
  <2>3. CASE /\ fetch' = [fetch EXCEPT !.step = "entries"] /\ UNCHANGED <<staging, unpacked, mishap>>
             /\ Cardinality(Manifests(fetch.archive)) = 1
    <3>1. Manifests(fetch.archive) # {}
      BY <2>3, FS_EmptySet
    <3> QED
      BY <2>1, <2>3, <3>1, Enters
  <2> QED
    BY <1>3, <2>2, <2>3 DEF LocalLayout
<1> QED
  BY <1>2, <1>3

\* What an entry finds: where it is to be put, and what was taken before it.
LEMMA EntryFacts ==
  ASSUME FetchInv, FetchAt("entries"), fetch.next <= Len(fetch.archive)
  PROVE  /\ fetch.archive \in Archives /\ DOMAIN fetch.archive = 1..Len(fetch.archive)
         /\ Len(fetch.archive) \in Nat /\ fetch.next \in 1..Len(fetch.archive)
         /\ fetch.archive[fetch.next].size \in Nat /\ Unpacks /\ fetch.step # "idle"
         /\ IsFiniteSet(Inside) /\ IsFiniteSet(Passed) /\ Passed \subseteq Inside
         /\ \A i \in Inside :
               /\ Relative(fetch.archive[i]) \in Seq(DOMAIN Lower)
               /\ \A n \in 1..(Len(Relative(fetch.archive[i])) - 1) :
                     Relative(fetch.archive[i])[n] \in FolderNames(fetch.archive)
<1>1. FetchTypes /\ fetch.step # "idle" /\ fetch.archive \in Archives /\ Unpacks
      /\ fetch.next \in 1..(Len(fetch.archive) + 1)
      /\ (fetch.from = "local" => Manifests(fetch.archive) # {})
  BY DEF FetchInv, FetchTypes, Extracting, FetchAt
<1>2. /\ DOMAIN fetch.archive = 1..Len(fetch.archive) /\ Len(fetch.archive) \in Nat
      /\ fetch.next \in 1..Len(fetch.archive)
  BY <1>1, ArchiveFacts
<1>3. fetch.archive[fetch.next].size \in Nat
  BY <1>1, <1>2, ArchiveFacts
<1>4. IsFiniteSet(Inside) /\ IsFiniteSet(Passed) /\ Passed \subseteq Inside
  <2>1. IsFiniteSet(1..Len(fetch.archive))
    BY <1>2, FS_Interval
  <2>2. Inside \in SUBSET (1..Len(fetch.archive)) /\ Passed \in SUBSET Inside
    BY <1>2 DEF Inside, Passed
  <2> QED
    BY <2>1, <2>2, FS_Subset
<1>5. Prefix \in Seq(DOMAIN Lower)
  BY <1>1, PrefixIsSeq
<1> QED
  BY <1>1, <1>2, <1>3, <1>4, <1>5, RelativeFacts

LEMMA ParentsFinite ==
  ASSUME NEW path \in Seq(DOMAIN Lower) PROVE IsFiniteSet(Parents(path))
<1> DEFINE S == 1..(Len(path) - 1)
           f == [n \in S |-> SubSeq(path, 1, n)]
<1>1. IsFiniteSet(S)
  BY LenProperties, FS_Interval
<1>2. f \in Surjection(S, Parents(path))
  BY DEF Surjection, Parents
<1> HIDE DEF f, S
<1> QED
  BY <1>1, <1>2, FS_Surjection, Zenon

\* A sound archive has no entry at which the extraction gives up.
LEMMA SoundEntry ==
  ASSUME FetchInv, FetchAt("entries"), fetch.next <= Len(fetch.archive), Sound,
         Wanted(fetch.archive[fetch.next])
  PROVE  LET entry == fetch.archive[fetch.next]
             path == Relative(entry)
         IN  /\ ~Collides(path) /\ entry.honest /\ ~InTheWay(path)
             /\ ~TooMuch(entry, path, unpacked.directories \cup Parents(path))
<1> DEFINE n == fetch.next
           entry == fetch.archive[n]
           path == Relative(entry)
           Place(i) == Relative(fetch.archive[i])
<1>1. n \in Inside /\ n \notin Passed /\ Unpacks /\ Passed \subseteq Inside /\ n \in 1..Len(fetch.archive)
  BY EntryFacts DEF Inside, Passed
<1>2. \A i \in Passed : i # n /\ i \in Inside
  BY <1>1
<1>3. ~Collides(path)
  BY <1>1, <1>2 DEF Collides, Unpacks, Sound, StayApart
<1>4. entry.honest
  BY <1>1 DEF Sound
<1>5. ~InTheWay(path)
  <2> SUFFICES ASSUME NEW f \in staging.folder,
                      \/ \E up \in Parents(path) : SameOnDisk(up, f.at)
                      \/ \E up \in Parents(f.at) : SameOnDisk(up, path)
               PROVE  FALSE
    BY DEF InTheWay
  <2>1. PICK i \in Passed : f.at = Relative(fetch.archive[i])
    BY <1>1 DEF Unpacks, FileOf
  <2>2. /\ \A up \in Parents(path) : ~SameOnDisk(up, Place(i))
        /\ \A up \in Parents(Place(i)) : ~SameOnDisk(up, path)
    BY <1>1, <1>2 DEF Sound, StayApart
  <2> QED
    BY <2>1, <2>2
<1>6. unpacked.files + 1 <= MaxFiles
  <2>1. Cardinality(Passed \cup {n}) = Cardinality(Passed) + 1 /\ IsFiniteSet(Inside)
        /\ Cardinality(Passed) \in Nat
    BY <1>1, EntryFacts, FS_AddElement, FS_CardinalityType
  <2>2. Cardinality(Passed \cup {n}) <= Cardinality(Inside) /\ Cardinality(Inside) \in Nat
    BY <1>1, <2>1, FS_Subset, FS_CardinalityType
  <2> QED
    BY <1>1, <2>1, <2>2, FetchAssumption DEF Unpacks, Sound, WithinLimits
<1>7. Cardinality(unpacked.directories \cup Parents(path)) <= MaxDirectories
  <2> DEFINE All == {Parents(Place(i)) : i \in Inside}
             some == unpacked.directories \cup Parents(path)
  <2>1. some \subseteq UNION All
    BY <1>1 DEF Unpacks
  <2>2. \A T \in All : IsFiniteSet(T)
    BY EntryFacts, ParentsFinite
  <2>3. IsFiniteSet(All)
    <3> DEFINE f == [i \in Inside |-> Parents(Place(i))]
    <3>1. f \in Surjection(Inside, All)
      BY DEF Surjection
    <3> HIDE DEF f, All
    <3> QED
      BY <3>1, EntryFacts, FS_Surjection, Zenon
  <2>4. Cardinality(UNION All) <= MaxDirectories
    BY DEF Sound, WithinLimits
  <2> HIDE DEF All, some
  <2>5. IsFiniteSet(UNION All)
    BY <2>2, <2>3, FS_UNION
  <2>6. Cardinality(some) <= Cardinality(UNION All) /\ Cardinality(some) \in Nat
        /\ Cardinality(UNION All) \in Nat
    BY <2>1, <2>5, FS_Subset, FS_CardinalityType
  <2>7. Cardinality(some) <= MaxDirectories
    BY <2>4, <2>6, FetchAssumption
  <2> QED
    BY <2>7 DEF some
<1>8. unpacked.total + entry.size <= MaxTotalBytes
  <2>1. PICK sums \in [0..Len(fetch.archive) -> 0..MaxTotalBytes] : Adds(sums)
    BY DEF Sound, WithinLimits
  <2>2. unpacked.total = sums[n - 1] /\ sums[n] = sums[n - 1] + entry.size
    BY <1>1, <2>1, EntryFacts DEF Unpacks, Adds
  <2>3. sums[n] \in 0..MaxTotalBytes
    BY <1>1, <2>1, EntryFacts
  <2> QED
    BY <2>2, <2>3, FetchAssumption
<1>9. Len(path) <= MaxDepth /\ entry.size <= MaxFileBytes
  BY <1>1 DEF Sound, WithinLimits
<1>10. /\ Cardinality(unpacked.directories \cup Parents(path)) \in Nat /\ Len(path) \in Nat
       /\ unpacked.files \in Nat /\ unpacked.total \in Nat /\ entry.size \in Nat
  <2>1. path \in Seq(DOMAIN Lower)
    BY <1>1, EntryFacts
  <2>2. IsFiniteSet(unpacked.directories \cup Parents(path))
    <3> DEFINE All == {Parents(Place(i)) : i \in Passed}
    <3>1. \A T \in All : IsFiniteSet(T)
      BY <1>2, EntryFacts, ParentsFinite
    <3>2. IsFiniteSet(All)
      <4> DEFINE f == [i \in Passed |-> Parents(Place(i))]
      <4>1. f \in Surjection(Passed, All)
        BY DEF Surjection
      <4> HIDE DEF f, All
      <4> QED
        BY <4>1, EntryFacts, FS_Surjection, Zenon
    <3>3. unpacked.directories = UNION All
      BY <1>1 DEF Unpacks
    <3> HIDE DEF All
    <3>4. IsFiniteSet(unpacked.directories)
      BY <3>1, <3>2, <3>3, FS_UNION
    <3> QED
      BY <2>1, <3>4, ParentsFinite, FS_Union
  <2>3. unpacked.files \in Nat
    BY <1>1, EntryFacts, FS_CardinalityType DEF Unpacks
  <2>4. Cardinality(unpacked.directories \cup Parents(path)) \in Nat
    BY <2>2, FS_CardinalityType
  <2> QED
    BY <1>1, <2>1, <2>3, <2>4, EntryFacts, LenProperties DEF Unpacks
<1>11. ~TooMuch(entry, path, unpacked.directories \cup Parents(path))
  <2> DEFINE directories == unpacked.directories \cup Parents(path)
  <2>1. /\ ~(Len(path) > MaxDepth) /\ ~(unpacked.files + 1 > MaxFiles)
        /\ ~(Cardinality(directories) > MaxDirectories) /\ ~(entry.size > MaxFileBytes)
        /\ ~(unpacked.total + entry.size > MaxTotalBytes)
    <3>1. /\ Len(path) <= MaxDepth /\ unpacked.files + 1 <= MaxFiles
          /\ Cardinality(directories) <= MaxDirectories /\ entry.size <= MaxFileBytes
          /\ unpacked.total + entry.size <= MaxTotalBytes
      BY <1>6, <1>7, <1>8, <1>9
    <3>2. /\ Cardinality(directories) \in Nat /\ Len(path) \in Nat
          /\ unpacked.files \in Nat /\ unpacked.total \in Nat /\ entry.size \in Nat
      BY <1>10
    <3> HIDE DEF directories, path, entry
    <3> QED
      BY <3>1, <3>2, Limits
  <2> HIDE DEF directories, path, entry
  <2> QED
    BY <2>1, Zenon DEF TooMuch, directories
<1> QED
  BY <1>3, <1>4, <1>5, <1>11

\* An entry is passed over, or its file is written as it was hashed.
LEMMA Passes ==
  ASSUME FetchInv, FetchAt("entries"), fetch.next <= Len(fetch.archive),
         fetch' = [fetch EXCEPT !.next = fetch.next + 1], mishap' = mishap, StagingTypes', Unpacks'
  PROVE  FetchInv'
<1>1. FetchTypes
  BY DEF FetchInv
<1>2. fetch' = [step |-> fetch.step, from |-> fetch.from, archive |-> fetch.archive, host |-> fetch.host,
                hops |-> fetch.hops, told |-> fetch.told, next |-> fetch.next + 1]
  BY <1>1, FetchSet
<1>3. /\ IsFetch(fetch') /\ fetch'.step = "entries" /\ fetch'.from = fetch.from
      /\ fetch'.archive = fetch.archive /\ fetch'.next = fetch.next + 1 /\ fetch'.hops = fetch.hops
  BY <1>2 DEF IsFetch, FetchAt
<1>4. fetch'.next \in 1..(Len(fetch.archive) + 1) /\ fetch'.next \in Nat
  BY <1>3, EntryFacts
<1>5. FetchTypes'
  BY <1>1, <1>3, <1>4 DEF FetchTypes
<1>6. Extracting'
  BY <1>3, <1>4 DEF FetchInv, Extracting, FetchAt
<1> QED
  BY <1>3, <1>5, <1>6 DEF FetchInv, BeginsEmpty, Streams, StagedRight, RefusedRight, FetchAt

\* An entry of the archive is taken.
LEMMA TakeStep == ASSUME FoldersTell, FetchInv, TakeEntry PROVE FetchInv'
<1> DEFINE n == fetch.next
           entry == fetch.archive[n]
           path == Relative(entry)
           file == FileOf(entry)
           directories == unpacked.directories \cup Parents(path)
<1>1. FetchAt("entries") /\ n <= Len(fetch.archive) /\ UNCHANGED mishap
  BY DEF TakeEntry
<1>2. /\ fetch.archive \in Archives /\ DOMAIN fetch.archive = 1..Len(fetch.archive) /\ Unpacks
      /\ Len(fetch.archive) \in Nat /\ n \in 1..Len(fetch.archive) /\ fetch.step # "idle"
      /\ IsFiniteSet(Passed) /\ entry.size \in Nat
  BY <1>1, EntryFacts
<1>3. FetchTypes /\ mishap' \in BOOLEAN
  BY <1>1 DEF FetchInv, FetchTypes, StagingTypes
<1>4. ASSUME FetchEnds(Cleaned), fetch.from = "local" \/ ~Sound PROVE FetchInv'
  BY <1>2, <1>3, <1>4, EndsRight DEF FetchEnds, CleanUp
<1>5. CASE Refused(entry)
  <2>1. ~Sound /\ FetchEnds(Cleaned)
    BY <1>2, <1>5 DEF Sound, TakeEntry
  <2> QED
    BY <1>4, <2>1
<1>6. CASE Wanted(entry) /\ (Collides(path) \/ TooMuch(entry, path, directories) \/ ~entry.honest
                             \/ InTheWay(path)) /\ FetchEnds(Cleaned)
  <2>1. ~Sound
    BY <1>1, <1>6, SoundEntry
  <2> QED
    BY <1>4, <1>6, <2>1
<1>7. ASSUME fetch' = [fetch EXCEPT !.next = n + 1]
      PROVE  /\ fetch'.from = fetch.from /\ fetch'.archive = fetch.archive /\ fetch'.next = n + 1
             /\ Inside' = Inside /\ \A e : Relative(e)' = Relative(e) /\ FileOf(e)' = FileOf(e)
             /\ \A sums : Adds(sums)' = Adds(sums)
  <2>1. fetch'.from = fetch.from /\ fetch'.archive = fetch.archive /\ fetch'.next = n + 1
    <3> HIDE DEF n
    <3>1. fetch' = [step |-> fetch.step, from |-> fetch.from, archive |-> fetch.archive,
                    host |-> fetch.host, hops |-> fetch.hops, told |-> fetch.told, next |-> n + 1]
      BY <1>3, <1>7, FetchSet
    <3> QED
      BY <3>1
  <2>2. Inside' = Inside /\ \A e : Relative(e)' = Relative(e) /\ FileOf(e)' = FileOf(e)
    BY <2>1, SameArchive
  <2>3. \A sums : Adds(sums)' = Adds(sums)
    BY <2>1, <2>2 DEF Adds
  <2> QED
    BY <2>1, <2>2, <2>3
<1>8. CASE ~Wanted(entry) /\ fetch' = [fetch EXCEPT !.next = n + 1] /\ UNCHANGED <<staging, unpacked>>
  <2>1. n \notin Inside
    BY <1>8 DEF Inside
  <2>2. Passed' = Passed
    BY <1>2, <1>7, <1>8, <2>1 DEF Passed, Inside
  <2>3. Unpacks'
    <3>1. ASSUME NEW sums \in [0..Len(fetch.archive) -> 0..MaxTotalBytes], Adds(sums)
          PROVE  sums[n] = sums[n - 1]
      <4>1. sums[n] = sums[n - 1] + 0
        BY <1>2, <2>1, <3>1 DEF Adds
      <4>2. sums[n - 1] \in 0..MaxTotalBytes
        BY <1>2
      <4> QED
        BY <4>1, <4>2
    <3>2. \A sums \in [0..Len(fetch.archive) -> 0..MaxTotalBytes] :
             Adds(sums) => unpacked.total = sums[(n + 1) - 1]
      BY <1>2, <3>1 DEF Unpacks
    <3>3. /\ fetch'.archive = fetch.archive /\ fetch'.next = n + 1
          /\ \A e : Relative(e)' = Relative(e) /\ FileOf(e)' = FileOf(e)
          /\ \A sums : Adds(sums)' = Adds(sums)
      BY <1>7, <1>8
    <3>4. staging' = staging /\ unpacked' = unpacked
      BY <1>8
    <3> HIDE DEF entry, n
    <3> QED
      BY <1>2, <2>2, <3>2, <3>3, <3>4 DEF Unpacks
  <2>4. StagingTypes'
    BY <1>1, <1>3, <1>8 DEF FetchTypes, StagingTypes
  <2> QED
    BY <1>1, <1>8, <2>3, <2>4, Passes
<1>9. CASE /\ Wanted(entry) /\ ~Collides(path) /\ ~InTheWay(path)
           /\ fetch' = [fetch EXCEPT !.next = n + 1]
           /\ staging' = [staging EXCEPT !.folder = Written(file)]
           /\ unpacked' = [seen |-> unpacked.seen \cup {FoldPath(path)}, directories |-> directories,
                           files |-> unpacked.files + 1, total |-> unpacked.total + entry.size,
                           tree |-> unpacked.tree \cup {file}]
  <2>1. n \in Inside /\ n \notin Passed
    BY <1>2, <1>9 DEF Inside, Passed
  <2>2. Passed' = Passed \cup {n}
    BY <1>2, <1>7, <1>9, <2>1 DEF Passed, Inside
  <2>3. Written(file) = staging.folder \cup {file}
    <3>1. path \in Seq(DOMAIN Lower) /\ \A k \in 1..(Len(path) - 1) : path[k] \in FolderNames(fetch.archive)
      BY <1>1, <2>1, EntryFacts
    <3>2. ASSUME NEW f \in staging.folder
          PROVE  /\ f.at \in Seq(DOMAIN Lower) /\ FoldPath(f.at) # FoldPath(path)
                 /\ \A k \in 1..(Len(f.at) - 1) : f.at[k] \in FolderNames(fetch.archive)
      <4>1. PICK i \in Passed : f.at = Relative(fetch.archive[i])
        BY <1>2 DEF Unpacks, FileOf
      <4>2. i \in Inside
        BY DEF Passed
      <4>3. FoldPath(f.at) \in unpacked.seen
        BY <1>2, <4>1 DEF Unpacks
      <4> QED
        BY <1>1, <1>9, <4>1, <4>2, <4>3, EntryFacts DEF Collides
    <3>3. FoldsCase => \A a, b \in FolderNames(fetch.archive) : Lower[a] = Lower[b] => a = b
      BY <1>2 DEF FoldersTell
    <3>4. file = [at |-> path, body |-> file.body, exec |-> file.exec]
      BY DEF FileOf
    <3> HIDE DEF path, file
    <3> QED
      BY <1>9, <3>1, <3>2, <3>3, <3>4, WrittenIsAdded
  <2>4. staging' = [part |-> staging.part, zip |-> staging.zip, folder |-> staging.folder \cup {file}]
    <3> HIDE DEF file
    <3> QED
      BY <1>3, <1>9, <2>3 DEF FetchTypes, StagingTypes
  <2>5. StagingTypes'
    <3> HIDE DEF file
    <3> QED
      BY <1>1, <1>3, <2>4 DEF FetchTypes, StagingTypes
  <2>6. Cardinality(Passed \cup {n}) = Cardinality(Passed) + 1
    BY <1>2, <2>1, FS_AddElement
  <2>7. \A sums \in [0..Len(fetch.archive) -> 0..MaxTotalBytes] :
           Adds(sums) => unpacked.total + entry.size = sums[(n + 1) - 1]
    <3> SUFFICES ASSUME NEW sums \in [0..Len(fetch.archive) -> 0..MaxTotalBytes], Adds(sums)
                 PROVE  unpacked.total + entry.size = sums[(n + 1) - 1]
      OBVIOUS
    <3>1. sums[n] = sums[n - 1] + entry.size
      BY <1>2, <2>1 DEF Adds
    <3>2. unpacked.total = sums[n - 1]
      BY <1>2 DEF Unpacks
    <3>3. (n + 1) - 1 = n
      BY <1>2
    <3> QED
      BY <3>1, <3>2, <3>3
  <2>8. Unpacks'
    <3>1. /\ unpacked'.seen = {FoldPath(Relative(fetch.archive[i])) : i \in Passed \cup {n}}
          /\ unpacked'.directories = UNION {Parents(Relative(fetch.archive[i])) : i \in Passed \cup {n}}
          /\ unpacked'.tree = {FileOf(fetch.archive[i]) : i \in Passed \cup {n}}
      BY <1>2, <1>9 DEF Unpacks
    <3>2. unpacked'.files = Cardinality(Passed \cup {n}) /\ unpacked'.total = unpacked.total + entry.size
      BY <1>2, <1>9, <2>6 DEF Unpacks
    <3>3. staging'.folder = unpacked'.tree
      BY <1>2, <1>9, <2>4 DEF Unpacks
    <3>4. unpacked' = [seen |-> unpacked'.seen, directories |-> unpacked'.directories,
                       files |-> unpacked'.files, total |-> unpacked'.total, tree |-> unpacked'.tree]
      BY <1>9
    <3>5. unpacked'.total \in Nat
      BY <1>2, <3>2 DEF Unpacks
    <3> HIDE DEF entry, n
    <3> QED
      BY <1>7, <1>9, <2>2, <2>7, <3>1, <3>2, <3>3, <3>4, <3>5 DEF Unpacks
  <2> QED
    BY <1>1, <1>9, <2>5, <2>8, Passes
<1> QED
  BY <1>5, <1>6, <1>8, <1>9 DEF TakeEntry

\* The extraction is over, and what was hashed is what is on the disk.
LEMMA ProveStep == ASSUME FetchInv, Prove PROVE FetchInv'
<1>1. /\ FetchAt("entries") /\ fetch.step # "idle" /\ fetch.next > Len(fetch.archive) /\ UNCHANGED mishap
  BY DEF Prove, FetchAt
<1>2. /\ FetchTypes /\ fetch.archive \in Archives /\ Unpacks /\ fetch.next \in 1..(Len(fetch.archive) + 1)
      /\ Len(fetch.archive) \in Nat /\ DOMAIN fetch.archive = 1..Len(fetch.archive)
  BY <1>1, ArchiveFacts DEF FetchInv, FetchTypes, Extracting
<1>3. Passed = Inside
  BY <1>1, <1>2 DEF Passed, Inside
<1>4. unpacked.tree = Content /\ staging.folder = Content
  BY <1>2, <1>3 DEF Unpacks, Content
<1>5. CASE /\ fetch.from = "store" => unpacked.tree = Listed
           /\ fetch' = [fetch EXCEPT !.step = "staged"] /\ CleanUp([staging EXCEPT !.zip = NoBytes])
  <2>1. staging' = staging \/ staging' = [staging EXCEPT !.zip = NoBytes]
    BY <1>5 DEF CleanUp
  <2>2. IsBytes(NoBytes)
    BY DEF IsBytes, NoBytes
  <2> HIDE DEF NoBytes
  <2>3. StagingTypes' /\ staging'.folder = staging.folder
    BY <1>1, <1>2, <2>1, <2>2 DEF FetchTypes, StagingTypes
  <2>4. FetchTypes' /\ fetch'.step = "staged" /\ fetch'.from = fetch.from /\ fetch'.archive = fetch.archive
    BY <1>1, <1>2, <1>5, <2>3, StepTo
  <2>5. Content' = Content
    BY <2>4, SameArchive
  <2>6. StagedRight'
    BY <1>4, <1>5, <2>3, <2>4, <2>5 DEF StagedRight, FetchAt
  <2> QED
    BY <2>4, <2>6 DEF FetchInv, BeginsEmpty, Streams, Extracting, RefusedRight, FetchAt
<1>6. CASE /\ ~ /\ \E f \in unpacked.tree : f.at = <<"smabar.json">>
                /\ fetch.from = "store" => unpacked.tree = Listed
           /\ FetchEnds(Cleaned)
  <2>1. fetch.from = "local" \/ ~(Sound /\ Content = Listed)
    <3> SUFFICES ASSUME fetch.from = "store", Sound, Content = Listed PROVE FALSE
      BY <1>2 DEF FetchTypes
    <3>1. PICK i \in Inside : Relative(fetch.archive[i]) = <<"smabar.json">>
      BY DEF Sound
    <3>2. FileOf(fetch.archive[i]) \in Content /\ FileOf(fetch.archive[i]).at = <<"smabar.json">>
      BY <3>1 DEF Content, FileOf
    <3> QED
      BY <1>4, <1>6, <3>2
  <2>2. mishap' \in BOOLEAN
    BY <1>1, <1>2 DEF FetchTypes, StagingTypes
  <2> QED
    BY <1>1, <1>6, <2>1, <2>2, EndsRight DEF FetchEnds, CleanUp
<1> QED
  BY <1>5, <1>6 DEF Prove

LEMMA CrashFetchStep == ASSUME FetchInv, CrashFetch PROVE FetchInv'
<1>1. FetchTypes
  BY DEF FetchInv
<1>2. /\ fetch' = NoFetch /\ mishap' = FALSE
      /\ staging' \in {staging, [part |-> NoBytes, zip |-> NoBytes, folder |-> {}]}
  BY DEF CrashFetch
<1>3. StagingTypes'
  <2>1. IsBytes(NoBytes)
    BY DEF IsBytes, NoBytes
  <2> HIDE DEF NoBytes
  <2>2. CASE staging' = staging
    BY <1>1, <1>2, <2>2 DEF FetchTypes, StagingTypes
  <2>3. CASE staging' = [part |-> NoBytes, zip |-> NoBytes, folder |-> {}]
    BY <1>2, <2>1, <2>3 DEF StagingTypes
  <2> QED
    BY <1>2, <2>2, <2>3
<1>4. FetchTypes' /\ fetch'.step = "idle"
  <2>1. IsFetch(fetch') /\ fetch'.step = "idle"
    BY <1>2 DEF IsFetch, NoFetch
  <2>2. fetch'.from = "store" /\ fetch'.hops = 0 /\ fetch'.next = 1
    BY <1>2 DEF NoFetch
  <2> QED
    BY <1>3, <2>1, <2>2 DEF FetchTypes
<1> QED
  BY <1>4 DEF FetchInv, BeginsEmpty, Streams, Extracting, StagedRight, RefusedRight, FetchAt

LEMMA FetchStep == ASSUME FoldersTell, FetchInv, [FetchNext]_fetchVars PROVE FetchInv'
<1>1. CASE EntryFails
  <2>1. /\ fetch.step # "idle" /\ fetch' = [fetch EXCEPT !.step = "refused"] /\ staging' = Cleaned
        /\ mishap' = TRUE
    BY <1>1 DEF EntryFails, FetchAt, Fails
  <2> QED
    BY <2>1, EndsRight
<1>2. CASE UNCHANGED fetchVars
  <2>1. UNCHANGED <<fetch, staging, unpacked, mishap>>
    BY <1>2 DEF fetchVars
  <2>2. /\ Inside' = Inside /\ Content' = Content /\ Passed' = Passed
        /\ \A e : Relative(e)' = Relative(e) /\ FileOf(e)' = FileOf(e)
    BY <2>1, SameArchive DEF Passed
  <2>3. FetchTypes' /\ BeginsEmpty' /\ Streams' /\ StagedRight'
    BY <2>1, <2>2 DEF FetchInv, FetchTypes, StagingTypes, BeginsEmpty, Streams, StagedRight, FetchAt,
                      WholeArchive
  <2>4. Extracting'
    <3>1. \A sums : Adds(sums)' = Adds(sums)
      BY <2>1, <2>2 DEF Adds
    <3> QED
      BY <2>1, <2>2, <3>1 DEF FetchInv, Extracting, FetchAt, Unpacks
  <2>5. RefusedRight'
    BY <2>1, SoundKept DEF FetchInv, RefusedRight, FetchAt
  <2> QED
    BY <2>3, <2>4, <2>5 DEF FetchInv
<1>3. CASE FetchNext
  BY <1>1, <1>3, StartStep, AskStep, StreamStep, RenameStep, OpenStep, TakeStep, ProveStep,
     CrashFetchStep DEF FetchNext
<1> QED
  BY <1>2, <1>3

\* The proof is one of what is on the disk, whatever is served, however it is cut short, and
\* whatever fails or is left behind: what was hashed, file by file, is what was written, and
\* a sound archive of the listed tree is taken in any order of its entries
\* (store/archive.rs, store/install.rs).
THEOREM ProofsAreOfTheDisk == ASSUME FoldersTell PROVE FetchSpec => []ProofIsOfTheDisk
<1>1. FetchInv => ProofIsOfTheDisk
  BY DEF FetchInv, StagedRight, RefusedRight, ProofIsOfTheDisk
<1> QED
  BY FetchInvInit, FetchStep, <1>1, PTL DEF FetchSpec
================================================================================
