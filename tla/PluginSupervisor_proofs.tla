------------------------ MODULE PluginSupervisor_proofs ------------------------
(***************************************************************************)
(* Proofs about PluginSupervisor, for every set of plugins and requests,   *)
(* every queue capacity and every bound.                                   *)
(***************************************************************************)
EXTENDS PluginSupervisor, TLAPS

\* An actor is in a transition exactly when it has a job, and holds a removed
\* handle only past the lock.
JobInv ==
    \A a \in Actor :
        /\ pc[a] \in {"idle", "done"} <=> job[a] = NoJob
        /\ ~InCritical(a) => job[a].victim = "none"

TypeInv == TypeOK /\ JobInv

\* What the records of a transition consist of (Job, NoJob).
LEMMA JobFields ==
    /\ \A j \in Job : /\ j.op \in Ops /\ j.id \in Plugin /\ j.victim \in Handle
                      /\ j # NoJob
    /\ \A o \in Ops, p \in Plugin, v \in Handle :
          [op |-> o, id |-> p, victim |-> v] \in Job
    /\ NoJob.victim = "none" /\ NoJob.id = NoPlugin /\ NoJob.op = "none"
<1>1. NoJob.victim = "none" /\ NoJob.id = NoPlugin /\ NoJob.op = "none"
  BY DEF NoJob
<1>2. "none" \notin Ops
  BY DEF Ops
<1>3. \A j \in Job : j.op \in Ops /\ j.id \in Plugin /\ j.victim \in Handle
  BY DEF Job
<1>4. \A j \in Job : j # NoJob
  BY <1>1, <1>2, <1>3
<1>5. \A o \in Ops, p \in Plugin, v \in Handle :
          [op |-> o, id |-> p, victim |-> v] \in Job
  BY DEF Job
<1> QED
  BY <1>1, <1>3, <1>4, <1>5

\* The two folders a supervisor can start with are folders (Gone, Good).
LEMMA FolderFields == Gone \in Folder /\ Good \in Folder
  BY DEF Folder, Gone, Good

LEMMA TypeInit == Init => TypeInv
<1> SUFFICES ASSUME Init PROVE TypeInv
  OBVIOUS
<1>1. TypeOK
  <2>1. disk \in [Plugin -> Folder]
    BY DEF Init
  <2>2. pc \in [Actor -> PCs] /\ job \in [Actor -> Job \cup {NoJob}]
    BY DEF Init, PCs
  <2>3. /\ handles \in [Plugin -> Handle] /\ drained \in [Plugin -> Handle]
        /\ orphans \in [Plugin -> Nat]
    BY DEF Init, Handle
  <2>4. edits \in [{"config", "disk"} -> Nat]
    BY DEF Init
  <2>5. queue \in Seq(SUBSET Plugin)
    BY DEF Init
  <2> QED
    BY <2>1, <2>2, <2>3, <2>4, <2>5 DEF Init, TypeOK
<1>2. JobInv
  BY JobFields DEF Init, JobInv, InCritical
<1> QED
  BY <1>1, <1>2 DEF TypeInv

--------------------------------------------------------------------------------
\* The helpers every transition is built from keep the actors' part of the type
\* invariant, and Publish and Touch keep theirs.

ActorsTyped ==
    /\ pc \in [Actor -> PCs]
    /\ job \in [Actor -> Job \cup {NoJob}]
    /\ JobInv

\* An actor in a transition has a job on some plugin (JobInv).
LEMMA Working ==
  ASSUME TypeInv, NEW a \in Actor, pc[a] \notin {"idle", "done"}
  PROVE  /\ job[a] \in Job /\ job[a].id \in Plugin /\ job[a].op \in Ops
         /\ job[a].victim \in Handle
  BY JobFields DEF TypeInv, TypeOK, JobInv

\* Finish leaves the actor without a job.
LEMMA FinishTyped ==
  ASSUME TypeInv, NEW a \in Actor, Finish(a)
  PROVE  ActorsTyped'
  BY JobFields DEF Finish, ActorsTyped, TypeInv, TypeOK, JobInv, InCritical, PCs

\* Goto moves an actor that is past the lock, or that takes the lock.
LEMMA GotoTyped ==
  ASSUME TypeInv, NEW a \in Actor, pc[a] \notin {"idle", "done"},
         NEW label \in {"lock", "resume", "start", "insert"}, Goto(a, label),
         label = "lock" => ~InCritical(a)
  PROVE  ActorsTyped'
  BY JobFields DEF Goto, ActorsTyped, TypeInv, TypeOK, JobInv, InCritical, PCs

\* Begin gives an idle actor a job.
LEMMA BeginTyped ==
  ASSUME TypeInv, NEW a \in Actor, NEW op \in Ops, NEW p \in Plugin, Begin(a, op, p)
  PROVE  ActorsTyped'
  BY JobFields DEF Begin, ActorsTyped, TypeInv, TypeOK, JobInv, InCritical, PCs,
     Handle

\* RemoveAndStop moves the handle from the map into the job.
LEMMA RemoveTyped ==
  ASSUME TypeInv, NEW a \in Actor, pc[a] \notin {"idle", "done"}, NEW op \in Ops,
         RemoveAndStop(a, op)
  PROVE  /\ ActorsTyped'
         /\ handles' \in [Plugin -> Handle]
         /\ orphans' \in [Plugin -> Nat] /\ drained' \in [Plugin -> Handle]
<1>1. job[a].id \in Plugin /\ handles[job[a].id] \in Handle
  BY Working DEF TypeInv, TypeOK
<1>2. [op |-> op, id |-> job[a].id, victim |-> handles[job[a].id]] \in Job
  BY <1>1, JobFields
<1> QED
  BY <1>1, <1>2, JobFields DEF RemoveAndStop, ActorsTyped, TypeInv, TypeOK,
     JobInv, InCritical, PCs, Handle

\* Publish stores a snapshot and keeps the channel within its type.
LEMMA PublishTyped ==
  ASSUME TypeInv, NEW new \in SUBSET Plugin, Publish(new)
  PROVE  /\ off' \in SUBSET Plugin /\ queue' \in Seq(SUBSET Plugin)
         /\ lagged' \in BOOLEAN /\ everLagged' \in BOOLEAN
<1>1. CASE Len(queue) < QueueCap
  BY <1>1, BoundAssumption DEF Publish, TypeInv, TypeOK
<1>2. CASE ~(Len(queue) < QueueCap)
  <2>1. queue # <<>>
    BY <1>2, BoundAssumption DEF TypeInv, TypeOK
  <2>2. Tail(queue) \in Seq(SUBSET Plugin)
    BY <2>1 DEF TypeInv, TypeOK
  <2> QED
    BY <1>2, <2>2 DEF Publish, TypeInv, TypeOK
<1> QED
  BY <1>1, <1>2

\* Touch adds a folder event.
LEMMA TouchTyped ==
  ASSUME TypeInv, NEW p \in Plugin, Touch(p)
  PROVE  dirty' \in SUBSET Plugin
  BY DEF Touch, TypeInv, TypeOK

--------------------------------------------------------------------------------
\* Every step of a transition keeps the type invariant.
LEMMA TransitionTyped ==
  ASSUME TypeInv, NEW a \in Actor, Transition(a)
  PROVE  TypeInv'
<1> SUFFICES ActorsTyped' /\ TypeOK'
  BY DEF TypeInv, ActorsTyped
<1> USE DEF configVars, loopVars, diskVars, scanVars, taskVars, viewVars
<1>1. CASE Enter(a)
  <2>1. pc[a] \notin {"idle", "done"} /\ ~InCritical(a)
    BY <1>1 DEF Enter, InCritical
  <2>2. ActorsTyped'
    BY <1>1, <2>1, GotoTyped, FinishTyped DEF Enter
  <2> QED
    BY <1>1, <2>2 DEF Enter, ActorsTyped, TypeInv, TypeOK
<1>2. CASE Refused(a)
  <2>1. ActorsTyped'
    BY <1>2, FinishTyped DEF Refused
  <2> QED
    BY <1>2, <2>1 DEF Refused, ActorsTyped, TypeInv, TypeOK
<1>3. CASE RestartBegin(a)
  <2>1. pc[a] \notin {"idle", "done"}
    BY <1>3 DEF RestartBegin, Locked
  <2>2. (ActorsTyped' /\ taskVars' = taskVars) \/ RemoveAndStop(a, "restart")
    BY <1>3, <2>1, GotoTyped, FinishTyped DEF RestartBegin
  <2>3. /\ ActorsTyped' /\ handles' \in [Plugin -> Handle]
        /\ orphans' \in [Plugin -> Nat] /\ drained' \in [Plugin -> Handle]
    BY <2>1, <2>2, RemoveTyped DEF Ops, TypeInv, TypeOK
  <2> QED
    BY <1>3, <2>3 DEF RestartBegin, ActorsTyped, TypeInv, TypeOK
<1>4. CASE DeactivateBegin(a)
  <2>1. pc[a] \notin {"idle", "done"}
    BY <1>4 DEF DeactivateBegin, Locked
  <2>2. (ActorsTyped' /\ taskVars' = taskVars) \/ RemoveAndStop(a, "deactivate")
    BY <1>4, <2>1, GotoTyped, FinishTyped DEF DeactivateBegin
  <2>3. /\ ActorsTyped' /\ handles' \in [Plugin -> Handle]
        /\ orphans' \in [Plugin -> Nat] /\ drained' \in [Plugin -> Handle]
    BY <2>1, <2>2, RemoveTyped DEF Ops, TypeInv, TypeOK
  <2> QED
    BY <1>4, <2>3 DEF DeactivateBegin, ActorsTyped, TypeInv, TypeOK
<1>5. CASE ActivateBegin(a)
  <2>1. pc[a] \notin {"idle", "done"} /\ job[a].id \in Plugin
    BY <1>5, Working DEF ActivateBegin, Locked
  <2>2. ActorsTyped'
    BY <1>5, <2>1, GotoTyped, FinishTyped DEF ActivateBegin
  <2> QED
    BY <1>5, <2>1, <2>2 DEF ActivateBegin, ActorsTyped, TypeInv, TypeOK
<1>6. CASE ReloadRunning(a)
  <2>1. pc[a] \notin {"idle", "done"}
    BY <1>6 DEF ReloadRunning, Locked
  <2>2. \/ (ActorsTyped' /\ taskVars' = taskVars)
        \/ RemoveAndStop(a, "reload") \/ RemoveAndStop(a, "unload")
    BY <1>6, <2>1, FinishTyped DEF ReloadRunning
  <2>3. /\ ActorsTyped' /\ handles' \in [Plugin -> Handle]
        /\ orphans' \in [Plugin -> Nat] /\ drained' \in [Plugin -> Handle]
    BY <2>1, <2>2, RemoveTyped DEF Ops, TypeInv, TypeOK
  <2> QED
    BY <1>6, <2>3 DEF ReloadRunning, ActorsTyped, TypeInv, TypeOK
<1>7. CASE ReloadIdle(a)
  <2>1. pc[a] \notin {"idle", "done"} /\ job[a].id \in Plugin
    BY <1>7, Working DEF ReloadIdle, Locked
  <2>2. ActorsTyped'
    BY <1>7, <2>1, GotoTyped, FinishTyped DEF ReloadIdle
  <2> QED
    BY <1>7, <2>1, <2>2 DEF ReloadIdle, ActorsTyped, TypeInv, TypeOK
<1>8. CASE RemoveBegin(a)
  <2>1. pc[a] \notin {"idle", "done"}
    BY <1>8 DEF RemoveBegin, Locked
  <2>2. (ActorsTyped' /\ taskVars' = taskVars) \/ RemoveAndStop(a, "remove")
    BY <1>8, <2>1, GotoTyped, FinishTyped DEF RemoveBegin
  <2>3. /\ ActorsTyped' /\ handles' \in [Plugin -> Handle]
        /\ orphans' \in [Plugin -> Nat] /\ drained' \in [Plugin -> Handle]
    BY <2>1, <2>2, RemoveTyped DEF Ops, TypeInv, TypeOK
  <2> QED
    BY <1>8, <2>3 DEF RemoveBegin, ActorsTyped, TypeInv, TypeOK
<1>9. CASE ReplaceBegin(a)
  <2>1. pc[a] \notin {"idle", "done"}
    BY <1>9 DEF ReplaceBegin, Locked
  <2>2. (ActorsTyped' /\ taskVars' = taskVars) \/ RemoveAndStop(a, "replace")
    BY <1>9, <2>1, GotoTyped, FinishTyped DEF ReplaceBegin
  <2>3. /\ ActorsTyped' /\ handles' \in [Plugin -> Handle]
        /\ orphans' \in [Plugin -> Nat] /\ drained' \in [Plugin -> Handle]
    BY <2>1, <2>2, RemoveTyped DEF Ops, TypeInv, TypeOK
  <2> QED
    BY <1>9, <2>3 DEF ReplaceBegin, ActorsTyped, TypeInv, TypeOK
<1>10. CASE StopDone(a)
  <2>1. [op |-> job[a].op, id |-> job[a].id, victim |-> "ended"] \in Job
    BY <1>10, Working, JobFields DEF StopDone, Handle
  <2>2. ActorsTyped'
    BY <1>10, <2>1, JobFields DEF StopDone, ActorsTyped, TypeInv, TypeOK, JobInv,
       InCritical, PCs
  <2> QED
    BY <1>10, <2>2 DEF StopDone, ActorsTyped, TypeInv, TypeOK
<1>11. CASE UnloadEnd(a)
  <2>1. pc[a] \notin {"idle", "done"} /\ job[a].id \in Plugin
    BY <1>11, Working DEF UnloadEnd, Resumed
  <2>2. ActorsTyped'
    BY <1>11, <2>1, GotoTyped, FinishTyped DEF UnloadEnd
  <2> QED
    BY <1>11, <2>1, <2>2 DEF UnloadEnd, ActorsTyped, TypeInv, TypeOK
<1>12. CASE DeactivateEnd(a)
  <2>1. pc[a] \notin {"idle", "done"} /\ job[a].id \in Plugin
    BY <1>12, Working DEF DeactivateEnd, Resumed
  <2>2. ActorsTyped'
    BY <1>12, <2>1, GotoTyped, FinishTyped DEF DeactivateEnd
  <2> QED
    BY <1>12, <2>1, <2>2 DEF DeactivateEnd, ActorsTyped, TypeInv, TypeOK
<1>13. CASE RemoveOk(a)
  <2>1. pc[a] \notin {"idle", "done"} /\ job[a].id \in Plugin
    BY <1>13, Working DEF RemoveOk, Resumed
  <2>2. ActorsTyped'
    BY <1>13, <2>1, FinishTyped DEF RemoveOk
  <2>3. /\ off' \in SUBSET Plugin /\ queue' \in Seq(SUBSET Plugin)
        /\ lagged' \in BOOLEAN /\ everLagged' \in BOOLEAN
        /\ dirty' \in SUBSET Plugin /\ disk' \in [Plugin -> Folder]
    BY <1>13, <2>1, PublishTyped, TouchTyped, FolderFields
       DEF RemoveOk, TypeInv, TypeOK
  <2> QED
    BY <1>13, <2>1, <2>2, <2>3 DEF RemoveOk, ActorsTyped, TypeInv, TypeOK
<1>14. CASE RemoveFail(a)
  <2>1. pc[a] \notin {"idle", "done"} /\ job[a].id \in Plugin
    BY <1>14, Working DEF RemoveFail, Resumed
  <2>2. ActorsTyped'
    BY <1>14, <2>1, GotoTyped, FinishTyped DEF RemoveFail
  <2>3. dirty' \in SUBSET Plugin /\ disk' \in [Plugin -> Folder]
    BY <1>14, <2>1, TouchTyped, FolderFields DEF RemoveFail, TypeInv, TypeOK
  <2> QED
    BY <1>14, <2>1, <2>2, <2>3 DEF RemoveFail, ActorsTyped, TypeInv, TypeOK
<1>15. CASE SwapOk(a)
  <2>1. pc[a] \notin {"idle", "done"} /\ job[a].id \in Plugin
    BY <1>15, Working DEF SwapOk, Resumed
  <2>2. ActorsTyped'
    BY <1>15, <2>1, GotoTyped, FinishTyped DEF SwapOk
  <2>3. dirty' \in SUBSET Plugin /\ disk' \in [Plugin -> Folder]
    BY <1>15, <2>1, TouchTyped, FolderFields DEF SwapOk, TypeInv, TypeOK
  <2> QED
    BY <1>15, <2>1, <2>2, <2>3 DEF SwapOk, ActorsTyped, TypeInv, TypeOK
<1>16. CASE SwapFail(a)
  <2>1. pc[a] \notin {"idle", "done"} /\ job[a].id \in Plugin
    BY <1>16, Working DEF SwapFail, Resumed
  <2>2. ActorsTyped'
    BY <1>16, <2>1, GotoTyped, FinishTyped DEF SwapFail
  <2>3. dirty' \in SUBSET Plugin /\ disk' \in [Plugin -> Folder]
    BY <1>16, <2>1, TouchTyped, FolderFields DEF SwapFail, TypeInv, TypeOK
  <2> QED
    BY <1>16, <2>1, <2>2, <2>3 DEF SwapFail, ActorsTyped, TypeInv, TypeOK
<1>17. CASE StartRejected(a)
  <2>1. pc[a] \notin {"idle", "done"} /\ job[a].id \in Plugin
    BY <1>17, Working DEF StartRejected
  <2>2. ActorsTyped'
    BY <1>17, <2>1, FinishTyped DEF StartRejected
  <2> QED
    BY <1>17, <2>1, <2>2 DEF StartRejected, ActorsTyped, TypeInv, TypeOK
<1>18. CASE Gate(a)
  <2>1. pc[a] \notin {"idle", "done"} /\ job[a].id \in Plugin
    BY <1>18, Working DEF Gate
  <2>2. ActorsTyped'
    BY <1>18, <2>1, GotoTyped, FinishTyped DEF Gate
  <2> QED
    BY <1>18, <2>1, <2>2 DEF Gate, ActorsTyped, TypeInv, TypeOK
<1>19. CASE Insert(a)
  <2>1. pc[a] \notin {"idle", "done"} /\ job[a].id \in Plugin
    BY <1>19, Working DEF Insert
  <2>2. ActorsTyped'
    BY <1>19, FinishTyped DEF Insert
  <2>3. handles' \in [Plugin -> Handle] /\ orphans' \in [Plugin -> Nat]
    BY <1>19, <2>1 DEF Insert, TypeInv, TypeOK, Handle
  <2> QED
    BY <1>19, <2>2, <2>3 DEF Insert, ActorsTyped, TypeInv, TypeOK
<1> QED
  BY <1>1, <1>2, <1>3, <1>4, <1>5, <1>6, <1>7, <1>8, <1>9, <1>10, <1>11, <1>12, <1>13, <1>14, <1>15, <1>16, <1>17, <1>18, <1>19 DEF Transition

\* A config snapshot taken from the channel is a set of plugins.
LEMMA HeadTyped ==
  ASSUME TypeInv, queue # <<>>
  PROVE  Head(queue) \in SUBSET Plugin /\ Tail(queue) \in Seq(SUBSET Plugin)
  BY DEF TypeInv, TypeOK

\* The boot scan and the background loops keep the type invariant.
LEMMA LoopsTyped ==
  ASSUME TypeInv, Loops
  PROVE  TypeInv'
<1> SUFFICES ActorsTyped' /\ TypeOK'
  BY DEF TypeInv, ActorsTyped
<1> USE DEF configVars, loopVars, diskVars, scanVars, taskVars, viewVars,
        actorVars
<1>0. Boot \in Actor /\ Dir \in Actor /\ Cfg \in Actor
  BY DEF Actor
<1>1. ASSUME NEW p \in Plugin, BootScan(p) PROVE ActorsTyped' /\ TypeOK'
  <2>1. [op |-> "boot", id |-> p, victim |-> "none"] \in Job
    BY JobFields DEF Ops, Handle
  <2>2. ActorsTyped'
    BY <1>0, <1>1, <2>1, JobFields DEF BootScan, ActorsTyped, TypeInv, TypeOK,
       JobInv, InCritical, PCs
  <2> QED
    BY <1>1, <2>2 DEF BootScan, ActorsTyped, TypeInv, TypeOK
<1>2. ASSUME NEW p \in Plugin, DirNext(p) PROVE ActorsTyped' /\ TypeOK'
  <2>1. ActorsTyped'
    BY <1>0, <1>2, BeginTyped DEF DirNext, Ops
  <2> QED
    BY <1>2, <2>1 DEF DirNext, ActorsTyped, TypeInv, TypeOK
<1>3. ASSUME NEW p \in Plugin, CfgDeactivate(p) PROVE ActorsTyped' /\ TypeOK'
  <2>1. ActorsTyped'
    BY <1>0, <1>3, BeginTyped DEF CfgDeactivate, Ops
  <2> QED
    BY <1>3, <2>1 DEF CfgDeactivate, ActorsTyped, TypeInv, TypeOK
<1>4. ASSUME NEW p \in Plugin, CfgActivate(p) PROVE ActorsTyped' /\ TypeOK'
  <2>1. ActorsTyped'
    BY <1>0, <1>4, BeginTyped DEF CfgActivate, Ops
  <2> QED
    BY <1>4, <2>1 DEF CfgActivate, ActorsTyped, TypeInv, TypeOK
<1>5. CASE DirTake
  BY <1>5 DEF DirTake, ActorsTyped, TypeInv, TypeOK, JobInv, InCritical
<1>6. CASE CfgRecv
  <2>1. ActorsTyped'
    BY <1>6 DEF CfgRecv, ActorsTyped, TypeInv, TypeOK, JobInv, InCritical
  <2> QED
    BY <1>6, <2>1, HeadTyped DEF CfgRecv, Apply, ActorsTyped, TypeInv, TypeOK
<1>7. CASE CfgDrain
  <2>1. ActorsTyped'
    BY <1>7 DEF CfgDrain, ActorsTyped, TypeInv, TypeOK, JobInv, InCritical
  <2>2. queue' \in Seq(SUBSET Plugin)
    BY <1>7 DEF CfgDrain
  <2> QED
    BY <1>7, <2>1, <2>2 DEF CfgDrain, TypeInv, TypeOK
<1>8. CASE CfgResync
  BY <1>8 DEF CfgResync, Apply, ActorsTyped, TypeInv, TypeOK, JobInv, InCritical
<1>9. CASE CfgApplied
  BY <1>9 DEF CfgApplied, ActorsTyped, TypeInv, TypeOK, JobInv, InCritical
<1> QED
  BY <1>1, <1>2, <1>3, <1>4, <1>5, <1>6, <1>7, <1>8, <1>9 DEF Loops

\* So do shutdown_all, the environment and the end of an overwritten task.
LEMMA OthersTyped ==
  ASSUME TypeInv, Shutdown \/ Environment \/ \E p \in Plugin : OrphanEnds(p)
  PROVE  TypeInv'
<1> SUFFICES ActorsTyped' /\ TypeOK'
  BY DEF TypeInv, ActorsTyped
<1> USE DEF configVars, loopVars, diskVars, scanVars, taskVars, viewVars,
        actorVars
<1>1. ASSUME UNCHANGED actorVars PROVE ActorsTyped'
  BY <1>1 DEF ActorsTyped, TypeInv, TypeOK, JobInv, InCritical
<1>2. CASE Drain
  BY <1>1, <1>2 DEF Drain, ActorsTyped, TypeInv, TypeOK, Handle
<1>3. CASE ShutdownDone
  BY <1>1, <1>3 DEF ShutdownDone, ActorsTyped, TypeInv, TypeOK
<1>4. ASSUME NEW p \in Plugin, StopDrained(p) PROVE ActorsTyped' /\ TypeOK'
  BY <1>1, <1>4 DEF StopDrained, ActorsTyped, TypeInv, TypeOK, Handle
<1>5. CASE EditConfig
  <2>1. PICK new \in SUBSET Plugin : Publish(new)
    BY <1>5 DEF EditConfig
  <2>2. edits' \in [{"config", "disk"} -> Nat]
    BY <1>5 DEF EditConfig, TypeInv, TypeOK
  <2> QED
    BY <1>1, <1>5, <2>1, <2>2, PublishTyped DEF EditConfig, ActorsTyped, TypeInv,
       TypeOK
<1>6. CASE Cancel
  BY <1>1, <1>6 DEF Cancel, ActorsTyped, TypeInv, TypeOK
<1>7. ASSUME NEW p \in Plugin, EditDisk(p) PROVE ActorsTyped' /\ TypeOK'
  <2>1. disk' \in [Plugin -> Folder] /\ dirty' \in SUBSET Plugin
    BY <1>7, TouchTyped DEF EditDisk, TypeInv, TypeOK
  <2>2. edits' \in [{"config", "disk"} -> Nat]
    BY <1>7 DEF EditDisk, TypeInv, TypeOK
  <2> QED
    BY <1>1, <1>7, <2>1, <2>2 DEF EditDisk, ActorsTyped, TypeInv, TypeOK
<1>8. ASSUME NEW p \in Plugin, Render(p) PROVE ActorsTyped' /\ TypeOK'
  BY <1>1, <1>8 DEF Render, ActorsTyped, TypeInv, TypeOK
<1>9. ASSUME NEW p \in Plugin, GiveUp(p) PROVE ActorsTyped' /\ TypeOK'
  BY <1>1, <1>9 DEF GiveUp, ActorsTyped, TypeInv, TypeOK, Handle
<1>10. ASSUME NEW r \in Request, Ask(r) PROVE ActorsTyped' /\ TypeOK'
  <2>1. PICK op \in {"restart", "remove", "replace"}, p \in Plugin : Begin(r, op, p)
    BY <1>10 DEF Ask
  <2>2. ActorsTyped'
    BY <2>1, BeginTyped DEF Ops, Actor
  <2> QED
    BY <1>10, <2>2 DEF Ask, ActorsTyped, TypeInv, TypeOK
<1>11. ASSUME NEW p \in Plugin, OrphanEnds(p) PROVE ActorsTyped' /\ TypeOK'
  <2>1. orphans[p] \in Nat /\ orphans[p] - 1 \in Nat
    BY <1>11 DEF OrphanEnds, TypeInv, TypeOK
  <2>2. orphans' \in [Plugin -> Nat]
    BY <1>11, <2>1 DEF OrphanEnds, TypeInv, TypeOK
  <2> QED
    BY <1>1, <1>11, <2>2 DEF OrphanEnds, ActorsTyped, TypeInv, TypeOK
<1> QED
  BY <1>2, <1>3, <1>4, <1>5, <1>6, <1>7, <1>8, <1>9, <1>10, <1>11
     DEF Shutdown, Environment

LEMMA TypeStep == TypeInv /\ [Next]_vars => TypeInv'
<1> SUFFICES ASSUME TypeInv, [Next]_vars PROVE TypeInv'
  OBVIOUS
<1>1. CASE Next
  BY <1>1, TransitionTyped, LoopsTyped, OthersTyped DEF Next
<1>2. CASE UNCHANGED vars
  BY <1>2 DEF vars, configVars, loopVars, diskVars, scanVars, taskVars, viewVars,
     actorVars, TypeInv, TypeOK, JobInv, InCritical
<1> QED
  BY <1>1, <1>2

\* The supervisor's state keeps its types: what a transition holds is a job on
\* one plugin, and only a transition past the lock holds a removed handle.
THEOREM TypeCorrect == Spec => []TypeInv
<1>1. TypeInv /\ [][Next]_vars => []TypeInv
  BY TypeStep, PTL
<1> QED
  BY TypeInit, <1>1, PTL DEF Spec

--------------------------------------------------------------------------------
\* What makes the lifecycle locks and the barrier work.

\* The lock: two transitions past it are on different plugins.
LockInv ==
    \A a, b \in Actor :
        InCritical(a) /\ InCritical(b) /\ job[a].id = job[b].id => a = b

\* Until the boot scan is over it is alone, and it starts a folder only once.
BootInv ==
    /\ pc[Boot] \in {"idle", "start", "insert"}
    /\ ~Booted => /\ \A a \in Actor \ {Boot} : pc[a] = "idle"
                  /\ batch = {} /\ mode = "recv" /\ stage = "up"
                  /\ \A p \in unscanned : handles[p] = "none"
                  /\ pc[Boot] # "idle" => job[Boot].id \notin unscanned

\* Only the config subscriber re-activates, and whoever else is past the lock
\* sees no registered handle of its plugin.
EmptyInv ==
    \A a \in Actor :
        /\ job[a].op = "activate" => a = Cfg
        /\ InCritical(a) /\ job[a].op # "activate" => handles[job[a].id] = "none"

\* Once shutdown_all owns the barrier, no transition is under way and the map
\* stays empty.
ShutdownInv ==
    /\ stage \in {"draining", "gone"} =>
          /\ \A a \in Actor : ~HoldsBarrier(a)
          /\ \A p \in Plugin : handles[p] = "none"
    /\ stage = "gone" => \A p \in Plugin : drained[p] = "none"

IInv == TypeInv /\ LockInv /\ BootInv /\ EmptyInv /\ ShutdownInv

--------------------------------------------------------------------------------
\* What one step of a transition can do to the state IInv speaks of.

\* It moves only its own actor, which enters the critical section only from a
\* free lock, and stays with its plugin and operation.
MovesAlone(a) ==
    /\ pc[a] \notin {"idle", "done"}
    /\ \A b \in Actor \ {a} : pc'[b] = pc[b] /\ job'[b] = job[b]
    /\ pc'[a] # "barrier"
    /\ pc'[a] = "lock" => stage = "up"
    /\ InCritical(a)' =>
          /\ job'[a].id = job[a].id
          /\ \/ InCritical(a)
             \/ pc[a] = "lock" /\ LockFree(job[a].id) /\ stage = "up"
    /\ pc[a] \in {"start", "insert"} /\ a \notin Request =>
          pc'[a] \in {"idle", "insert"}
    /\ job'[a].op = "activate" => job[a].op = "activate"
    /\ UNCHANGED <<stage, unscanned, batch, mode, drained>>

\* It registers a handle only as its last step, and works on an empty entry
\* unless it re-activates.
TouchesHandles(a) ==
    /\ \A p \in Plugin :
          \/ handles'[p] = "none" \/ handles'[p] = handles[p]
          \/ pc[a] = "insert" /\ p = job[a].id /\ ~InCritical(a)'
    /\ InCritical(a)' /\ job'[a].op # "activate" =>
          \/ handles'[job[a].id] = "none"
          \/ InCritical(a) /\ job[a].op # "activate" /\ handles' = handles
    /\ \A p \in Plugin : orphans'[p] > orphans[p] =>
          pc[a] = "insert" /\ p = job[a].id /\ handles[p] = "live"

\* Finish ends the actor's transition and nobody else's.
LEMMA FinishMoves ==
  ASSUME TypeInv, NEW a \in Actor, Finish(a)
  PROVE  /\ \A b \in Actor \ {a} : pc'[b] = pc[b] /\ job'[b] = job[b]
         /\ pc'[a] \in {"idle", "done"} /\ ~InCritical(a)'
         /\ a \notin Request => pc'[a] = "idle"
         /\ job'[a].op = "none"
  BY JobFields DEF Finish, TypeInv, TypeOK, InCritical

\* Goto moves the actor and keeps every job.
LEMMA GotoMoves ==
  ASSUME TypeInv, NEW a \in Actor, NEW label, Goto(a, label)
  PROVE  /\ \A b \in Actor \ {a} : pc'[b] = pc[b] /\ job'[b] = job[b]
         /\ pc'[a] = label /\ job' = job
  BY DEF Goto, TypeInv, TypeOK

\* RemoveAndStop empties the entry of the actor's plugin.
LEMMA RemoveMoves ==
  ASSUME TypeInv, NEW a \in Actor, pc[a] \notin {"idle", "done"}, NEW op,
         RemoveAndStop(a, op)
  PROVE  /\ \A b \in Actor \ {a} : pc'[b] = pc[b] /\ job'[b] = job[b]
         /\ pc'[a] = "stop" /\ job'[a].op = op /\ job'[a].id = job[a].id
         /\ \A p \in Plugin : handles'[p] = "none" \/ handles'[p] = handles[p]
         /\ handles'[job[a].id] = "none"
         /\ UNCHANGED <<orphans, drained>>
  BY Working DEF RemoveAndStop, TypeInv, TypeOK

LEMMA TransitionEffect ==
  ASSUME TypeInv, NEW a \in Actor, Transition(a)
  PROVE  MovesAlone(a) /\ TouchesHandles(a)
<1> USE DEF configVars, loopVars, diskVars, scanVars, taskVars, viewVars
<1>0. ASSUME UNCHANGED taskVars, pc[a] # "insert", ~InCritical(a)' PROVE TouchesHandles(a)
  BY <1>0 DEF TouchesHandles, TypeInv, TypeOK
<1>1. CASE Enter(a)
  <2>1. pc[a] \notin {"idle", "done"}
    BY <1>1 DEF Enter
  <2>2. MovesAlone(a)
    BY <1>1, <2>1, GotoMoves, FinishMoves DEF Enter, MovesAlone, InCritical
  <2>3. TouchesHandles(a)
    BY <1>1, <2>1, Working, GotoMoves, FinishMoves DEF Enter, TouchesHandles,
       InCritical, TypeInv, TypeOK
  <2> QED
    BY <2>2, <2>3
<1>2. CASE Refused(a)
  <2>1. pc[a] \notin {"idle", "done"}
    BY <1>2 DEF Refused
  <2>2. MovesAlone(a)
    BY <1>2, <2>1, FinishMoves DEF Refused, MovesAlone, InCritical
  <2>3. TouchesHandles(a)
    BY <1>2, <2>1, Working, FinishMoves DEF Refused, TouchesHandles,
       InCritical, TypeInv, TypeOK
  <2> QED
    BY <2>2, <2>3
<1>3. CASE RestartBegin(a)
  <2>1. pc[a] = "lock" /\ LockFree(job[a].id) /\ stage = "up" /\ ~InCritical(a)
    BY <1>3 DEF RestartBegin, Locked, InCritical
  <2>2. UNCHANGED <<stage, unscanned, batch, mode>>
    BY <1>3 DEF RestartBegin
  <2>3. CASE (RemoveAndStop(a, "restart"))
    <3>1. PICK op \in {"restart"} : RemoveAndStop(a, op)
      BY <2>3
    <3>2. /\ \A b \in Actor \ {a} : pc'[b] = pc[b] /\ job'[b] = job[b]
          /\ pc'[a] = "stop" /\ job'[a].op # "activate" /\ job'[a].id = job[a].id
          /\ \A p \in Plugin : handles'[p] = "none" \/ handles'[p] = handles[p]
          /\ handles'[job[a].id] = "none"
          /\ UNCHANGED <<orphans, drained>>
      BY <2>1, <3>1, RemoveMoves
    <3>3. MovesAlone(a)
      BY <2>1, <2>2, <3>2 DEF MovesAlone, InCritical
    <3>4. TouchesHandles(a)
      BY <3>2 DEF TouchesHandles, TypeInv, TypeOK
    <3> QED
      BY <3>3, <3>4
  <2>4. CASE ~(RemoveAndStop(a, "restart"))
    <3>1. MovesAlone(a)
      BY <1>3, <2>1, <2>2, <2>4, GotoMoves, FinishMoves DEF RestartBegin, Locked, MovesAlone, InCritical
    <3>2. TouchesHandles(a)
      BY <1>3, <2>1, <2>4, Working, GotoMoves, FinishMoves DEF RestartBegin, Locked, TouchesHandles,
         InCritical, TypeInv, TypeOK
    <3> QED
      BY <3>1, <3>2
  <2> QED
    BY <2>3, <2>4
<1>4. CASE DeactivateBegin(a)
  <2>1. pc[a] = "lock" /\ LockFree(job[a].id) /\ stage = "up" /\ ~InCritical(a)
    BY <1>4 DEF DeactivateBegin, Locked, InCritical
  <2>2. UNCHANGED <<stage, unscanned, batch, mode>>
    BY <1>4 DEF DeactivateBegin
  <2>3. CASE (RemoveAndStop(a, "deactivate"))
    <3>1. PICK op \in {"deactivate"} : RemoveAndStop(a, op)
      BY <2>3
    <3>2. /\ \A b \in Actor \ {a} : pc'[b] = pc[b] /\ job'[b] = job[b]
          /\ pc'[a] = "stop" /\ job'[a].op # "activate" /\ job'[a].id = job[a].id
          /\ \A p \in Plugin : handles'[p] = "none" \/ handles'[p] = handles[p]
          /\ handles'[job[a].id] = "none"
          /\ UNCHANGED <<orphans, drained>>
      BY <2>1, <3>1, RemoveMoves
    <3>3. MovesAlone(a)
      BY <2>1, <2>2, <3>2 DEF MovesAlone, InCritical
    <3>4. TouchesHandles(a)
      BY <3>2 DEF TouchesHandles, TypeInv, TypeOK
    <3> QED
      BY <3>3, <3>4
  <2>4. CASE ~(RemoveAndStop(a, "deactivate"))
    <3>1. MovesAlone(a)
      BY <1>4, <2>1, <2>2, <2>4, FinishMoves DEF DeactivateBegin, Locked, MovesAlone, InCritical
    <3>2. TouchesHandles(a)
      BY <1>4, <2>1, <2>4, Working, FinishMoves DEF DeactivateBegin, Locked, TouchesHandles,
         InCritical, TypeInv, TypeOK
    <3> QED
      BY <3>1, <3>2
  <2> QED
    BY <2>3, <2>4
<1>5. CASE ActivateBegin(a)
  <2>1. pc[a] \notin {"idle", "done"}
    BY <1>5 DEF ActivateBegin, Locked
  <2>2. MovesAlone(a)
    BY <1>5, <2>1, GotoMoves, FinishMoves DEF ActivateBegin, Locked, MovesAlone, InCritical
  <2>3. TouchesHandles(a)
    BY <1>5, <2>1, Working, GotoMoves, FinishMoves DEF ActivateBegin, Locked, TouchesHandles,
       InCritical, TypeInv, TypeOK
  <2> QED
    BY <2>2, <2>3
<1>6. CASE ReloadRunning(a)
  <2>1. pc[a] = "lock" /\ LockFree(job[a].id) /\ stage = "up" /\ ~InCritical(a)
    BY <1>6 DEF ReloadRunning, Locked, InCritical
  <2>2. UNCHANGED <<stage, unscanned, batch, mode>>
    BY <1>6 DEF ReloadRunning
  <2>3. CASE (RemoveAndStop(a, "reload") \/ RemoveAndStop(a, "unload"))
    <3>1. PICK op \in {"reload", "unload"} : RemoveAndStop(a, op)
      BY <2>3
    <3>2. /\ \A b \in Actor \ {a} : pc'[b] = pc[b] /\ job'[b] = job[b]
          /\ pc'[a] = "stop" /\ job'[a].op # "activate" /\ job'[a].id = job[a].id
          /\ \A p \in Plugin : handles'[p] = "none" \/ handles'[p] = handles[p]
          /\ handles'[job[a].id] = "none"
          /\ UNCHANGED <<orphans, drained>>
      BY <2>1, <3>1, RemoveMoves
    <3>3. MovesAlone(a)
      BY <2>1, <2>2, <3>2 DEF MovesAlone, InCritical
    <3>4. TouchesHandles(a)
      BY <3>2 DEF TouchesHandles, TypeInv, TypeOK
    <3> QED
      BY <3>3, <3>4
  <2>4. CASE ~(RemoveAndStop(a, "reload") \/ RemoveAndStop(a, "unload"))
    <3>1. MovesAlone(a)
      BY <1>6, <2>1, <2>2, <2>4, FinishMoves DEF ReloadRunning, Locked, MovesAlone, InCritical
    <3>2. TouchesHandles(a)
      BY <1>6, <2>1, <2>4, Working, FinishMoves DEF ReloadRunning, Locked, TouchesHandles,
         InCritical, TypeInv, TypeOK
    <3> QED
      BY <3>1, <3>2
  <2> QED
    BY <2>3, <2>4
<1>7. CASE ReloadIdle(a)
  <2>1. pc[a] \notin {"idle", "done"}
    BY <1>7 DEF ReloadIdle, Locked
  <2>2. MovesAlone(a)
    BY <1>7, <2>1, GotoMoves, FinishMoves DEF ReloadIdle, Locked, MovesAlone, InCritical
  <2>3. TouchesHandles(a)
    BY <1>7, <2>1, Working, GotoMoves, FinishMoves DEF ReloadIdle, Locked, TouchesHandles,
       InCritical, TypeInv, TypeOK
  <2> QED
    BY <2>2, <2>3
<1>8. CASE RemoveBegin(a)
  <2>1. pc[a] = "lock" /\ LockFree(job[a].id) /\ stage = "up" /\ ~InCritical(a)
    BY <1>8 DEF RemoveBegin, Locked, InCritical
  <2>2. UNCHANGED <<stage, unscanned, batch, mode>>
    BY <1>8 DEF RemoveBegin
  <2>3. CASE (RemoveAndStop(a, "remove"))
    <3>1. PICK op \in {"remove"} : RemoveAndStop(a, op)
      BY <2>3
    <3>2. /\ \A b \in Actor \ {a} : pc'[b] = pc[b] /\ job'[b] = job[b]
          /\ pc'[a] = "stop" /\ job'[a].op # "activate" /\ job'[a].id = job[a].id
          /\ \A p \in Plugin : handles'[p] = "none" \/ handles'[p] = handles[p]
          /\ handles'[job[a].id] = "none"
          /\ UNCHANGED <<orphans, drained>>
      BY <2>1, <3>1, RemoveMoves
    <3>3. MovesAlone(a)
      BY <2>1, <2>2, <3>2 DEF MovesAlone, InCritical
    <3>4. TouchesHandles(a)
      BY <3>2 DEF TouchesHandles, TypeInv, TypeOK
    <3> QED
      BY <3>3, <3>4
  <2>4. CASE ~(RemoveAndStop(a, "remove"))
    <3>1. MovesAlone(a)
      BY <1>8, <2>1, <2>2, <2>4, GotoMoves, FinishMoves DEF RemoveBegin, Locked, MovesAlone, InCritical
    <3>2. TouchesHandles(a)
      BY <1>8, <2>1, <2>4, Working, GotoMoves, FinishMoves DEF RemoveBegin, Locked, TouchesHandles,
         InCritical, TypeInv, TypeOK
    <3> QED
      BY <3>1, <3>2
  <2> QED
    BY <2>3, <2>4
<1>9. CASE ReplaceBegin(a)
  <2>1. pc[a] = "lock" /\ LockFree(job[a].id) /\ stage = "up" /\ ~InCritical(a)
    BY <1>9 DEF ReplaceBegin, Locked, InCritical
  <2>2. UNCHANGED <<stage, unscanned, batch, mode>>
    BY <1>9 DEF ReplaceBegin
  <2>3. CASE (RemoveAndStop(a, "replace"))
    <3>1. PICK op \in {"replace"} : RemoveAndStop(a, op)
      BY <2>3
    <3>2. /\ \A b \in Actor \ {a} : pc'[b] = pc[b] /\ job'[b] = job[b]
          /\ pc'[a] = "stop" /\ job'[a].op # "activate" /\ job'[a].id = job[a].id
          /\ \A p \in Plugin : handles'[p] = "none" \/ handles'[p] = handles[p]
          /\ handles'[job[a].id] = "none"
          /\ UNCHANGED <<orphans, drained>>
      BY <2>1, <3>1, RemoveMoves
    <3>3. MovesAlone(a)
      BY <2>1, <2>2, <3>2 DEF MovesAlone, InCritical
    <3>4. TouchesHandles(a)
      BY <3>2 DEF TouchesHandles, TypeInv, TypeOK
    <3> QED
      BY <3>3, <3>4
  <2>4. CASE ~(RemoveAndStop(a, "replace"))
    <3>1. MovesAlone(a)
      BY <1>9, <2>1, <2>2, <2>4, GotoMoves DEF ReplaceBegin, Locked, MovesAlone, InCritical
    <3>2. TouchesHandles(a)
      BY <1>9, <2>1, <2>4, Working, GotoMoves DEF ReplaceBegin, Locked, TouchesHandles,
         InCritical, TypeInv, TypeOK
    <3> QED
      BY <3>1, <3>2
  <2> QED
    BY <2>3, <2>4
<1>10. CASE StopDone(a)
  <2>1. pc[a] \notin {"idle", "done"}
    BY <1>10 DEF StopDone
  <2>2. MovesAlone(a)
    BY <1>10, <2>1, Working DEF StopDone, MovesAlone, InCritical
  <2>3. TouchesHandles(a)
    BY <1>10, <2>1, Working, Working DEF StopDone, TouchesHandles,
       InCritical, TypeInv, TypeOK
  <2> QED
    BY <2>2, <2>3
<1>11. CASE UnloadEnd(a)
  <2>1. pc[a] \notin {"idle", "done"}
    BY <1>11 DEF UnloadEnd, Resumed
  <2>2. MovesAlone(a)
    BY <1>11, <2>1, FinishMoves DEF UnloadEnd, Resumed, MovesAlone, InCritical
  <2>3. TouchesHandles(a)
    BY <1>11, <2>1, Working, FinishMoves DEF UnloadEnd, Resumed, TouchesHandles,
       InCritical, TypeInv, TypeOK
  <2> QED
    BY <2>2, <2>3
<1>12. CASE DeactivateEnd(a)
  <2>1. pc[a] \notin {"idle", "done"}
    BY <1>12 DEF DeactivateEnd, Resumed
  <2>2. MovesAlone(a)
    BY <1>12, <2>1, FinishMoves DEF DeactivateEnd, Resumed, MovesAlone, InCritical
  <2>3. TouchesHandles(a)
    BY <1>12, <2>1, Working, FinishMoves DEF DeactivateEnd, Resumed, TouchesHandles,
       InCritical, TypeInv, TypeOK
  <2> QED
    BY <2>2, <2>3
<1>13. CASE RemoveOk(a)
  <2>1. pc[a] \notin {"idle", "done"}
    BY <1>13 DEF RemoveOk, Resumed
  <2>2. MovesAlone(a)
    BY <1>13, <2>1, FinishMoves DEF RemoveOk, Resumed, MovesAlone, InCritical
  <2>3. TouchesHandles(a)
    BY <1>13, <2>1, Working, FinishMoves DEF RemoveOk, Resumed, TouchesHandles,
       InCritical, TypeInv, TypeOK
  <2> QED
    BY <2>2, <2>3
<1>14. CASE RemoveFail(a)
  <2>1. pc[a] \notin {"idle", "done"}
    BY <1>14 DEF RemoveFail, Resumed
  <2>2. MovesAlone(a)
    BY <1>14, <2>1, GotoMoves, FinishMoves DEF RemoveFail, Resumed, MovesAlone, InCritical
  <2>3. TouchesHandles(a)
    BY <1>14, <2>1, Working, GotoMoves, FinishMoves DEF RemoveFail, Resumed, TouchesHandles,
       InCritical, TypeInv, TypeOK
  <2> QED
    BY <2>2, <2>3
<1>15. CASE SwapOk(a)
  <2>1. pc[a] \notin {"idle", "done"}
    BY <1>15 DEF SwapOk, Resumed
  <2>2. MovesAlone(a)
    BY <1>15, <2>1, GotoMoves, FinishMoves DEF SwapOk, Resumed, MovesAlone, InCritical
  <2>3. TouchesHandles(a)
    BY <1>15, <2>1, Working, GotoMoves, FinishMoves DEF SwapOk, Resumed, TouchesHandles,
       InCritical, TypeInv, TypeOK
  <2> QED
    BY <2>2, <2>3
<1>16. CASE SwapFail(a)
  <2>1. pc[a] \notin {"idle", "done"}
    BY <1>16 DEF SwapFail, Resumed
  <2>2. MovesAlone(a)
    BY <1>16, <2>1, GotoMoves, FinishMoves DEF SwapFail, Resumed, MovesAlone, InCritical
  <2>3. TouchesHandles(a)
    BY <1>16, <2>1, Working, GotoMoves, FinishMoves DEF SwapFail, Resumed, TouchesHandles,
       InCritical, TypeInv, TypeOK
  <2> QED
    BY <2>2, <2>3
<1>17. CASE StartRejected(a)
  <2>1. pc[a] \notin {"idle", "done"}
    BY <1>17 DEF StartRejected
  <2>2. MovesAlone(a)
    BY <1>17, <2>1, FinishMoves DEF StartRejected, MovesAlone, InCritical
  <2>3. TouchesHandles(a)
    BY <1>17, <2>1, Working, FinishMoves DEF StartRejected, TouchesHandles,
       InCritical, TypeInv, TypeOK
  <2> QED
    BY <2>2, <2>3
<1>18. CASE Gate(a)
  <2>1. pc[a] \notin {"idle", "done"}
    BY <1>18 DEF Gate
  <2>2. MovesAlone(a)
    BY <1>18, <2>1, GotoMoves, FinishMoves DEF Gate, MovesAlone, InCritical
  <2>3. TouchesHandles(a)
    BY <1>18, <2>1, Working, GotoMoves, FinishMoves DEF Gate, TouchesHandles,
       InCritical, TypeInv, TypeOK
  <2> QED
    BY <2>2, <2>3
<1>19. CASE Insert(a)
  <2>1. pc[a] \notin {"idle", "done"}
    BY <1>19 DEF Insert
  <2>2. MovesAlone(a)
    BY <1>19, <2>1, FinishMoves DEF Insert, MovesAlone, InCritical
  <2>3. TouchesHandles(a)
    BY <1>19, <2>1, Working, FinishMoves DEF Insert, TouchesHandles,
       InCritical, TypeInv, TypeOK
  <2> QED
    BY <2>2, <2>3
<1> QED
  BY <1>1, <1>2, <1>3, <1>4, <1>5, <1>6, <1>7, <1>8, <1>9, <1>10, <1>11, <1>12, <1>13, <1>14, <1>15, <1>16, <1>17, <1>18, <1>19 DEF Transition

--------------------------------------------------------------------------------
\* Every step keeps IInv.

Protocol == LockInv /\ BootInv /\ EmptyInv /\ ShutdownInv

LEMMA ProtocolInit == Init => Protocol
  BY JobFields, ActorAssumption DEF Init, Protocol, LockInv, BootInv, EmptyInv, ShutdownInv,
     InCritical, HoldsBarrier, Actor, Booted

\* While the boot scan runs nobody else is in a transition.
LEMMA AloneAtBoot ==
  ASSUME IInv, NEW a \in Actor, pc[a] \notin {"idle", "done"}
  PROVE  a = Boot \/ Booted
  BY DEF IInv, BootInv

LEMMA TransitionKeeps ==
  ASSUME IInv, NEW a \in Actor, Transition(a)
  PROVE  Protocol'
<1>1. TypeInv /\ MovesAlone(a) /\ TouchesHandles(a)
  BY TransitionEffect DEF IInv
<1>2. LockInv'
  <2> SUFFICES ASSUME NEW b \in Actor, NEW c \in Actor, InCritical(b)', InCritical(c)',
                      job'[b].id = job'[c].id, b # c
               PROVE  FALSE
    BY DEF LockInv
  <2>1. ASSUME NEW d \in Actor \ {a}, InCritical(d)', InCritical(a)',
               job'[a].id = job'[d].id
        PROVE  FALSE
    <3>1. InCritical(d) /\ job[a].id = job[d].id
      BY <1>1, <2>1 DEF MovesAlone, InCritical
    <3>2. InCritical(a) \/ LockFree(job[a].id)
      BY <1>1, <2>1 DEF MovesAlone
    <3> QED
      BY <3>1, <3>2 DEF LockFree, IInv, LockInv
  <2>2. CASE b # a /\ c # a
    BY <1>1, <2>2 DEF MovesAlone, InCritical, IInv, LockInv
  <2> QED
    BY <2>1, <2>2
<1>3. BootInv'
  <2>1. CASE a = Boot
    <3>1. pc[Boot] \in {"start", "insert"} /\ Boot \notin Request /\ ~Booted
      BY <1>1, <2>1, ActorAssumption DEF IInv, BootInv, MovesAlone, Booted
    <3>2. pc'[Boot] \in {"idle", "insert"}
      BY <1>1, <2>1, <3>1 DEF MovesAlone
    <3>3. ASSUME NEW p \in unscanned PROVE handles'[p] = "none"
      <4>1. p \in Plugin /\ handles[p] = "none" /\ p # job[Boot].id
        BY <3>1 DEF IInv, BootInv, TypeInv, TypeOK
      <4> QED
        BY <1>1, <2>1, <4>1 DEF TouchesHandles
    <3>4. pc'[Boot] # "idle" => job'[Boot].id = job[Boot].id
      BY <1>1, <2>1, <3>2 DEF MovesAlone, InCritical
    <3> QED
      BY <1>1, <2>1, <3>1, <3>2, <3>3, <3>4 DEF MovesAlone, IInv, BootInv
  <2>2. CASE a # Boot
    <3>1. Booted
      BY <1>1, <2>2, AloneAtBoot DEF MovesAlone
    <3>2. pc'[Boot] = pc[Boot] /\ Booted'
      BY <1>1, <2>2, <3>1 DEF MovesAlone, Booted, Actor
    <3> QED
      BY <3>2 DEF IInv, BootInv
  <2> QED
    BY <2>1, <2>2
<1>4. EmptyInv'
  <2> SUFFICES ASSUME NEW b \in Actor
               PROVE  /\ job'[b].op = "activate" => b = Cfg
                      /\ InCritical(b)' /\ job'[b].op # "activate" =>
                            handles'[job'[b].id] = "none"
    BY DEF EmptyInv
  <2>1. CASE b = a
    BY <1>1, <2>1 DEF MovesAlone, TouchesHandles, IInv, EmptyInv
  <2>2. CASE b # a
    <3>1. job'[b] = job[b] /\ pc'[b] = pc[b]
      BY <1>1, <2>2 DEF MovesAlone
    <3>2. ASSUME InCritical(b), job[b].op # "activate" PROVE handles'[job[b].id] = "none"
      <4>1. job[b].id \in Plugin /\ handles[job[b].id] = "none"
        BY <1>1, <3>2, Working DEF InCritical, IInv, EmptyInv
      <4>2. ~(pc[a] = "insert" /\ job[b].id = job[a].id)
        BY <2>2, <3>2 DEF IInv, LockInv, InCritical
      <4> QED
        BY <1>1, <4>1, <4>2 DEF TouchesHandles
    <3> QED
      BY <3>1, <3>2 DEF InCritical, IInv, EmptyInv
  <2> QED
    BY <2>1, <2>2
<1>5. ShutdownInv'
  <2>1. stage' = stage /\ drained' = drained
    BY <1>1 DEF MovesAlone
  <2>2. ASSUME stage \in {"draining", "gone"}
        PROVE  /\ \A b \in Actor : ~HoldsBarrier(b)'
               /\ \A p \in Plugin : handles'[p] = "none"
    <3>1. Booted
      BY <2>2 DEF IInv, BootInv
    <3>2. a # Boot /\ pc[a] # "lock" /\ ~InCritical(a)
      BY <1>1, <2>2, <3>1 DEF IInv, ShutdownInv, HoldsBarrier, MovesAlone, Booted
    <3>3. pc'[a] # "lock" /\ ~InCritical(a)'
      BY <1>1, <2>2, <3>2 DEF MovesAlone
    <3>4. \A b \in Actor : ~HoldsBarrier(b)'
      BY <1>1, <2>2, <3>3 DEF MovesAlone, HoldsBarrier, InCritical, IInv, ShutdownInv
    <3>5. \A p \in Plugin : handles'[p] = "none"
      BY <1>1, <2>2, <3>2 DEF TouchesHandles, InCritical, IInv, ShutdownInv
    <3> QED
      BY <3>4, <3>5
  <2> QED
    BY <2>1, <2>2 DEF ShutdownInv, IInv
<1> QED
  BY <1>2, <1>3, <1>4, <1>5 DEF Protocol

\* A new job only waits for the barrier.
LEMMA BeginKeeps ==
  ASSUME IInv, Booted, NEW a \in Actor \ {Boot}, NEW op, NEW p \in Plugin,
         Begin(a, op, p), op = "activate" => a = Cfg,
         UNCHANGED <<unscanned, handles, stage, drained>>
  PROVE  Protocol'
<1>1. /\ \A b \in Actor \ {a} : pc'[b] = pc[b] /\ job'[b] = job[b]
      /\ pc'[a] = "barrier" /\ job'[a].op = op
  BY DEF Begin, IInv, TypeInv, TypeOK
<1>2. LockInv'
  BY <1>1 DEF IInv, LockInv, InCritical
<1>3. BootInv'
  BY <1>1 DEF IInv, BootInv, Booted, Actor
<1>4. EmptyInv'
  BY <1>1 DEF IInv, EmptyInv, InCritical
<1>5. ShutdownInv'
  BY <1>1 DEF IInv, ShutdownInv, HoldsBarrier, InCritical
<1> QED
  BY <1>2, <1>3, <1>4, <1>5 DEF Protocol

\* A step that leaves actors, handles and shutdown alone.
LEMMA StillKeeps ==
  ASSUME IInv, UNCHANGED <<pc, job, handles, drained, stage, unscanned>>,
         Booted \/ UNCHANGED <<batch, mode>>
  PROVE  Protocol'
  BY DEF IInv, Protocol, LockInv, BootInv, EmptyInv, ShutdownInv, InCritical,
     HoldsBarrier, Booted

LEMMA LoopsKeep ==
  ASSUME IInv, Loops
  PROVE  Protocol'
<1> USE DEF configVars, loopVars, diskVars, scanVars, taskVars, viewVars, actorVars
<1>0. /\ Boot \in Actor /\ Dir \in Actor \ {Boot} /\ Cfg \in Actor \ {Boot}
  BY ActorAssumption DEF Actor
<1>1. ASSUME NEW p \in Plugin, BootScan(p) PROVE Protocol'
  <2>1. /\ ~Booted /\ handles[p] = "none" /\ stage = "up" /\ stage' = stage
        /\ \A a \in Actor \ {Boot} : pc[a] = "idle"
        /\ batch' = {} /\ mode' = "recv" /\ handles' = handles
        /\ \A q \in unscanned : handles[q] = "none"
    BY <1>1 DEF BootScan, Booted, IInv, BootInv
  <2>2. /\ \A a \in Actor \ {Boot} : pc'[a] = pc[a] /\ job'[a] = job[a]
        /\ pc'[Boot] = "start" /\ job'[Boot].op = "boot" /\ job'[Boot].id = p
        /\ unscanned' = unscanned \ {p}
    BY <1>0, <1>1 DEF BootScan, IInv, TypeInv, TypeOK
  <2>3. LockInv'
    BY <2>1, <2>2 DEF LockInv, InCritical
  <2>4. BootInv'
    BY <2>1, <2>2 DEF BootInv
  <2>5. EmptyInv'
    BY <2>1, <2>2 DEF EmptyInv, InCritical, IInv
  <2>6. ShutdownInv'
    BY <2>1 DEF ShutdownInv
  <2> QED
    BY <2>3, <2>4, <2>5, <2>6 DEF Protocol
<1>2. ASSUME NEW p \in Plugin, DirNext(p) PROVE Protocol'
  <2>1. Booted
    BY <1>2 DEF DirNext, IInv, BootInv
  <2> QED
    BY <1>0, <1>2, <2>1, BeginKeeps DEF DirNext
<1>3. ASSUME NEW p \in Plugin, CfgDeactivate(p) PROVE Protocol'
  <2>1. Booted
    BY <1>3 DEF CfgDeactivate, IInv, BootInv
  <2> QED
    BY <1>0, <1>3, <2>1, BeginKeeps DEF CfgDeactivate
<1>4. ASSUME NEW p \in Plugin, CfgActivate(p) PROVE Protocol'
  <2>1. Booted
    BY <1>4 DEF CfgActivate, IInv, BootInv
  <2> QED
    BY <1>0, <1>4, <2>1, BeginKeeps DEF CfgActivate
<1>5. CASE DirTake
  BY <1>5, StillKeeps DEF DirTake
<1>6. CASE CfgRecv
  BY <1>6, StillKeeps DEF CfgRecv
<1>7. CASE CfgDrain
  BY <1>7, StillKeeps DEF CfgDrain
<1>8. CASE CfgResync
  <2>1. Booted
    BY <1>8 DEF CfgResync, IInv, BootInv
  <2> QED
    BY <1>8, <2>1, StillKeeps DEF CfgResync
<1>9. CASE CfgApplied
  <2>1. Booted
    BY <1>9 DEF CfgApplied, IInv, BootInv
  <2> QED
    BY <1>9, <2>1, StillKeeps DEF CfgApplied
<1> QED
  BY <1>1, <1>2, <1>3, <1>4, <1>5, <1>6, <1>7, <1>8, <1>9 DEF Loops

LEMMA OthersKeep ==
  ASSUME IInv, Shutdown \/ Environment \/ \E p \in Plugin : OrphanEnds(p)
  PROVE  Protocol'
<1> USE DEF configVars, loopVars, diskVars, scanVars, taskVars, viewVars, actorVars
<1>1. CASE Drain
  <2>1. Booted /\ UNCHANGED <<pc, job, unscanned>> /\ stage' = "draining"
    BY <1>1 DEF Drain, IInv, BootInv
  <2>2. /\ \A a \in Actor : ~HoldsBarrier(a)
        /\ \A p \in Plugin : handles'[p] = "none"
    BY <1>1 DEF Drain
  <2>3. \A a \in Actor : ~InCritical(a)
    BY <2>1, <2>2 DEF HoldsBarrier, InCritical, Booted
  <2> QED
    BY <2>1, <2>2, <2>3 DEF IInv, Protocol, LockInv, BootInv, EmptyInv,
       ShutdownInv, InCritical, HoldsBarrier, Booted
<1>2. CASE ShutdownDone
  <2>1. Booted /\ UNCHANGED <<pc, job, unscanned, handles, drained>>
    BY <1>2 DEF ShutdownDone, IInv, BootInv
  <2>2. stage = "draining" /\ stage' = "gone" /\ \A p \in Plugin : drained[p] = "none"
    BY <1>2 DEF ShutdownDone
  <2> QED
    BY <2>1, <2>2 DEF IInv, Protocol, LockInv, BootInv, EmptyInv, ShutdownInv,
       InCritical, HoldsBarrier, Booted
<1>3. ASSUME NEW p \in Plugin, StopDrained(p) PROVE Protocol'
  <2>1. stage = "draining" /\ UNCHANGED <<pc, job, unscanned, handles, stage>>
    BY <1>3 DEF StopDrained
  <2> QED
    BY <2>1 DEF IInv, Protocol, LockInv, BootInv, EmptyInv, ShutdownInv,
       InCritical, HoldsBarrier, Booted
<1>4. CASE EditConfig
  BY <1>4, StillKeeps DEF EditConfig
<1>5. CASE Cancel
  <2>1. Booted /\ stage' = "cancelled" /\ UNCHANGED <<pc, job, unscanned, handles>>
    BY <1>5 DEF Cancel
  <2> QED
    BY <2>1 DEF IInv, Protocol, LockInv, BootInv, EmptyInv, ShutdownInv,
       InCritical, HoldsBarrier, Booted
<1>6. ASSUME NEW p \in Plugin, EditDisk(p) PROVE Protocol'
  BY <1>6, StillKeeps DEF EditDisk
<1>7. ASSUME NEW p \in Plugin, Render(p) PROVE Protocol'
  BY <1>7, StillKeeps DEF Render
<1>8. ASSUME NEW p \in Plugin, GiveUp(p) PROVE Protocol'
  <2>1. UNCHANGED <<pc, job, unscanned, stage, drained, batch, mode>>
    BY <1>8 DEF GiveUp
  <2>2. \A q \in Plugin : handles[q] = "none" => handles'[q] = "none"
    BY <1>8 DEF GiveUp, IInv, TypeInv, TypeOK
  <2>3. LockInv'
    BY <2>1 DEF IInv, LockInv, InCritical
  <2>4. BootInv'
    BY <2>1, <2>2 DEF IInv, BootInv, Booted, TypeInv, TypeOK
  <2>5. EmptyInv'
    <3>1. ASSUME NEW a \in Actor, InCritical(a) PROVE job[a].id \in Plugin
      BY <3>1, Working DEF InCritical, IInv
    <3> QED
      BY <2>1, <2>2, <3>1 DEF IInv, EmptyInv, InCritical
  <2>6. ShutdownInv'
    BY <2>1, <2>2 DEF IInv, ShutdownInv, HoldsBarrier, InCritical
  <2> QED
    BY <2>3, <2>4, <2>5, <2>6 DEF Protocol
<1>9. ASSUME NEW r \in Request, Ask(r) PROVE Protocol'
  <2>1. PICK op \in {"restart", "remove", "replace"}, p \in Plugin : Begin(r, op, p)
    BY <1>9 DEF Ask
  <2>2. r \in Actor \ {Boot} /\ op # "activate"
    BY ActorAssumption DEF Actor
  <2> QED
    BY <1>9, <2>1, <2>2, BeginKeeps DEF Ask
<1>10. ASSUME NEW p \in Plugin, OrphanEnds(p) PROVE Protocol'
  BY <1>10, StillKeeps DEF OrphanEnds
<1> QED
  BY <1>1, <1>2, <1>3, <1>4, <1>5, <1>6, <1>7, <1>8, <1>9, <1>10
     DEF Shutdown, Environment

LEMMA IInvStep == IInv /\ [Next]_vars => IInv'
<1> SUFFICES ASSUME IInv, [Next]_vars PROVE IInv'
  OBVIOUS
<1>1. TypeInv'
  BY TypeStep DEF IInv
<1>2. CASE Next
  BY <1>1, <1>2, TransitionKeeps, LoopsKeep, OthersKeep DEF Next, IInv, Protocol
<1>3. CASE UNCHANGED vars
  BY <1>1, <1>3, StillKeeps DEF vars, configVars, loopVars, diskVars, scanVars,
     taskVars, viewVars, actorVars, IInv, Protocol
<1> QED
  BY <1>2, <1>3

\* The locks, the barrier and the boot scan keep their protocol in every
\* reachable state (lifecycle_guard, start, shutdown_all).
THEOREM ProtocolCorrect == Spec => []IInv
<1>1. Init => IInv
  BY TypeInit, ProtocolInit DEF IInv, Protocol
<1>2. IInv /\ [][Next]_vars => []IInv
  BY IInvStep, PTL
<1> QED
  BY <1>1, <1>2, PTL DEF Spec

\* When shutdown_all has returned, nothing is registered, drained or held by a
\* transition, for every number of plugins and requests.
THEOREM ShutdownLeavesNothingCorrect == Spec => []ShutdownLeavesNothing
<1>1. IInv => ShutdownLeavesNothing
  <2> SUFFICES ASSUME IInv, stage = "gone" PROVE ShutdownLeavesNothing
    BY DEF ShutdownLeavesNothing
  <2>1. \A a \in Actor : ~InCritical(a)
    BY DEF IInv, ShutdownInv, BootInv, HoldsBarrier, InCritical, Booted
  <2> QED
    BY <2>1 DEF IInv, ShutdownInv, TypeInv, JobInv, ShutdownLeavesNothing
<1> QED
  BY ProtocolCorrect, <1>1, PTL

\* Only a re-activation can start an instance beside a live one, for every
\* number of plugins and requests.
THEOREM OnlyActivationOverwritesCorrect == Spec => OnlyActivationOverwrites
<1> DEFINE Step == \A p \in Plugin : orphans'[p] > orphans[p] =>
          /\ pc[Cfg] = "insert"
          /\ job[Cfg].op = "activate" /\ job[Cfg].id = p
<1>1. IInv /\ [Next]_vars => Step
  <2> SUFFICES ASSUME IInv, [Next]_vars, NEW p \in Plugin, orphans'[p] > orphans[p]
               PROVE  /\ pc[Cfg] = "insert"
                      /\ job[Cfg].op = "activate" /\ job[Cfg].id = p
    OBVIOUS
  <2>1. orphans[p] \in Nat
    BY DEF IInv, TypeInv, TypeOK
  <2>2. ASSUME NEW a \in Actor, Transition(a) PROVE pc[Cfg] = "insert"
                      /\ job[Cfg].op = "activate" /\ job[Cfg].id = p
    <3>1. pc[a] = "insert" /\ p = job[a].id /\ handles[p] = "live"
      BY <2>2, TransitionEffect DEF IInv, TouchesHandles
    <3>2. job[a].op = "activate" /\ a = Cfg
      BY <3>1 DEF IInv, EmptyInv, InCritical
    <3> QED
      BY <3>1, <3>2
  <2>3. ASSUME orphans' = orphans PROVE FALSE
    BY <2>1, <2>3
  <2>4. ASSUME NEW q \in Plugin, OrphanEnds(q) PROVE FALSE
    BY <2>1, <2>4 DEF OrphanEnds, IInv, TypeInv, TypeOK
  <2>5. ASSUME Loops \/ Shutdown \/ Environment \/ UNCHANGED vars PROVE FALSE
    BY <2>3, <2>5 DEF Loops, Shutdown, Environment, vars, taskVars, BootScan, DirNext,
       CfgDeactivate, CfgActivate, DirTake, CfgRecv, CfgDrain, CfgResync,
       CfgApplied, Drain, ShutdownDone, StopDrained, EditConfig, Cancel,
       EditDisk, Render, GiveUp, Ask
  <2> QED
    BY <2>2, <2>4, <2>5 DEF Next
<1>2. [Next]_vars /\ IInv => [Step]_vars
  BY <1>1
<1> QED
  BY ProtocolCorrect, <1>2, PTL DEF Spec, OnlyActivationOverwrites

--------------------------------------------------------------------------------
\* What ConvergesWhenSettled rests on: the chain of config snapshots the loop
\* follows, and what somebody is about to see to.

\* The config that the config loop compares the next one with.
Base == IF mode = "apply" THEN next ELSE applied

\* The config loop brings its plugins from one snapshot to the next, and as
\* long as none was lost the snapshots end in the config there is.
LoopInv ==
    /\ Len(queue) <= QueueCap
    /\ lagged \/ mode = "resync" => everLagged
    /\ mode # "apply" => toOff = {} /\ toOn = {} /\ pc[Cfg] = "idle"
    /\ toOff \subseteq next /\ toOn \cap next = {}
    /\ \A a \in Actor :
          /\ job[a].op = "deactivate" => a = Cfg /\ job[a].id \in next
          /\ job[a].op = "activate" => a = Cfg /\ job[a].id \notin next
    /\ ~everLagged => IF queue = <<>> THEN Base = off
                                      ELSE queue[Len(queue)] = off

\* The loop has still to see p switched off, or is about to stop it; the same
\* for a plugin switched on.
Awaits(op, p) ==
    job[Cfg].op = op /\ job[Cfg].id = p /\ pc[Cfg] \in {"barrier", "lock"}
OwesStop(p) ==
    \/ p \in toOff \/ Awaits("deactivate", p)
    \/ p \notin Base \/ \E i \in 1 .. Len(queue) : p \notin queue[i]
OwesStart(p) ==
    \/ p \in toOn \/ Awaits("activate", p)
    \/ p \in Base \/ \E i \in 1 .. Len(queue) : p \in queue[i]

\* The folder loop has still to look at p.
Looks(p) ==
    job[Dir].op = "reload" /\ job[Dir].id = p /\ pc[Dir] \in {"barrier", "lock"}
OwesLook(p) == p \in dirty \cup batch \/ Looks(p)

\* A transition that ends in a start of p, or in p being filed.
Starting(a, p) ==
    /\ job[a].id = p
    /\ \/ pc[a] \in {"start", "insert"}
       \/ /\ pc[a] = "stop"
          /\ job[a].op \in {"restart", "reload", "deactivate", "remove", "replace"}
       \/ /\ pc[a] = "resume"
          /\ \/ job[a].op \in {"deactivate", "remove"}
             \/ job[a].op = "replace" /\ job[a].victim # "none"

\* A transition that starts p whatever becomes of its manifest.
Committed(a, p) ==
    /\ job[a].id = p
    /\ \/ pc[a] = "insert"
       \/ job[a].op = "reload" /\ pc[a] = "stop"
       \/ job[a].op = "reload" /\ pc[a] = "start" /\ job[a].victim # "none"

Inserting(a, p) == job[a].id = p /\ pc[a] = "insert"

OffIsStopped(p) ==
    p \in off /\ (handles[p] # "none" \/ \E a \in Actor : Inserting(a, p))
        => OwesStop(p)
OnIsUnfiled(p) == p \notin off /\ p \in filed => OwesStart(p)
GoodIsKept(p) ==
    disk[p] = Good => \/ p \in filed \/ handles[p] # "none" \/ p \in unscanned
                      \/ OwesLook(p) \/ \E a \in Actor : Starting(a, p)
GoneIsStopped(p) ==
    disk[p].manifest = "none"
    /\ (handles[p] # "none" \/ \E a \in Actor : Committed(a, p)) => OwesLook(p)

\* Whatever p is out of step with, somebody is about to see to it.
Owed(p) == OffIsStopped(p) /\ OnIsUnfiled(p) /\ GoodIsKept(p) /\ GoneIsStopped(p)

\* ConvergesWhenSettled speaks of the states in which nothing was lost.
Trusted == stage = "up" /\ ~everLagged /\ (HotReload \/ edits["disk"] = 0)

OwedInv == Trusted => \A p \in Plugin : Owed(p)

--------------------------------------------------------------------------------
\* What a config write and a received snapshot do to the queue.

LEMMA AppendFacts ==
  ASSUME NEW S, NEW q \in Seq(S), NEW s \in S
  PROVE  /\ Append(q, s) \in Seq(S) /\ Append(q, s) # <<>>
         /\ Len(Append(q, s)) = Len(q) + 1 /\ Append(q, s)[Len(q) + 1] = s
         /\ \A i \in 1 .. Len(q) : Append(q, s)[i] = q[i]
  OBVIOUS

LEMMA TailFacts ==
  ASSUME NEW S, NEW q \in Seq(S), q # <<>>
  PROVE  /\ Tail(q) \in Seq(S) /\ Len(q) \in Nat /\ Len(q) >= 1
         /\ Len(Tail(q)) = Len(q) - 1 /\ Head(q) = q[1]
         /\ \A i \in 2 .. Len(q) : Tail(q)[i - 1] = q[i]
         /\ Tail(q) = <<>> => Len(q) = 1
         /\ Tail(q) # <<>> => Len(q) >= 2 /\ Tail(q)[Len(Tail(q))] = q[Len(q)]
<1>1. Len(q) \in Nat /\ Len(q) >= 1 /\ Len(Tail(q)) = Len(q) - 1 /\ Head(q) = q[1]
      /\ Tail(q) \in Seq(S)
  OBVIOUS
<1>2. \A i \in 2 .. Len(q) : Tail(q)[i - 1] = q[i]
  OBVIOUS
<1>3. Tail(q) = <<>> <=> Len(Tail(q)) = 0
  <2>1. \A s \in Seq(S) : s = <<>> <=> Len(s) = 0
    OBVIOUS
  <2> QED
    BY <1>1, <2>1
<1>4. ASSUME Tail(q) # <<>> PROVE Len(q) >= 2 /\ Tail(q)[Len(Tail(q))] = q[Len(q)]
  <2>1. Len(q) \in 2 .. Len(q) /\ Len(Tail(q)) = Len(q) - 1
    BY <1>1, <1>3, <1>4
  <2> QED
    BY <1>1, <1>2, <2>1
<1> QED
  BY <1>1, <1>2, <1>3, <1>4

\* A config write leaves the channel within its capacity.
LEMMA PublishFits ==
  ASSUME TypeInv, LoopInv, NEW new \in SUBSET Plugin, Publish(new)
  PROVE  Len(queue') <= QueueCap
<1>1. queue \in Seq(SUBSET Plugin) /\ Len(queue) \in Nat /\ QueueCap \in Nat \ {0}
      /\ Len(queue) <= QueueCap
  BY BoundAssumption DEF TypeInv, TypeOK, LoopInv
<1>2. CASE Len(queue) < QueueCap
  <2>1. queue' = Append(queue, new)
    BY <1>2 DEF Publish
  <2> QED
    BY <1>1, <1>2, <2>1, AppendFacts
<1>3. CASE ~(Len(queue) < QueueCap)
  <2>1. queue' = Append(Tail(queue), new) /\ queue # <<>>
    BY <1>1, <1>3 DEF Publish
  <2>2. Tail(queue) \in Seq(SUBSET Plugin) /\ Len(Tail(queue)) = Len(queue) - 1
    BY <1>1, <2>1, TailFacts
  <2>3. Len(Append(Tail(queue), new)) = Len(Tail(queue)) + 1
    BY <2>2, AppendFacts
  <2> QED
    BY <1>1, <2>1, <2>2, <2>3
<1> QED
  BY <1>2, <1>3

\* Unless the receiver is overrun, a config write appends.
LEMMA PublishAppends ==
  ASSUME TypeInv, LoopInv, NEW new \in SUBSET Plugin, Publish(new), ~everLagged'
  PROVE  /\ ~everLagged /\ off' = new /\ queue' = Append(queue, new)
         /\ lagged' = lagged
<1>1. queue \in Seq(SUBSET Plugin) /\ Len(queue) \in Nat /\ QueueCap \in Nat
      /\ Len(queue) <= QueueCap
  BY BoundAssumption DEF TypeInv, TypeOK, LoopInv
<1>2. ~everLagged /\ ~(Len(queue) = QueueCap)
  BY DEF Publish
<1>3. Len(queue) < QueueCap
  BY <1>1, <1>2
<1> QED
  BY <1>2, <1>3 DEF Publish, TypeInv, TypeOK

\* The channel's part of LoopInv after a config write.
LEMMA PublishChains ==
  ASSUME TypeInv, LoopInv, NEW new \in SUBSET Plugin, Publish(new), ~everLagged'
  PROVE  queue' # <<>> /\ queue'[Len(queue')] = off'
<1>1. queue \in Seq(SUBSET Plugin) /\ queue' = Append(queue, new) /\ off' = new
  BY PublishAppends DEF TypeInv, TypeOK
<1> QED
  BY <1>1, AppendFacts

--------------------------------------------------------------------------------
\* What one step of a transition leaves alone.

\* The transition stays one of its operation and its plugin, unless it ends.
SameJob(a) ==
    \/ job'[a] = NoJob
    \/ job'[a].id = job[a].id /\ job'[a].op \in {job[a].op, "unload"}

\* Every other plugin's folder, handle and record stays as it is, no folder
\* event gets lost, and a config write takes at most its own plugin off the list.
LocalStep(a) ==
    /\ UNCHANGED <<loopVars, scanVars, stage, edits>>
    /\ UNCHANGED configVars \/ Publish(off \ {job[a].id})
    /\ dirty \subseteq dirty'
    /\ \A q \in Plugin \ {job[a].id} :
          handles'[q] = handles[q] /\ disk'[q] = disk[q] /\ (q \in filed' <=> q \in filed)
    /\ SameJob(a)

LEMMA FinishEnds ==
  ASSUME TypeInv, NEW a \in Actor, Finish(a)
  PROVE  SameJob(a)
  BY DEF Finish, TypeInv, TypeOK, SameJob

LEMMA GotoStays ==
  ASSUME NEW a \in Actor, NEW label, Goto(a, label)
  PROVE  SameJob(a)
  BY DEF Goto, SameJob

LEMMA RemoveStays ==
  ASSUME TypeInv, NEW a \in Actor, pc[a] \notin {"idle", "done"}, NEW op,
         RemoveAndStop(a, op), op \in {job[a].op, "unload"}
  PROVE  /\ SameJob(a)
         /\ \A q \in Plugin \ {job[a].id} : handles'[q] = handles[q]
  BY Working DEF RemoveAndStop, TypeInv, TypeOK, SameJob

LEMMA TouchKeeps ==
  ASSUME TypeInv, NEW p, Touch(p)
  PROVE  dirty \subseteq dirty'
  BY DEF Touch

LEMMA TransitionLocal ==
  ASSUME TypeInv, NEW a \in Actor, Transition(a)
  PROVE  LocalStep(a)
<1> USE DEF configVars, loopVars, diskVars, scanVars, taskVars, viewVars
<1>1. CASE Enter(a)
  <2>1. pc[a] \notin {"idle", "done"}
    BY <1>1 DEF Enter
  <2>2. SameJob(a) /\ \A q \in Plugin \ {job[a].id} : handles'[q] = handles[q]
    BY <1>1, FinishEnds, GotoStays, Working, <2>1 DEF Enter, TypeInv, TypeOK
  <2> QED
    BY <1>1, <2>2 DEF Enter, LocalStep
<1>2. CASE Refused(a)
  <2>1. pc[a] \notin {"idle", "done"}
    BY <1>2 DEF Refused
  <2>2. SameJob(a) /\ \A q \in Plugin \ {job[a].id} : handles'[q] = handles[q]
    BY <1>2, FinishEnds, GotoStays, Working, <2>1 DEF Refused, TypeInv, TypeOK
  <2> QED
    BY <1>2, <2>2 DEF Refused, LocalStep
<1>3. CASE RestartBegin(a)
  <2>1. pc[a] \notin {"idle", "done"}
    BY <1>3 DEF RestartBegin, Locked
  <2>2. SameJob(a) /\ \A q \in Plugin \ {job[a].id} : handles'[q] = handles[q]
    <3>1. CASE RemoveAndStop(a, "restart")
      BY <1>3, <2>1, <3>1, RemoveStays DEF RestartBegin, Locked
    <3>2. CASE ~(RemoveAndStop(a, "restart"))
      BY <1>3, <3>2, FinishEnds, GotoStays DEF RestartBegin, Locked, TypeInv, TypeOK
    <3> QED
      BY <3>1, <3>2
  <2> QED
    BY <1>3, <2>2 DEF RestartBegin, Locked, LocalStep
<1>4. CASE DeactivateBegin(a)
  <2>1. pc[a] \notin {"idle", "done"}
    BY <1>4 DEF DeactivateBegin, Locked
  <2>2. SameJob(a) /\ \A q \in Plugin \ {job[a].id} : handles'[q] = handles[q]
    <3>1. CASE RemoveAndStop(a, "deactivate")
      BY <1>4, <2>1, <3>1, RemoveStays DEF DeactivateBegin, Locked
    <3>2. CASE ~(RemoveAndStop(a, "deactivate"))
      BY <1>4, <3>2, FinishEnds, GotoStays DEF DeactivateBegin, Locked, TypeInv, TypeOK
    <3> QED
      BY <3>1, <3>2
  <2> QED
    BY <1>4, <2>2 DEF DeactivateBegin, Locked, LocalStep
<1>5. CASE ActivateBegin(a)
  <2>1. pc[a] \notin {"idle", "done"}
    BY <1>5 DEF ActivateBegin, Locked
  <2>2. SameJob(a) /\ \A q \in Plugin \ {job[a].id} : handles'[q] = handles[q]
    BY <1>5, FinishEnds, GotoStays, Working, <2>1 DEF ActivateBegin, Locked, TypeInv, TypeOK
  <2> QED
    BY <1>5, <2>2 DEF ActivateBegin, Locked, LocalStep
<1>6. CASE ReloadRunning(a)
  <2>1. pc[a] \notin {"idle", "done"}
    BY <1>6 DEF ReloadRunning, Locked
  <2>2. SameJob(a) /\ \A q \in Plugin \ {job[a].id} : handles'[q] = handles[q]
    <3>1. CASE RemoveAndStop(a, "reload") \/ RemoveAndStop(a, "unload")
      BY <1>6, <2>1, <3>1, RemoveStays DEF ReloadRunning, Locked
    <3>2. CASE ~(RemoveAndStop(a, "reload") \/ RemoveAndStop(a, "unload"))
      BY <1>6, <3>2, FinishEnds, GotoStays DEF ReloadRunning, Locked, TypeInv, TypeOK
    <3> QED
      BY <3>1, <3>2
  <2> QED
    BY <1>6, <2>2 DEF ReloadRunning, Locked, LocalStep
<1>7. CASE ReloadIdle(a)
  <2>1. pc[a] \notin {"idle", "done"}
    BY <1>7 DEF ReloadIdle, Locked
  <2>2. SameJob(a) /\ \A q \in Plugin \ {job[a].id} : handles'[q] = handles[q]
    BY <1>7, FinishEnds, GotoStays, Working, <2>1 DEF ReloadIdle, Locked, TypeInv, TypeOK
  <2> QED
    BY <1>7, <2>2 DEF ReloadIdle, Locked, LocalStep
<1>8. CASE RemoveBegin(a)
  <2>1. pc[a] \notin {"idle", "done"}
    BY <1>8 DEF RemoveBegin, Locked
  <2>2. SameJob(a) /\ \A q \in Plugin \ {job[a].id} : handles'[q] = handles[q]
    <3>1. CASE RemoveAndStop(a, "remove")
      BY <1>8, <2>1, <3>1, RemoveStays DEF RemoveBegin, Locked
    <3>2. CASE ~(RemoveAndStop(a, "remove"))
      BY <1>8, <3>2, FinishEnds, GotoStays DEF RemoveBegin, Locked, TypeInv, TypeOK
    <3> QED
      BY <3>1, <3>2
  <2> QED
    BY <1>8, <2>2 DEF RemoveBegin, Locked, LocalStep
<1>9. CASE ReplaceBegin(a)
  <2>1. pc[a] \notin {"idle", "done"}
    BY <1>9 DEF ReplaceBegin, Locked
  <2>2. SameJob(a) /\ \A q \in Plugin \ {job[a].id} : handles'[q] = handles[q]
    <3>1. CASE RemoveAndStop(a, "replace")
      BY <1>9, <2>1, <3>1, RemoveStays DEF ReplaceBegin, Locked
    <3>2. CASE ~(RemoveAndStop(a, "replace"))
      BY <1>9, <3>2, FinishEnds, GotoStays DEF ReplaceBegin, Locked, TypeInv, TypeOK
    <3> QED
      BY <3>1, <3>2
  <2> QED
    BY <1>9, <2>2 DEF ReplaceBegin, Locked, LocalStep
<1>10. CASE StopDone(a)
  <2>1. pc[a] \notin {"idle", "done"}
    BY <1>10 DEF StopDone
  <2>2. SameJob(a) /\ \A q \in Plugin \ {job[a].id} : handles'[q] = handles[q]
    BY <1>10, <2>1 DEF StopDone, TypeInv, TypeOK, SameJob
  <2> QED
    BY <1>10, <2>2 DEF StopDone, LocalStep
<1>11. CASE UnloadEnd(a)
  <2>1. pc[a] \notin {"idle", "done"}
    BY <1>11 DEF UnloadEnd, Resumed
  <2>2. SameJob(a) /\ \A q \in Plugin \ {job[a].id} : handles'[q] = handles[q]
    BY <1>11, FinishEnds, GotoStays, Working, <2>1 DEF UnloadEnd, Resumed, TypeInv, TypeOK
  <2> QED
    BY <1>11, <2>2 DEF UnloadEnd, Resumed, LocalStep
<1>12. CASE DeactivateEnd(a)
  <2>1. pc[a] \notin {"idle", "done"}
    BY <1>12 DEF DeactivateEnd, Resumed
  <2>2. SameJob(a) /\ \A q \in Plugin \ {job[a].id} : handles'[q] = handles[q]
    BY <1>12, FinishEnds, GotoStays, Working, <2>1 DEF DeactivateEnd, Resumed, TypeInv, TypeOK
  <2> QED
    BY <1>12, <2>2 DEF DeactivateEnd, Resumed, LocalStep
<1>13. CASE RemoveOk(a)
  <2>1. pc[a] \notin {"idle", "done"}
    BY <1>13 DEF RemoveOk, Resumed
  <2>2. SameJob(a) /\ \A q \in Plugin \ {job[a].id} : handles'[q] = handles[q]
    BY <1>13, FinishEnds, GotoStays, Working, <2>1 DEF RemoveOk, Resumed, TypeInv, TypeOK
  <2>3. dirty \subseteq dirty' /\ \A q \in Plugin \ {job[a].id} : disk'[q] = disk[q]
    BY <1>13, TouchKeeps DEF RemoveOk, Resumed, TypeInv, TypeOK
  <2> QED
    BY <1>13, <2>2, <2>3 DEF RemoveOk, Resumed, LocalStep
<1>14. CASE RemoveFail(a)
  <2>1. pc[a] \notin {"idle", "done"}
    BY <1>14 DEF RemoveFail, Resumed
  <2>2. SameJob(a) /\ \A q \in Plugin \ {job[a].id} : handles'[q] = handles[q]
    BY <1>14, FinishEnds, GotoStays, Working, <2>1 DEF RemoveFail, Resumed, TypeInv, TypeOK
  <2>3. dirty \subseteq dirty' /\ \A q \in Plugin \ {job[a].id} : disk'[q] = disk[q]
    BY <1>14, TouchKeeps DEF RemoveFail, Resumed, TypeInv, TypeOK
  <2> QED
    BY <1>14, <2>2, <2>3 DEF RemoveFail, Resumed, LocalStep
<1>15. CASE SwapOk(a)
  <2>1. pc[a] \notin {"idle", "done"}
    BY <1>15 DEF SwapOk, Resumed
  <2>2. SameJob(a) /\ \A q \in Plugin \ {job[a].id} : handles'[q] = handles[q]
    BY <1>15, FinishEnds, GotoStays, Working, <2>1 DEF SwapOk, Resumed, TypeInv, TypeOK
  <2>3. dirty \subseteq dirty' /\ \A q \in Plugin \ {job[a].id} : disk'[q] = disk[q]
    BY <1>15, TouchKeeps DEF SwapOk, Resumed, TypeInv, TypeOK
  <2> QED
    BY <1>15, <2>2, <2>3 DEF SwapOk, Resumed, LocalStep
<1>16. CASE SwapFail(a)
  <2>1. pc[a] \notin {"idle", "done"}
    BY <1>16 DEF SwapFail, Resumed
  <2>2. SameJob(a) /\ \A q \in Plugin \ {job[a].id} : handles'[q] = handles[q]
    BY <1>16, FinishEnds, GotoStays, Working, <2>1 DEF SwapFail, Resumed, TypeInv, TypeOK
  <2>3. dirty \subseteq dirty' /\ \A q \in Plugin \ {job[a].id} : disk'[q] = disk[q]
    BY <1>16, TouchKeeps DEF SwapFail, Resumed, TypeInv, TypeOK
  <2> QED
    BY <1>16, <2>2, <2>3 DEF SwapFail, Resumed, LocalStep
<1>17. CASE StartRejected(a)
  <2>1. pc[a] \notin {"idle", "done"}
    BY <1>17 DEF StartRejected
  <2>2. SameJob(a) /\ \A q \in Plugin \ {job[a].id} : handles'[q] = handles[q]
    BY <1>17, FinishEnds, GotoStays, Working, <2>1 DEF StartRejected, TypeInv, TypeOK
  <2> QED
    BY <1>17, <2>2 DEF StartRejected, LocalStep
<1>18. CASE Gate(a)
  <2>1. pc[a] \notin {"idle", "done"}
    BY <1>18 DEF Gate
  <2>2. SameJob(a) /\ \A q \in Plugin \ {job[a].id} : handles'[q] = handles[q]
    BY <1>18, FinishEnds, GotoStays, Working, <2>1 DEF Gate, TypeInv, TypeOK
  <2> QED
    BY <1>18, <2>2 DEF Gate, LocalStep
<1>19. CASE Insert(a)
  <2>1. pc[a] \notin {"idle", "done"}
    BY <1>19 DEF Insert
  <2>2. SameJob(a) /\ \A q \in Plugin \ {job[a].id} : handles'[q] = handles[q]
    BY <1>19, FinishEnds, GotoStays, Working, <2>1 DEF Insert, TypeInv, TypeOK
  <2> QED
    BY <1>19, <2>2 DEF Insert, LocalStep
<1> QED
  BY <1>1, <1>2, <1>3, <1>4, <1>5, <1>6, <1>7, <1>8, <1>9, <1>10, <1>11, <1>12, <1>13, <1>14, <1>15, <1>16, <1>17, <1>18, <1>19 DEF Transition

--------------------------------------------------------------------------------
\* LoopInv is inductive.

LEMMA LoopInit == Init => LoopInv
  BY JobFields, BoundAssumption DEF Init, LoopInv, Base, Actor

\* A step that leaves the config loop and the jobs it asks for alone, and
\* writes the config at most once.
LEMMA LoopStays ==
  ASSUME IInv, LoopInv, UNCHANGED loopVars, mode # "apply" => pc'[Cfg] = pc[Cfg],
         UNCHANGED configVars \/ \E new \in SUBSET Plugin : Publish(new),
         \A b \in Actor : job'[b].op \in {"deactivate", "activate"} =>
                             job'[b].op = job[b].op /\ job'[b].id = job[b].id
  PROVE  LoopInv'
<1> USE DEF configVars, loopVars
<1>1. CASE UNCHANGED configVars
  <2>1. Base' = Base
    BY DEF Base
  <2> QED
    BY <1>1, <2>1 DEF LoopInv
<1>2. ASSUME NEW new \in SUBSET Plugin, Publish(new) PROVE LoopInv'
  <2>1. Len(queue') <= QueueCap
    BY <1>2, PublishFits DEF IInv
  <2>2. lagged' \/ mode' = "resync" => everLagged'
    BY <1>2 DEF Publish, LoopInv
  <2>3. ~everLagged' => queue' # <<>> /\ queue'[Len(queue')] = off'
    BY <1>2, PublishChains DEF IInv
  <2> QED
    BY <2>1, <2>2, <2>3 DEF LoopInv
<1> QED
  BY <1>1, <1>2

LEMMA LoopTransition ==
  ASSUME IInv, LoopInv, NEW a \in Actor, Transition(a)
  PROVE  LoopInv'
<1>1. LocalStep(a) /\ MovesAlone(a)
  BY TransitionLocal, TransitionEffect DEF IInv
<1>2. UNCHANGED loopVars
      /\ (UNCHANGED configVars \/ \E new \in SUBSET Plugin : Publish(new))
  <2>1. off \ {job[a].id} \in SUBSET Plugin
    BY DEF IInv, TypeInv, TypeOK
  <2> QED
    BY <1>1, <2>1 DEF LocalStep
<1>3. mode # "apply" => pc'[Cfg] = pc[Cfg]
  <2>1. Cfg \in Actor /\ (mode # "apply" => a # Cfg)
    BY <1>1 DEF Actor, LoopInv, MovesAlone
  <2> QED
    BY <1>1, <2>1 DEF MovesAlone
<1>4. \A b \in Actor : job'[b].op \in {"deactivate", "activate"} =>
                             job'[b].op = job[b].op /\ job'[b].id = job[b].id
  BY <1>1, JobFields DEF LocalStep, MovesAlone, SameJob
<1> QED
  BY <1>2, <1>3, <1>4, LoopStays

LEMMA LoopLoops ==
  ASSUME IInv, LoopInv, Loops
  PROVE  LoopInv'
<1> USE DEF configVars, loopVars, diskVars, scanVars, taskVars, viewVars, actorVars
<1>0. /\ Boot \in Actor /\ Dir \in Actor /\ Cfg \in Actor
      /\ Boot # Dir /\ Dir # Cfg /\ Cfg # Boot
  BY ActorAssumption DEF Actor
<1>1. ASSUME NEW p \in Plugin, BootScan(p) PROVE LoopInv'
  <2>1. UNCHANGED configVars /\ UNCHANGED loopVars
        /\ pc' = [pc EXCEPT ![Boot] = "start"]
        /\ job' = [job EXCEPT ![Boot] = [op |-> "boot", id |-> p, victim |-> "none"]]
    BY <1>1 DEF BootScan
  <2>2. pc'[Cfg] = pc[Cfg] /\ \A b \in Actor : job'[b] = job[b] \/ job'[b].op = "boot"
    BY <1>0, <2>1 DEF IInv, TypeInv, TypeOK
  <2> QED
    BY <2>1, <2>2, LoopStays
<1>2. ASSUME NEW p \in Plugin, DirNext(p) PROVE LoopInv'
  <2>1. UNCHANGED configVars /\ UNCHANGED loopVars
    BY <1>2 DEF DirNext
  <2>2. pc'[Cfg] = pc[Cfg] /\ \A b \in Actor : job'[b] = job[b] \/ job'[b].op = "reload"
    BY <1>0, <1>2 DEF DirNext, Begin, IInv, TypeInv, TypeOK
  <2> QED
    BY <2>1, <2>2, LoopStays
<1>3. ASSUME NEW p \in Plugin, CfgDeactivate(p) PROVE LoopInv'
  <2>1. /\ mode = "apply" /\ mode' = mode /\ p \in next /\ next' = next
        /\ toOff' = toOff \ {p} /\ toOn' = toOn
        /\ Base' = Base /\ UNCHANGED configVars
    BY <1>3 DEF CfgDeactivate, LoopInv, Base
  <2>2. \A b \in Actor : \/ job'[b] = job[b]
                         \/ b = Cfg /\ job'[b].op = "deactivate" /\ job'[b].id = p
    BY <1>0, <1>3 DEF CfgDeactivate, Begin, IInv, TypeInv, TypeOK
  <2> QED
    BY <2>1, <2>2 DEF LoopInv
<1>4. ASSUME NEW p \in Plugin, CfgActivate(p) PROVE LoopInv'
  <2>1. /\ mode = "apply" /\ mode' = mode /\ p \notin next /\ next' = next
        /\ toOn' = toOn \ {p} /\ toOff' = toOff
        /\ Base' = Base /\ UNCHANGED configVars
    BY <1>4 DEF CfgActivate, LoopInv, Base
  <2>2. \A b \in Actor : \/ job'[b] = job[b]
                         \/ b = Cfg /\ job'[b].op = "activate" /\ job'[b].id = p
    BY <1>0, <1>4 DEF CfgActivate, Begin, IInv, TypeInv, TypeOK
  <2> QED
    BY <2>1, <2>2 DEF LoopInv
<1>5. CASE DirTake
  BY <1>5, LoopStays DEF DirTake
<1>6. CASE CfgRecv
  <2>1. /\ mode = "recv" /\ mode' = "apply" /\ queue # <<>> /\ queue' = Tail(queue)
        /\ next' = Head(queue) /\ toOff' = next' \ applied /\ toOn' = applied \ next'
        /\ Base' = Head(queue) /\ UNCHANGED <<off, lagged, everLagged, pc, job>>
    BY <1>6 DEF CfgRecv, Apply, Base
  <2>2. \A b \in Actor : job[b].op \notin {"deactivate", "activate"}
    <3>1. job[Cfg] = NoJob
      BY <1>0, <2>1 DEF LoopInv, IInv, TypeInv, JobInv
    <3> QED
      BY <3>1, JobFields DEF LoopInv
  <2>3. queue \in Seq(SUBSET Plugin)
    BY DEF IInv, TypeInv, TypeOK
  <2>4. ~everLagged => IF Tail(queue) = <<>> THEN Head(queue) = off
                                             ELSE Tail(queue)[Len(Tail(queue))] = off
    BY <2>1, <2>3, TailFacts DEF LoopInv
  <2>5. Len(Tail(queue)) <= QueueCap
    BY <2>1, <2>3, TailFacts, BoundAssumption DEF LoopInv
  <2> QED
    BY <2>1, <2>2, <2>4, <2>5 DEF LoopInv
<1>7. CASE CfgDrain
  <2>1. /\ everLagged /\ everLagged' = everLagged /\ queue' = <<>> /\ ~lagged'
        /\ mode # "apply" /\ mode' = "resync"
        /\ UNCHANGED <<toOff, toOn, next, pc, job>>
    BY <1>7 DEF CfgDrain, LoopInv
  <2>2. Len(queue') = 0
    BY <2>1
  <2> QED
    BY <2>1, <2>2, BoundAssumption DEF LoopInv
<1>8. CASE CfgResync
  <2>1. /\ everLagged /\ everLagged' = everLagged /\ queue' = queue /\ lagged' = lagged
        /\ mode # "apply" /\ mode' = "apply" /\ next' = off
        /\ toOff' = next' \ applied /\ toOn' = applied \ next'
        /\ UNCHANGED <<pc, job>>
    BY <1>8 DEF CfgResync, Apply, LoopInv
  <2>2. \A b \in Actor : job[b].op \notin {"deactivate", "activate"}
    <3>1. job[Cfg] = NoJob
      BY <1>0, <2>1 DEF LoopInv, IInv, TypeInv, JobInv
    <3> QED
      BY <3>1, JobFields DEF LoopInv
  <2> QED
    BY <2>1, <2>2 DEF LoopInv
<1>9. CASE CfgApplied
  <2>1. /\ mode' = "recv" /\ Base' = Base /\ toOff = {} /\ toOn = {} /\ pc[Cfg] = "idle"
        /\ UNCHANGED <<next, toOff, toOn, pc, job>> /\ UNCHANGED configVars
    BY <1>9 DEF CfgApplied, Base
  <2> QED
    BY <2>1 DEF LoopInv
<1> QED
  BY <1>1, <1>2, <1>3, <1>4, <1>5, <1>6, <1>7, <1>8, <1>9 DEF Loops

LEMMA LoopOthers ==
  ASSUME IInv, LoopInv, Shutdown \/ Environment \/ \E p \in Plugin : OrphanEnds(p)
  PROVE  LoopInv'
<1> USE DEF configVars, loopVars, diskVars, scanVars, taskVars, viewVars, actorVars
<1>1. CASE Drain
  BY <1>1, LoopStays DEF Drain
<1>2. CASE ShutdownDone
  BY <1>2, LoopStays DEF ShutdownDone
<1>3. ASSUME NEW p \in Plugin, StopDrained(p) PROVE LoopInv'
  BY <1>3, LoopStays DEF StopDrained
<1>4. CASE EditConfig
  BY <1>4, LoopStays DEF EditConfig
<1>5. CASE Cancel
  BY <1>5, LoopStays DEF Cancel
<1>6. ASSUME NEW p \in Plugin, EditDisk(p) PROVE LoopInv'
  BY <1>6, LoopStays DEF EditDisk
<1>7. ASSUME NEW p \in Plugin, Render(p) PROVE LoopInv'
  BY <1>7, LoopStays DEF Render
<1>8. ASSUME NEW p \in Plugin, GiveUp(p) PROVE LoopInv'
  BY <1>8, LoopStays DEF GiveUp
<1>9. ASSUME NEW r \in Request, Ask(r) PROVE LoopInv'
  <2>1. r \in Actor /\ r # Cfg /\ Cfg \in Actor
    BY ActorAssumption DEF Actor
  <2>2. /\ pc'[Cfg] = pc[Cfg]
        /\ \A b \in Actor : job'[b] = job[b] \/ job'[b].op \in {"restart", "remove", "replace"}
    BY <1>9, <2>1 DEF Ask, Begin, IInv, TypeInv, TypeOK
  <2>3. UNCHANGED loopVars /\ UNCHANGED configVars
    BY <1>9 DEF Ask
  <2> QED
    BY <2>2, <2>3, LoopStays
<1>10. ASSUME NEW p \in Plugin, OrphanEnds(p) PROVE LoopInv'
  BY <1>10, LoopStays DEF OrphanEnds
<1> QED
  BY <1>1, <1>2, <1>3, <1>4, <1>5, <1>6, <1>7, <1>8, <1>9, <1>10
     DEF Shutdown, Environment

LEMMA LoopStep == IInv /\ LoopInv /\ [Next]_vars => LoopInv'
<1> SUFFICES ASSUME IInv, LoopInv, [Next]_vars PROVE LoopInv'
  OBVIOUS
<1>1. CASE Next
  BY <1>1, LoopTransition, LoopLoops, LoopOthers DEF Next
<1>2. CASE UNCHANGED vars
  BY <1>2, LoopStays DEF vars, configVars, loopVars, actorVars
<1> QED
  BY <1>1, <1>2

--------------------------------------------------------------------------------
\* What is owed to a plugin stays owed until its own transition pays it.

\* A config write and a folder event only add to what is owed.
LEMMA OwesStay ==
  ASSUME TypeInv, LoopInv, NEW q \in Plugin, UNCHANGED loopVars, batch' = batch,
         dirty \subseteq dirty', ~everLagged',
         UNCHANGED configVars \/ \E new \in SUBSET Plugin : Publish(new)
  PROVE  /\ OwesStop(q) => OwesStop(q)' \/ Awaits("deactivate", q)
         /\ Awaits("deactivate", q)' => OwesStop(q)'
         /\ OwesStart(q) => OwesStart(q)' \/ Awaits("activate", q)
         /\ Awaits("activate", q)' => OwesStart(q)'
         /\ OwesLook(q) => OwesLook(q)' \/ Looks(q)
         /\ Looks(q)' => OwesLook(q)'
<1> USE DEF configVars, loopVars
<1>1. Base' = Base /\ toOff' = toOff /\ toOn' = toOn
  BY DEF Base
<1>2. \A i \in 1 .. Len(queue) : i \in 1 .. Len(queue') /\ queue'[i] = queue[i]
  <2>1. CASE UNCHANGED configVars
    BY <2>1
  <2>2. ASSUME NEW new \in SUBSET Plugin, Publish(new)
        PROVE  \A i \in 1 .. Len(queue) : i \in 1 .. Len(queue') /\ queue'[i] = queue[i]
    <3>1. queue \in Seq(SUBSET Plugin) /\ queue' = Append(queue, new)
      BY <2>2, PublishAppends DEF TypeInv, TypeOK
    <3>2. Len(queue') = Len(queue) + 1 /\ Len(queue) \in Nat
          /\ \A i \in 1 .. Len(queue) : queue'[i] = queue[i]
      BY <3>1, AppendFacts
    <3> QED
      BY <3>2
  <2> QED
    BY <2>1, <2>2
<1>3. OwesStop(q) => OwesStop(q)' \/ Awaits("deactivate", q)
  BY <1>1, <1>2 DEF OwesStop
<1>4. OwesStart(q) => OwesStart(q)' \/ Awaits("activate", q)
  BY <1>1, <1>2 DEF OwesStart
<1> QED
  BY <1>3, <1>4 DEF OwesStop, OwesStart, OwesLook

\* When the actor of a transition is not about to pay it.
LEMMA OwedOn ==
  ASSUME IInv, LoopInv, NEW a \in Actor, LocalStep(a), MovesAlone(a), ~everLagged',
         NEW q \in Plugin
  PROVE  /\ ~(job[a].id = q /\ job[a].op = "deactivate" /\ pc[a] \in {"barrier", "lock"})
               => (OwesStop(q) => OwesStop(q)')
         /\ ~(job[a].id = q /\ job[a].op = "activate" /\ pc[a] \in {"barrier", "lock"})
               => (OwesStart(q) => OwesStart(q)')
         /\ ~(job[a].id = q /\ job[a].op = "reload" /\ pc[a] \in {"barrier", "lock"})
               => (OwesLook(q) => OwesLook(q)')
<1>1. /\ UNCHANGED loopVars /\ batch' = batch /\ dirty \subseteq dirty'
      /\ (UNCHANGED configVars \/ \E new \in SUBSET Plugin : Publish(new))
  <2>1. off \ {job[a].id} \in SUBSET Plugin
    BY DEF IInv, TypeInv, TypeOK
  <2> QED
    BY <2>1 DEF LocalStep, scanVars
<1>2. /\ OwesStop(q) => OwesStop(q)' \/ Awaits("deactivate", q)
      /\ Awaits("deactivate", q)' => OwesStop(q)'
      /\ OwesStart(q) => OwesStart(q)' \/ Awaits("activate", q)
      /\ Awaits("activate", q)' => OwesStart(q)'
      /\ OwesLook(q) => OwesLook(q)' \/ Looks(q)
      /\ Looks(q)' => OwesLook(q)'
  BY <1>1, OwesStay DEF IInv
<1>3. /\ Cfg # a => pc'[Cfg] = pc[Cfg] /\ job'[Cfg] = job[Cfg]
      /\ Dir # a => pc'[Dir] = pc[Dir] /\ job'[Dir] = job[Dir]
  BY DEF MovesAlone, Actor
<1>4. /\ Cfg # a /\ Awaits("deactivate", q) => Awaits("deactivate", q)'
      /\ Cfg # a /\ Awaits("activate", q) => Awaits("activate", q)'
      /\ Dir # a /\ Looks(q) => Looks(q)'
  BY <1>3 DEF Awaits, Looks
<1> QED
  BY <1>2, <1>4 DEF Awaits, Looks

\* A transition leaves what is owed to other plugins as it is.
LEMMA FarStep ==
  ASSUME IInv, LoopInv, NEW a \in Actor, LocalStep(a), MovesAlone(a), ~everLagged',
         NEW q \in Plugin, q # job[a].id, Owed(q)
  PROVE  Owed(q)'
<1>1. /\ OwesStop(q) => OwesStop(q)'
      /\ OwesStart(q) => OwesStart(q)'
      /\ OwesLook(q) => OwesLook(q)'
  BY OwedOn
<1>2. /\ handles'[q] = handles[q] /\ disk'[q] = disk[q]
      /\ (q \in filed' <=> q \in filed) /\ unscanned' = unscanned
  BY DEF LocalStep, scanVars
<1>3. q \in off' <=> q \in off
  BY DEF LocalStep, configVars, Publish
<1>4. job'[a].id # q
  BY JobFields, ActorAssumption DEF LocalStep, SameJob
<1>5. \A b \in Actor : \/ job[b].id # q /\ job'[b].id # q
                       \/ job'[b] = job[b] /\ pc'[b] = pc[b]
  BY <1>4 DEF MovesAlone
<1>6. \A b \in Actor : /\ Inserting(b, q)' <=> Inserting(b, q)
                       /\ Starting(b, q)' <=> Starting(b, q)
                       /\ Committed(b, q)' <=> Committed(b, q)
  BY <1>5 DEF Inserting, Starting, Committed
<1>7. OffIsStopped(q)'
  BY <1>1, <1>2, <1>3, <1>6 DEF Owed, OffIsStopped
<1>8. OnIsUnfiled(q)'
  BY <1>1, <1>2, <1>3 DEF Owed, OnIsUnfiled
<1>9. GoodIsKept(q)'
  BY <1>1, <1>2, <1>6 DEF Owed, GoodIsKept
<1>10. GoneIsStopped(q)'
  BY <1>1, <1>2, <1>6 DEF Owed, GoneIsStopped
<1> QED
  BY <1>7, <1>8, <1>9, <1>10 DEF Owed

\* Waiting for the lock pays nothing.
LEMMA EnterStep ==
  ASSUME IInv, LoopInv, NEW a \in Actor, Enter(a), stage = "up",
         NEW q \in Plugin, Owed(q)
  PROVE  Owed(q)'
<1> USE DEF configVars, loopVars, diskVars, scanVars, taskVars, viewVars
<1>1. /\ pc[a] = "barrier" /\ pc'[a] = "lock" /\ job' = job
      /\ \A b \in Actor \ {a} : pc'[b] = pc[b]
  BY GotoMoves DEF Enter, IInv, Goto
<1>2. /\ Awaits("deactivate", q)' <=> Awaits("deactivate", q)
      /\ Awaits("activate", q)' <=> Awaits("activate", q)
      /\ Looks(q)' <=> Looks(q)
  BY <1>1 DEF Awaits, Looks, Actor
<1>3. \A b \in Actor : /\ Inserting(b, q)' <=> Inserting(b, q)
                       /\ Starting(b, q)' <=> Starting(b, q)
                       /\ Committed(b, q)' <=> Committed(b, q)
  BY <1>1 DEF Inserting, Starting, Committed
<1>4. UNCHANGED <<off, queue, applied, next, toOff, toOn, mode, disk, dirty, batch,
                  unscanned, handles, filed>>
  BY DEF Enter
<1>5. OwesStop(q)' <=> OwesStop(q)
  BY <1>2, <1>4 DEF OwesStop, Base
<1>6. OwesStart(q)' <=> OwesStart(q)
  BY <1>2, <1>4 DEF OwesStart, Base
<1>7. OwesLook(q)' <=> OwesLook(q)
  BY <1>2, <1>4 DEF OwesLook
<1> QED
  BY <1>3, <1>4, <1>5, <1>6, <1>7
     DEF Owed, OffIsStopped, OnIsUnfiled, GoodIsKept, GoneIsStopped

--------------------------------------------------------------------------------
\* Each step of a transition past the lock pays what it owes its own plugin, or
\* goes on owing it.

\* What is owed to p as long as nobody but a can be past the lock of p.
OwedBy(a, p) ==
    /\ p \in off /\ (handles[p] # "none" \/ Inserting(a, p)) => OwesStop(p)
    /\ OnIsUnfiled(p)
    /\ disk[p] = Good => \/ p \in filed \/ handles[p] # "none" \/ p \in unscanned
                         \/ OwesLook(p) \/ Starting(a, p)
    /\ disk[p].manifest = "none" /\ (handles[p] # "none" \/ Committed(a, p))
          => OwesLook(p)

LEMMA OwedAlone ==
  ASSUME IInv, NEW a \in Actor, MovesAlone(a), NEW p \in Plugin, p = job[a].id,
         InCritical(a) \/ LockFree(p)
  PROVE  /\ Owed(p) => OwedBy(a, p)
         /\ OwedBy(a, p)' => Owed(p)'
<1>1. \A b \in Actor \ {a} : ~(InCritical(b) /\ job[b].id = p)
  BY DEF IInv, LockInv, LockFree
<1>2. \A b \in Actor \ {a} : ~Inserting(b, p) /\ ~Starting(b, p) /\ ~Committed(b, p)
  BY <1>1 DEF Inserting, Starting, Committed, InCritical
<1>3. \A b \in Actor \ {a} : ~Inserting(b, p)' /\ ~Starting(b, p)' /\ ~Committed(b, p)'
  BY <1>2 DEF Inserting, Starting, Committed, MovesAlone
<1>4. Owed(p) => OwedBy(a, p)
  BY <1>2 DEF Owed, OffIsStopped, GoodIsKept, GoneIsStopped, OwedBy
<1>5. OwedBy(a, p)' => Owed(p)'
  BY <1>3 DEF Owed, OffIsStopped, GoodIsKept, GoneIsStopped, OwedBy
<1> QED
  BY <1>4, <1>5

LEMMA FinishNear ==
  ASSUME TypeInv, NEW a \in Actor, Finish(a), NEW p \in Plugin
  PROVE  ~Inserting(a, p)' /\ ~Starting(a, p)' /\ ~Committed(a, p)'
  BY FinishMoves DEF Inserting, Starting, Committed

LEMMA RemoveNear ==
  ASSUME TypeInv, NEW a \in Actor, pc[a] \notin {"idle", "done"}, NEW op,
         RemoveAndStop(a, op), NEW p \in Plugin, p = job[a].id
  PROVE  /\ handles'[p] = "none" /\ ~Inserting(a, p)'
         /\ op \in {"restart", "reload", "deactivate", "remove", "replace"} => Starting(a, p)'
         /\ op # "reload" => ~Committed(a, p)'
  BY RemoveMoves DEF Inserting, Starting, Committed

LEMMA NearStep ==
  ASSUME IInv, LoopInv, Trusted, Trusted', NEW a \in Actor, Transition(a), ~Enter(a),
         NEW p \in Plugin, p = job[a].id, OwedBy(a, p)
  PROVE  OwedBy(a, p)'
<1> USE DEF configVars, loopVars, diskVars, scanVars, taskVars, viewVars
<1>0. LocalStep(a) /\ MovesAlone(a) /\ ~everLagged' /\ stage = "up" /\ TypeInv
  BY TransitionLocal, TransitionEffect DEF IInv, Trusted
<1>a. /\ ~(job[a].op = "deactivate" /\ pc[a] = "lock") /\ pc[a] # "barrier"
             => (OwesStop(p) => OwesStop(p)')
      /\ ~(job[a].op = "activate" /\ pc[a] = "lock") /\ pc[a] # "barrier"
             => (OwesStart(p) => OwesStart(p)')
      /\ ~(job[a].op = "reload" /\ pc[a] = "lock") /\ pc[a] # "barrier"
             => (OwesLook(p) => OwesLook(p)')
  BY <1>0, OwedOn
<1>b. unscanned' = unscanned
  BY <1>0 DEF LocalStep
<1>c. pc[a] = "lock" => /\ ~Inserting(a, p) /\ ~Starting(a, p) /\ ~Committed(a, p)
                        /\ job[a].victim = "none"
  BY DEF Inserting, Starting, Committed, InCritical, IInv, TypeInv, JobInv
<1>d. InCritical(a) /\ job[a].op # "activate" => handles[p] = "none"
  BY DEF IInv, EmptyInv
<1>e. Gone # Good /\ Good.manifest = "valid" /\ Good.entry /\ Good.present
      /\ Gone.manifest = "none" /\ ~Gone.present
  BY DEF Gone, Good
<1>1. CASE RestartBegin(a)
  <2>1. /\ pc[a] = "lock" /\ job[a].op = "restart"
        /\ UNCHANGED <<off, filed, disk>>
    BY <1>1 DEF RestartBegin, Locked
  <2>2. OwesStop(p) => OwesStop(p)'
    BY <1>a, <2>1
  <2>3. OwesStart(p) => OwesStart(p)'
    BY <1>a, <2>1
  <2>4. OwesLook(p) => OwesLook(p)'
    BY <1>a, <2>1
  <2>5. CASE RemoveAndStop(a, "restart")
    <3>1. handles'[p] = "none" /\ ~Inserting(a, p)' /\ Starting(a, p)' /\ ~Committed(a, p)'
      BY <1>0, <2>1, <2>5, RemoveNear
    <3> QED
      BY <2>1, <2>3, <3>1 DEF OwedBy, OnIsUnfiled
  <2>6. CASE handles[p] = "none" /\ Goto(a, "start") /\ UNCHANGED handles
    <3>1. ~Inserting(a, p)' /\ Starting(a, p)' /\ ~Committed(a, p)'
      BY <1>0, <2>1, <2>6, GotoMoves DEF Inserting, Starting, Committed
    <3> QED
      BY <2>1, <2>3, <2>6, <3>1 DEF OwedBy, OnIsUnfiled
  <2>7. CASE Finish(a) /\ UNCHANGED handles
    <3>1. ~Inserting(a, p)' /\ ~Starting(a, p)' /\ ~Committed(a, p)'
      BY <1>0, <2>7, FinishNear
    <3> QED
      BY <1>b, <1>c, <2>1, <2>2, <2>3, <2>4, <2>7, <3>1 DEF OwedBy, OnIsUnfiled
  <2> QED
    BY <1>1, <2>5, <2>6, <2>7 DEF RestartBegin
<1>2. CASE DeactivateBegin(a)
  <2>1. /\ pc[a] = "lock" /\ job[a].op = "deactivate"
        /\ UNCHANGED <<off, filed, disk>>
    BY <1>2 DEF DeactivateBegin, Locked
  <2>3. OwesStart(p) => OwesStart(p)'
    BY <1>a, <2>1
  <2>4. OwesLook(p) => OwesLook(p)'
    BY <1>a, <2>1
  <2>5. CASE RemoveAndStop(a, "deactivate")
    <3>1. handles'[p] = "none" /\ ~Inserting(a, p)' /\ Starting(a, p)' /\ ~Committed(a, p)'
      BY <1>0, <2>1, <2>5, RemoveNear
    <3> QED
      BY <2>1, <2>3, <3>1 DEF OwedBy, OnIsUnfiled
  <2>6. CASE handles[p] = "none" /\ Finish(a) /\ UNCHANGED handles
    <3>1. ~Inserting(a, p)' /\ ~Starting(a, p)' /\ ~Committed(a, p)'
      BY <1>0, <2>6, FinishNear
    <3> QED
      BY <1>b, <1>c, <2>1, <2>3, <2>4, <2>6, <3>1 DEF OwedBy, OnIsUnfiled
  <2> QED
    BY <1>2, <2>5, <2>6 DEF DeactivateBegin
<1>3. CASE ActivateBegin(a)
  <2>1. /\ pc[a] = "lock" /\ job[a].op = "activate" /\ filed' = filed \ {p}
        /\ UNCHANGED <<off, handles, disk>>
    BY <1>3 DEF ActivateBegin, Locked
  <2>2. OwesStop(p) => OwesStop(p)'
    BY <1>a, <2>1
  <2>4. OwesLook(p) => OwesLook(p)'
    BY <1>a, <2>1
  <2>5. CASE Goto(a, "start")
    <3>1. ~Inserting(a, p)' /\ Starting(a, p)' /\ ~Committed(a, p)'
      BY <1>0, <2>1, <2>5, GotoMoves DEF Inserting, Starting, Committed
    <3> QED
      BY <1>c, <2>1, <2>2, <2>4, <3>1 DEF OwedBy, OnIsUnfiled
  <2>6. CASE p \notin filed /\ Finish(a)
    <3>1. ~Inserting(a, p)' /\ ~Starting(a, p)' /\ ~Committed(a, p)'
      BY <1>0, <2>6, FinishNear
    <3> QED
      BY <1>b, <1>c, <2>1, <2>2, <2>4, <2>6, <3>1 DEF OwedBy, OnIsUnfiled
  <2> QED
    BY <1>3, <2>5, <2>6 DEF ActivateBegin
<1>4. CASE ReloadRunning(a)
  <2>1. /\ pc[a] = "lock" /\ job[a].op = "reload" /\ handles[p] # "none"
        /\ UNCHANGED <<off, filed, disk>>
    BY <1>4 DEF ReloadRunning, Locked
  <2>2. OwesStop(p) => OwesStop(p)'
    BY <1>a, <2>1
  <2>3. OwesStart(p) => OwesStart(p)'
    BY <1>a, <2>1
  <2>5. CASE disk[p].manifest = "valid" /\ RemoveAndStop(a, "reload")
    <3>1. handles'[p] = "none" /\ ~Inserting(a, p)' /\ Starting(a, p)'
      BY <1>0, <2>1, <2>5, RemoveNear
    <3> QED
      BY <2>1, <2>3, <2>5, <3>1 DEF OwedBy, OnIsUnfiled
  <2>6. CASE disk[p].manifest = "none" /\ RemoveAndStop(a, "unload")
    <3>1. handles'[p] = "none" /\ ~Inserting(a, p)' /\ ~Committed(a, p)'
      BY <1>0, <2>1, <2>6, RemoveNear
    <3> QED
      BY <1>e, <2>1, <2>3, <2>6, <3>1 DEF OwedBy, OnIsUnfiled
  <2>7. CASE /\ disk[p].manifest = "broken" \/ (disk[p].manifest = "valid" /\ ~disk[p].entry)
             /\ Finish(a) /\ UNCHANGED handles
    <3>1. ~Inserting(a, p)' /\ ~Starting(a, p)' /\ ~Committed(a, p)'
      BY <1>0, <2>7, FinishNear
    <3>2. disk[p].manifest # "none"
      BY <2>7
    <3> QED
      BY <2>1, <2>2, <2>3, <2>7, <3>1, <3>2 DEF OwedBy, OnIsUnfiled
  <2> QED
    BY <1>4, <2>5, <2>6, <2>7 DEF ReloadRunning
<1>5. CASE ReloadIdle(a)
  <2>1. /\ pc[a] = "lock" /\ job[a].op = "reload" /\ handles[p] = "none"
        /\ UNCHANGED <<off, handles, disk>> /\ filed' \subseteq filed
    BY <1>5 DEF ReloadIdle, Locked
  <2>3. OwesStart(p) => OwesStart(p)'
    BY <1>a, <2>1
  <2>5. CASE disk[p].manifest # "none" /\ Goto(a, "start")
    <3>1. ~Inserting(a, p)' /\ Starting(a, p)'
      BY <1>0, <2>1, <2>5, GotoMoves DEF Inserting, Starting
    <3> QED
      BY <2>1, <2>3, <2>5, <3>1 DEF OwedBy, OnIsUnfiled
  <2>6. CASE disk[p].manifest = "none" /\ Finish(a)
    <3>1. ~Inserting(a, p)' /\ ~Starting(a, p)' /\ ~Committed(a, p)'
      BY <1>0, <2>6, FinishNear
    <3> QED
      BY <1>e, <2>1, <2>3, <2>6, <3>1 DEF OwedBy, OnIsUnfiled
  <2> QED
    BY <1>5, <2>5, <2>6 DEF ReloadIdle
<1>6. CASE RemoveBegin(a)
  <2>1. /\ pc[a] = "lock" /\ job[a].op = "remove"
        /\ UNCHANGED <<off, filed, disk>>
    BY <1>6 DEF RemoveBegin, Locked
  <2>3. OwesStart(p) => OwesStart(p)'
    BY <1>a, <2>1
  <2>4. OwesLook(p) => OwesLook(p)'
    BY <1>a, <2>1
  <2>5. CASE RemoveAndStop(a, "remove")
    <3>1. handles'[p] = "none" /\ ~Inserting(a, p)' /\ Starting(a, p)' /\ ~Committed(a, p)'
      BY <1>0, <2>1, <2>5, RemoveNear
    <3> QED
      BY <2>1, <2>3, <3>1 DEF OwedBy, OnIsUnfiled
  <2>6. CASE handles[p] = "none" /\ Goto(a, "resume") /\ UNCHANGED handles
    <3>1. ~Inserting(a, p)' /\ Starting(a, p)' /\ ~Committed(a, p)'
      BY <1>0, <2>1, <2>6, GotoMoves DEF Inserting, Starting, Committed
    <3> QED
      BY <2>1, <2>3, <2>6, <3>1 DEF OwedBy, OnIsUnfiled
  <2>7. CASE handles[p] = "none" /\ Finish(a) /\ UNCHANGED handles
    <3>1. ~Inserting(a, p)' /\ ~Starting(a, p)' /\ ~Committed(a, p)'
      BY <1>0, <2>7, FinishNear
    <3> QED
      BY <1>b, <1>c, <2>1, <2>3, <2>4, <2>7, <3>1 DEF OwedBy, OnIsUnfiled
  <2> QED
    BY <1>6, <2>5, <2>6, <2>7 DEF RemoveBegin
<1>7. CASE ReplaceBegin(a)
  <2>1. /\ pc[a] = "lock" /\ job[a].op = "replace"
        /\ UNCHANGED <<off, filed, disk>>
    BY <1>7 DEF ReplaceBegin, Locked
  <2>3. OwesStart(p) => OwesStart(p)'
    BY <1>a, <2>1
  <2>4. OwesLook(p) => OwesLook(p)'
    BY <1>a, <2>1
  <2>5. CASE RemoveAndStop(a, "replace")
    <3>1. handles'[p] = "none" /\ ~Inserting(a, p)' /\ Starting(a, p)' /\ ~Committed(a, p)'
      BY <1>0, <2>1, <2>5, RemoveNear
    <3> QED
      BY <2>1, <2>3, <3>1 DEF OwedBy, OnIsUnfiled
  <2>6. CASE handles[p] = "none" /\ Goto(a, "resume") /\ UNCHANGED handles
    <3>1. ~Inserting(a, p)' /\ ~Committed(a, p)'
      BY <1>0, <2>1, <2>6, GotoMoves DEF Inserting, Committed
    <3> QED
      BY <1>b, <1>c, <2>1, <2>3, <2>4, <2>6, <3>1 DEF OwedBy, OnIsUnfiled
  <2> QED
    BY <1>7, <2>5, <2>6 DEF ReplaceBegin
<1>8. CASE StopDone(a)
  <2>1. /\ pc[a] = "stop" /\ UNCHANGED <<off, filed, disk, handles>>
        /\ job'[a].op = job[a].op /\ job'[a].id = p /\ job'[a].victim = "ended"
        /\ pc'[a] = IF job[a].op \in {"restart", "reload"} THEN "start" ELSE "resume"
    BY <1>0, <1>8 DEF StopDone, TypeInv, TypeOK
  <2>2. (OwesStop(p) => OwesStop(p)') /\ (OwesStart(p) => OwesStart(p)')
        /\ (OwesLook(p) => OwesLook(p)')
    BY <1>a, <2>1
  <2>3. ~Inserting(a, p)' /\ (Starting(a, p) => Starting(a, p)')
        /\ (Committed(a, p)' => Committed(a, p))
    BY <2>1 DEF Inserting, Starting, Committed
  <2> QED
    BY <1>b, <2>1, <2>2, <2>3 DEF OwedBy, OnIsUnfiled
<1>9. CASE UnloadEnd(a)
  <2>1. /\ pc[a] = "resume" /\ job[a].op = "unload" /\ UNCHANGED <<off, filed, disk, handles>>
        /\ ~Inserting(a, p)' /\ ~Starting(a, p) /\ ~Committed(a, p)'
    BY <1>0, <1>9, FinishNear DEF UnloadEnd, Resumed, Starting
  <2>2. (OwesStop(p) => OwesStop(p)') /\ (OwesStart(p) => OwesStart(p)')
        /\ (OwesLook(p) => OwesLook(p)')
    BY <1>a, <2>1
  <2> QED
    BY <1>b, <2>1, <2>2 DEF OwedBy, OnIsUnfiled
<1>10. CASE DeactivateEnd(a)
  <2>1. /\ pc[a] = "resume" /\ job[a].op = "deactivate" /\ UNCHANGED <<off, disk, handles>>
        /\ filed' = filed \cup {p}
        /\ ~Inserting(a, p)' /\ ~Committed(a, p)'
    BY <1>0, <1>10, FinishNear DEF DeactivateEnd, Resumed
  <2>2. (OwesStop(p) => OwesStop(p)') /\ (OwesLook(p) => OwesLook(p)')
    BY <1>a, <2>1
  <2>3. p \in Base
    BY <2>1 DEF LoopInv, Base
  <2>4. OwesStart(p)'
    BY <1>a, <2>1, <2>3 DEF OwesStart
  <2> QED
    BY <2>1, <2>2, <2>4 DEF OwedBy, OnIsUnfiled
<1>11. CASE RemoveOk(a)
  <2>1. /\ pc[a] = "resume" /\ job[a].op = "remove" /\ filed' = filed \ {p}
        /\ handles' = handles /\ disk'[p] = Gone
        /\ ~Inserting(a, p)' /\ ~Committed(a, p)'
    BY <1>0, <1>11, FinishNear DEF RemoveOk, Resumed, TypeInv, TypeOK
  <2>2. handles[p] = "none"
    BY <1>d, <2>1 DEF InCritical
  <2> QED
    BY <1>e, <2>1, <2>2 DEF OwedBy, OnIsUnfiled
<1>12. CASE RemoveFail(a)
  <2>1. /\ pc[a] = "resume" /\ job[a].op = "remove" /\ filed' = filed \ {p}
        /\ handles' = handles /\ disk'[p].present = disk[p].present
        /\ IF disk[p].present THEN Goto(a, "start") ELSE Finish(a)
    BY <1>0, <1>12 DEF RemoveFail, Resumed, TypeInv, TypeOK
  <2>2. handles[p] = "none"
    BY <1>d, <2>1 DEF InCritical
  <2>3. CASE Goto(a, "start")
    <3>1. ~Inserting(a, p)' /\ Starting(a, p)' /\ ~Committed(a, p)'
      BY <1>0, <2>1, <2>3, GotoMoves DEF Inserting, Starting, Committed
    <3> QED
      BY <2>1, <2>2, <3>1 DEF OwedBy, OnIsUnfiled
  <2>4. CASE ~disk[p].present /\ Finish(a)
    <3>1. ~Inserting(a, p)' /\ ~Committed(a, p)'
      BY <1>0, <2>4, FinishNear
    <3> QED
      BY <1>e, <2>1, <2>2, <2>4, <3>1 DEF OwedBy, OnIsUnfiled
  <2> QED
    BY <2>1, <2>3, <2>4
<1>13. CASE SwapOk(a)
  <2>1. /\ pc[a] = "resume" /\ job[a].op = "replace" /\ UNCHANGED <<off, filed, handles>>
        /\ disk'[p] = Good
        /\ IF HotReload /\ stage = "up" THEN Finish(a) /\ p \in dirty'
                                        ELSE Goto(a, "start")
    BY <1>0, <1>13 DEF SwapOk, Resumed, Touch, TypeInv, TypeOK
  <2>2. handles[p] = "none"
    BY <1>d, <2>1 DEF InCritical
  <2>3. OwesStart(p) => OwesStart(p)'
    BY <1>a, <2>1
  <2>4. ~Inserting(a, p)' /\ (OwesLook(p)' \/ Starting(a, p)')
    <3>1. CASE Finish(a) /\ p \in dirty'
      BY <1>0, <3>1, FinishNear DEF OwesLook
    <3>2. CASE Goto(a, "start")
      BY <1>0, <3>2, GotoMoves DEF Inserting, Starting
    <3> QED
      BY <2>1, <3>1, <3>2
  <2> QED
    BY <1>e, <2>1, <2>2, <2>3, <2>4 DEF OwedBy, OnIsUnfiled
<1>14. CASE SwapFail(a)
  <2>1. /\ pc[a] = "resume" /\ job[a].op = "replace" /\ UNCHANGED <<off, filed, handles>>
        /\ disk'[p] \in {disk[p], Gone}
        /\ IF job[a].victim # "none" /\ disk'[p].present THEN Goto(a, "start") ELSE Finish(a)
    BY <1>0, <1>14 DEF SwapFail, Resumed, TypeInv, TypeOK
  <2>2. handles[p] = "none"
    BY <1>d, <2>1 DEF InCritical
  <2>3. (OwesStart(p) => OwesStart(p)') /\ (OwesLook(p) => OwesLook(p)')
    BY <1>a, <2>1
  <2>4. CASE Goto(a, "start")
    <3>1. ~Inserting(a, p)' /\ Starting(a, p)' /\ ~Committed(a, p)'
      BY <1>0, <2>1, <2>4, GotoMoves DEF Inserting, Starting, Committed
    <3> QED
      BY <2>1, <2>2, <2>3, <3>1 DEF OwedBy, OnIsUnfiled
  <2>5. CASE (job[a].victim = "none" \/ ~disk'[p].present) /\ Finish(a)
    <3>1. ~Inserting(a, p)' /\ ~Committed(a, p)'
      BY <1>0, <2>5, FinishNear
    <3>2. disk'[p] = Good => disk[p] = Good /\ ~Starting(a, p)
      BY <1>e, <2>1, <2>5 DEF Starting
    <3> QED
      BY <1>b, <2>1, <2>2, <2>3, <3>1, <3>2 DEF OwedBy, OnIsUnfiled
  <2> QED
    BY <2>1, <2>4, <2>5
<1>15. CASE StartRejected(a)
  <2>1. /\ pc[a] = "start" /\ UNCHANGED <<off, filed, disk, handles>> /\ disk[p] # Good
        /\ ~Inserting(a, p)' /\ ~Committed(a, p)'
    BY <1>0, <1>15, <1>e, FinishNear DEF StartRejected, Startable
  <2>2. (OwesStop(p) => OwesStop(p)') /\ (OwesStart(p) => OwesStart(p)')
        /\ (OwesLook(p) => OwesLook(p)')
    BY <1>a, <2>1
  <2> QED
    BY <2>1, <2>2 DEF OwedBy, OnIsUnfiled
<1>16. CASE Gate(a)
  <2>1. /\ pc[a] = "start" /\ Startable(a) /\ UNCHANGED <<off, disk, handles>>
    BY <1>16 DEF Gate
  <2>2. (OwesStop(p) => OwesStop(p)') /\ (OwesStart(p) => OwesStart(p)')
        /\ (OwesLook(p) => OwesLook(p)')
    BY <1>a, <2>1
  <2>3. CASE p \in off
    <3>1. filed' = filed \cup {p} /\ ~Inserting(a, p)' /\ ~Committed(a, p)'
      BY <1>0, <1>16, <2>3, FinishNear DEF Gate
    <3> QED
      BY <2>1, <2>2, <2>3, <3>1 DEF OwedBy, OnIsUnfiled
  <2>4. CASE p \notin off
    <3>1. filed' = filed /\ Starting(a, p)' /\ job' = job
      BY <1>0, <1>16, <2>4, GotoMoves DEF Gate, Starting
    <3>2. disk[p].manifest = "none" => Committed(a, p)
      BY <2>1 DEF Startable, Committed
    <3> QED
      BY <2>1, <2>2, <2>4, <3>1, <3>2 DEF OwedBy, OnIsUnfiled
  <2> QED
    BY <2>3, <2>4
<1>17. CASE Insert(a)
  <2>1. /\ pc[a] = "insert" /\ UNCHANGED <<off, filed, disk>> /\ handles'[p] = "live"
        /\ Inserting(a, p) /\ Committed(a, p)
    BY <1>0, <1>17 DEF Insert, Inserting, Committed, TypeInv, TypeOK
  <2>2. (OwesStop(p) => OwesStop(p)') /\ (OwesStart(p) => OwesStart(p)')
        /\ (OwesLook(p) => OwesLook(p)')
    BY <1>a, <2>1
  <2> QED
    BY <2>1, <2>2 DEF OwedBy, OnIsUnfiled
<1>18. ~Refused(a)
  BY <1>0 DEF Refused
<1> QED
  BY <1>1, <1>2, <1>3, <1>4, <1>5, <1>6, <1>7, <1>8, <1>9, <1>10, <1>11, <1>12, <1>13, <1>14, <1>15, <1>16, <1>17, <1>18 DEF Transition

LEMMA OwedTransition ==
  ASSUME IInv, LoopInv, OwedInv, NEW a \in Actor, Transition(a)
  PROVE  OwedInv'
<1> SUFFICES ASSUME Trusted', NEW q \in Plugin PROVE Owed(q)'
  BY DEF OwedInv
<1>1. LocalStep(a) /\ MovesAlone(a) /\ ~everLagged' /\ stage = "up" /\ TypeInv
  BY TransitionLocal, TransitionEffect DEF IInv, Trusted, LocalStep
<1>2. Trusted /\ Owed(q)
  <2>1. ~everLagged
    BY <1>1 DEF LocalStep, configVars, Publish, TypeInv, TypeOK
  <2> QED
    BY <1>1, <2>1 DEF LocalStep, Trusted, OwedInv
<1>3. CASE Enter(a)
  BY <1>1, <1>2, <1>3, EnterStep
<1>4. CASE ~Enter(a) /\ q # job[a].id
  BY <1>1, <1>2, <1>4, FarStep
<1>5. CASE ~Enter(a) /\ q = job[a].id
  <2>1. InCritical(a) \/ LockFree(q)
    BY <1>5 DEF Transition, Refused, RestartBegin, DeactivateBegin, ActivateBegin,
       ReloadRunning, ReloadIdle, RemoveBegin, ReplaceBegin, Locked, StopDone,
       UnloadEnd, DeactivateEnd, RemoveOk, RemoveFail, SwapOk, SwapFail, Resumed,
       StartRejected, Gate, Insert, InCritical
  <2> QED
    BY <1>1, <1>2, <1>5, <2>1, OwedAlone, NearStep
<1> QED
  BY <1>3, <1>4, <1>5

--------------------------------------------------------------------------------
\* The loops, the environment and the theorem.

LEMMA OwedInit == Init => OwedInv
<1> SUFFICES ASSUME Init, NEW p \in Plugin PROVE Owed(p)
  BY DEF OwedInv
<1>1. /\ handles[p] = "none" /\ filed = {} /\ (disk[p] = Good => p \in unscanned)
      /\ \A a \in Actor : ~Inserting(a, p) /\ ~Committed(a, p)
  BY DEF Init, Good, Inserting, Committed
<1> QED
  BY <1>1 DEF Owed, OffIsStopped, OnIsUnfiled, GoodIsKept, GoneIsStopped

\* A step that changes at most what is owed to p, and only adds to it.
LEMMA OwedMore ==
  ASSUME NEW p \in Plugin, Owed(p),
         disk'[p] = disk[p],
         handles'[p] = "none" <=> handles[p] = "none",
         p \in off' <=> p \in off, p \in filed' => p \in filed,
         p \in filed => p \in filed',
         OwesStop(p) => OwesStop(p)', OwesStart(p) => OwesStart(p)',
         OwesLook(p) => OwesLook(p)',
         \A a \in Actor : /\ Inserting(a, p)' => Inserting(a, p)
                          /\ Committed(a, p)' => Committed(a, p)
                          /\ Starting(a, p) => Starting(a, p)',
         p \in unscanned => p \in unscanned' \/ \E a \in Actor : Starting(a, p)'
  PROVE  Owed(p)'
<1>1. OffIsStopped(p)'
  BY DEF Owed, OffIsStopped
<1>2. OnIsUnfiled(p)'
  BY DEF Owed, OnIsUnfiled
<1>3. GoodIsKept(p)'
  BY DEF Owed, GoodIsKept
<1>4. GoneIsStopped(p)'
  BY DEF Owed, GoneIsStopped
<1> QED
  BY <1>1, <1>2, <1>3, <1>4 DEF Owed

\* An actor that takes up a transition was in none.
LEMMA OwedBegin ==
  ASSUME IInv, NEW a \in Actor, NEW op, NEW p \in Plugin, Begin(a, op, p),
         pc[a] = "idle", NEW q \in Plugin
  PROVE  /\ \A b \in Actor : /\ Inserting(b, q)' => Inserting(b, q)
                             /\ Committed(b, q)' => Committed(b, q)
                             /\ Starting(b, q) => Starting(b, q)'
         /\ \A b \in Actor \ {a} : pc'[b] = pc[b] /\ job'[b] = job[b]
         /\ pc'[a] = "barrier" /\ job'[a].op = op /\ job'[a].id = p
         /\ job[a] = NoJob
<1>1. /\ \A b \in Actor \ {a} : pc'[b] = pc[b] /\ job'[b] = job[b]
      /\ pc'[a] = "barrier" /\ job'[a].op = op /\ job'[a].id = p
      /\ job[a] = NoJob
  BY DEF Begin, IInv, TypeInv, TypeOK, JobInv
<1> QED
  BY <1>1 DEF Inserting, Committed, Starting

LEMMA OwedLoops ==
  ASSUME IInv, LoopInv, OwedInv, Loops
  PROVE  OwedInv'
<1> SUFFICES ASSUME Trusted', NEW q \in Plugin PROVE Owed(q)'
  BY DEF OwedInv
<1> USE DEF configVars, loopVars, diskVars, scanVars, taskVars, viewVars, actorVars
<1>0. /\ Boot \in Actor /\ Dir \in Actor /\ Cfg \in Actor
      /\ Boot # Dir /\ Dir # Cfg /\ Cfg # Boot
  BY ActorAssumption DEF Actor
<1>a. Trusted /\ Owed(q)
  <2>1. everLagged' = everLagged /\ stage' = stage /\ edits' = edits
    BY DEF Loops, BootScan, DirNext, CfgDeactivate, CfgActivate, DirTake, CfgRecv,
       CfgDrain, CfgResync, CfgApplied
  <2> QED
    BY <2>1 DEF Trusted, OwedInv
<1>1. ASSUME NEW p \in Plugin, BootScan(p) PROVE Owed(q)'
  <2>1. /\ pc' = [pc EXCEPT ![Boot] = "start"] /\ unscanned' = unscanned \ {p}
        /\ job' = [job EXCEPT ![Boot] = [op |-> "boot", id |-> p, victim |-> "none"]]
        /\ pc[Boot] = "idle"
        /\ UNCHANGED <<off, queue, applied, next, toOff, toOn, mode, disk, dirty,
                       batch, handles, filed>>
    BY <1>1 DEF BootScan
  <2>2. /\ pc'[Boot] = "start" /\ job'[Boot].id = p /\ job'[Boot].op = "boot"
        /\ \A b \in Actor \ {Boot} : pc'[b] = pc[b] /\ job'[b] = job[b]
    BY <1>0, <2>1 DEF IInv, TypeInv, TypeOK
  <2>3. /\ Awaits("deactivate", q)' <=> Awaits("deactivate", q)
        /\ Awaits("activate", q)' <=> Awaits("activate", q)
        /\ Looks(q)' <=> Looks(q)
    BY <1>0, <2>2 DEF Awaits, Looks
  <2>4. /\ OwesStop(q)' <=> OwesStop(q)
        /\ OwesStart(q)' <=> OwesStart(q)
        /\ OwesLook(q)' <=> OwesLook(q)
    BY <2>1, <2>3 DEF OwesStop, OwesStart, OwesLook, Base
  <2>5. \A b \in Actor : /\ Inserting(b, q)' => Inserting(b, q)
                         /\ Committed(b, q)' => Committed(b, q)
                         /\ Starting(b, q) => Starting(b, q)'
    BY <2>1, <2>2 DEF Inserting, Committed, Starting
  <2>6. q \in unscanned => q \in unscanned' \/ \E b \in Actor : Starting(b, q)'
    BY <1>0, <2>1, <2>2 DEF Starting
  <2> QED
    BY <1>a, <2>1, <2>4, <2>5, <2>6, OwedMore
<1>2. ASSUME NEW p \in Plugin, DirNext(p) PROVE Owed(q)'
  <2>1. /\ Begin(Dir, "reload", p) /\ pc[Dir] = "idle" /\ batch' = batch \ {p}
        /\ UNCHANGED <<off, queue, applied, next, toOff, toOn, mode, disk, dirty,
                       unscanned, handles, filed>>
    BY <1>2 DEF DirNext
  <2>2. /\ \A b \in Actor : /\ Inserting(b, q)' => Inserting(b, q)
                            /\ Committed(b, q)' => Committed(b, q)
                            /\ Starting(b, q) => Starting(b, q)'
        /\ \A b \in Actor \ {Dir} : pc'[b] = pc[b] /\ job'[b] = job[b]
        /\ pc'[Dir] = "barrier" /\ job'[Dir].op = "reload" /\ job'[Dir].id = p
    BY <1>0, <2>1, OwedBegin
  <2>3. /\ Awaits("deactivate", q)' <=> Awaits("deactivate", q)
        /\ Awaits("activate", q)' <=> Awaits("activate", q)
    BY <1>0, <2>2 DEF Awaits
  <2>4. /\ OwesStop(q)' <=> OwesStop(q)
        /\ OwesStart(q)' <=> OwesStart(q)
    BY <2>1, <2>3 DEF OwesStop, OwesStart, Base
  <2>5. OwesLook(q) => OwesLook(q)'
    BY <2>1, <2>2 DEF OwesLook, Looks
  <2> QED
    BY <1>a, <2>1, <2>2, <2>4, <2>5, OwedMore
<1>3. ASSUME NEW p \in Plugin, CfgDeactivate(p) PROVE Owed(q)'
  <2>1. /\ Begin(Cfg, "deactivate", p) /\ pc[Cfg] = "idle" /\ toOff' = toOff \ {p}
        /\ UNCHANGED <<off, queue, applied, next, toOn, mode, disk, dirty, batch,
                       unscanned, handles, filed>>
    BY <1>3 DEF CfgDeactivate
  <2>2. /\ \A b \in Actor : /\ Inserting(b, q)' => Inserting(b, q)
                            /\ Committed(b, q)' => Committed(b, q)
                            /\ Starting(b, q) => Starting(b, q)'
        /\ \A b \in Actor \ {Cfg} : pc'[b] = pc[b] /\ job'[b] = job[b]
        /\ pc'[Cfg] = "barrier" /\ job'[Cfg].op = "deactivate" /\ job'[Cfg].id = p
    BY <1>0, <2>1, OwedBegin
  <2>3. OwesStop(q) => OwesStop(q)'
    BY <2>1, <2>2 DEF OwesStop, Awaits, Base
  <2>4. OwesStart(q) => OwesStart(q)'
    BY <2>1 DEF OwesStart, Awaits, Base
  <2>5. OwesLook(q) => OwesLook(q)'
    BY <1>0, <2>1, <2>2 DEF OwesLook, Looks
  <2> QED
    BY <1>a, <2>1, <2>2, <2>3, <2>4, <2>5, OwedMore
<1>4. ASSUME NEW p \in Plugin, CfgActivate(p) PROVE Owed(q)'
  <2>1. /\ Begin(Cfg, "activate", p) /\ pc[Cfg] = "idle" /\ toOn' = toOn \ {p}
        /\ UNCHANGED <<off, queue, applied, next, toOff, mode, disk, dirty, batch,
                       unscanned, handles, filed>>
    BY <1>4 DEF CfgActivate
  <2>2. /\ \A b \in Actor : /\ Inserting(b, q)' => Inserting(b, q)
                            /\ Committed(b, q)' => Committed(b, q)
                            /\ Starting(b, q) => Starting(b, q)'
        /\ \A b \in Actor \ {Cfg} : pc'[b] = pc[b] /\ job'[b] = job[b]
        /\ pc'[Cfg] = "barrier" /\ job'[Cfg].op = "activate" /\ job'[Cfg].id = p
    BY <1>0, <2>1, OwedBegin
  <2>3. OwesStop(q) => OwesStop(q)'
    BY <2>1 DEF OwesStop, Awaits, Base
  <2>4. OwesStart(q) => OwesStart(q)'
    BY <2>1, <2>2 DEF OwesStart, Awaits, Base
  <2>5. OwesLook(q) => OwesLook(q)'
    BY <1>0, <2>1, <2>2 DEF OwesLook, Looks
  <2> QED
    BY <1>a, <2>1, <2>2, <2>3, <2>4, <2>5, OwedMore
<1>b. ASSUME UNCHANGED actorVars
      PROVE  \A b \in Actor : /\ Inserting(b, q)' <=> Inserting(b, q)
                              /\ Committed(b, q)' <=> Committed(b, q)
                              /\ Starting(b, q)' <=> Starting(b, q)
  BY <1>b DEF Inserting, Committed, Starting
<1>c. ASSUME UNCHANGED actorVars
      PROVE  /\ Awaits("deactivate", q)' <=> Awaits("deactivate", q)
             /\ Awaits("activate", q)' <=> Awaits("activate", q)
             /\ Looks(q)' <=> Looks(q)
  BY <1>c DEF Awaits, Looks
<1>5. CASE DirTake
  <2>1. /\ batch' = dirty /\ batch = {}
        /\ UNCHANGED <<off, queue, applied, next, toOff, toOn, mode, disk,
                       unscanned, handles, filed, pc, job>>
    BY <1>5 DEF DirTake
  <2>2. /\ OwesStop(q)' <=> OwesStop(q)
        /\ OwesStart(q)' <=> OwesStart(q)
    BY <1>c, <2>1 DEF OwesStop, OwesStart, Base
  <2>3. OwesLook(q) => OwesLook(q)'
    BY <1>c, <2>1 DEF OwesLook
  <2> QED
    BY <1>a, <1>b, <2>1, <2>2, <2>3, OwedMore
<1>6. CASE CfgRecv
  <2>1. /\ mode = "recv" /\ mode' = "apply" /\ queue # <<>> /\ queue' = Tail(queue)
        /\ next' = Head(queue) /\ toOff' = next' \ applied /\ toOn' = applied \ next'
        /\ Base = applied /\ Base' = Head(queue)
        /\ UNCHANGED <<off, disk, dirty, batch, unscanned, handles, filed, pc, job>>
    BY <1>6 DEF CfgRecv, Apply, Base
  <2>2. queue \in Seq(SUBSET Plugin)
    BY DEF IInv, TypeInv, TypeOK
  <2>3. /\ toOff = {} /\ toOn = {} /\ ~Awaits("deactivate", q) /\ ~Awaits("activate", q)
    BY <2>1 DEF LoopInv, Awaits
  <2>4. /\ Head(queue) = queue[1] /\ Len(queue) \in Nat
        /\ \A i \in 2 .. Len(queue) : i - 1 \in 1 .. Len(queue') /\ queue'[i - 1] = queue[i]
    BY <2>1, <2>2, TailFacts
  <2>5. OwesStop(q) => OwesStop(q)'
    <3>1. CASE q \notin applied
      BY <2>1, <3>1 DEF OwesStop
    <3>2. ASSUME NEW i \in 1 .. Len(queue), q \notin queue[i] PROVE OwesStop(q)'
      <4>1. CASE i = 1
        BY <2>1, <2>4, <3>2, <4>1 DEF OwesStop
      <4>2. CASE i # 1
        <5>1. i \in 2 .. Len(queue)
          BY <2>4, <4>2
        <5> QED
          BY <2>4, <3>2, <5>1 DEF OwesStop
      <4> QED
        BY <4>1, <4>2
    <3> QED
      BY <2>1, <2>3, <3>1, <3>2 DEF OwesStop
  <2>6. OwesStart(q) => OwesStart(q)'
    <3>1. CASE q \in applied
      BY <2>1, <3>1 DEF OwesStart
    <3>2. ASSUME NEW i \in 1 .. Len(queue), q \in queue[i] PROVE OwesStart(q)'
      <4>1. CASE i = 1
        BY <2>1, <2>4, <3>2, <4>1 DEF OwesStart
      <4>2. CASE i # 1
        <5>1. i \in 2 .. Len(queue)
          BY <2>4, <4>2
        <5> QED
          BY <2>4, <3>2, <5>1 DEF OwesStart
      <4> QED
        BY <4>1, <4>2
    <3> QED
      BY <2>1, <2>3, <3>1, <3>2 DEF OwesStart
  <2>7. OwesLook(q) => OwesLook(q)'
    BY <1>c, <2>1 DEF OwesLook
  <2> QED
    BY <1>a, <1>b, <2>1, <2>5, <2>6, <2>7, OwedMore
<1>7. CASE CfgDrain
  BY <1>7, <1>a DEF CfgDrain, LoopInv, Trusted
<1>8. CASE CfgResync
  BY <1>8, <1>a DEF CfgResync, LoopInv, Trusted
<1>9. CASE CfgApplied
  <2>1. /\ Base' = Base
        /\ UNCHANGED <<off, queue, toOff, toOn, disk, dirty, batch, unscanned,
                       handles, filed, pc, job>>
    BY <1>9 DEF CfgApplied, Base
  <2>2. /\ OwesStop(q)' <=> OwesStop(q)
        /\ OwesStart(q)' <=> OwesStart(q)
        /\ OwesLook(q)' <=> OwesLook(q)
    BY <1>c, <2>1 DEF OwesStop, OwesStart, OwesLook
  <2> QED
    BY <1>a, <1>b, <2>1, <2>2, OwedMore
<1> QED
  BY <1>1, <1>2, <1>3, <1>4, <1>5, <1>6, <1>7, <1>8, <1>9 DEF Loops

\* A config write is itself what is owed: the snapshot it sends differs from
\* the end of what the loop has seen or will see.
LEMMA OwedEdit ==
  ASSUME IInv, LoopInv, EditConfig, ~everLagged', NEW q \in Plugin, Owed(q)
  PROVE  Owed(q)'
<1> USE DEF configVars, loopVars, diskVars, scanVars, taskVars, viewVars, actorVars
<1>1. PICK new \in SUBSET Plugin : Publish(new)
  BY DEF EditConfig
<1>2. /\ UNCHANGED <<applied, next, toOff, toOn, mode, disk, dirty, batch, unscanned,
                     handles, filed, pc, job>>
  BY DEF EditConfig
<1>3. /\ Awaits("deactivate", q)' <=> Awaits("deactivate", q)
      /\ Awaits("activate", q)' <=> Awaits("activate", q)
      /\ OwesLook(q)' <=> OwesLook(q)
      /\ Base' = Base
  BY <1>2 DEF Awaits, Looks, OwesLook, Base
<1>4. /\ queue \in Seq(SUBSET Plugin) /\ Len(queue) \in Nat /\ ~everLagged
      /\ queue' = Append(queue, new) /\ off' = new
  BY <1>1, PublishAppends DEF IInv, TypeInv, TypeOK
<1>5. \A i \in 1 .. Len(queue) : i \in 1 .. Len(queue') /\ queue'[i] = queue[i]
  BY <1>4, AppendFacts
<1>6. Base = off \/ (Len(queue) \in 1 .. Len(queue) /\ queue[Len(queue)] = off)
  <2>1. queue # <<>> => Len(queue) \in 1 .. Len(queue)
    BY <1>4, TailFacts
  <2> QED
    BY <1>4, <2>1 DEF LoopInv
<1>7. (OwesStop(q) => OwesStop(q)') /\ (OwesStart(q) => OwesStart(q)')
  BY <1>2, <1>3, <1>5 DEF OwesStop, OwesStart
<1>8. q \notin off => OwesStop(q)'
  BY <1>3, <1>5, <1>6 DEF OwesStop
<1>9. q \in off => OwesStart(q)'
  BY <1>3, <1>5, <1>6 DEF OwesStart
<1>10. \A b \in Actor : /\ Inserting(b, q)' <=> Inserting(b, q)
                        /\ Committed(b, q)' <=> Committed(b, q)
                        /\ Starting(b, q)' <=> Starting(b, q)
  BY <1>2 DEF Inserting, Committed, Starting
<1>11. OffIsStopped(q)'
  BY <1>2, <1>7, <1>8, <1>10 DEF Owed, OffIsStopped
<1>12. OnIsUnfiled(q)'
  BY <1>2, <1>7, <1>9 DEF Owed, OnIsUnfiled
<1>13. GoodIsKept(q)' /\ GoneIsStopped(q)'
  BY <1>2, <1>3, <1>10 DEF Owed, GoodIsKept, GoneIsStopped
<1> QED
  BY <1>11, <1>12, <1>13 DEF Owed

\* An edited folder will be looked at, if there is a folder watch.
LEMMA OwedDisk ==
  ASSUME IInv, NEW p \in Plugin, EditDisk(p), Trusted', NEW q \in Plugin, Owed(q)
  PROVE  Owed(q)'
<1> USE DEF configVars, loopVars, diskVars, scanVars, taskVars, viewVars, actorVars
<1>1. /\ UNCHANGED <<off, queue, applied, next, toOff, toOn, mode, batch, unscanned,
                     handles, filed, pc, job, stage>>
      /\ q # p => disk'[q] = disk[q]
      /\ edits' = [edits EXCEPT !["disk"] = @ + 1]
      /\ Touch(p)
  BY DEF EditDisk, IInv, TypeInv, TypeOK
<1>2. HotReload /\ stage = "up"
  BY <1>1 DEF Trusted, IInv, TypeInv, TypeOK
<1>3. dirty' = dirty \cup {p}
  BY <1>1, <1>2 DEF Touch
<1>4. \A b \in Actor : /\ Inserting(b, q)' <=> Inserting(b, q)
                       /\ Committed(b, q)' <=> Committed(b, q)
                       /\ Starting(b, q)' <=> Starting(b, q)
  BY <1>1 DEF Inserting, Committed, Starting
<1>5. /\ OwesStop(q)' <=> OwesStop(q)
      /\ OwesStart(q)' <=> OwesStart(q)
      /\ OwesLook(q) => OwesLook(q)'
      /\ q = p => OwesLook(q)'
  BY <1>1, <1>3 DEF OwesStop, OwesStart, OwesLook, Awaits, Looks, Base
<1>6. CASE q # p
  BY <1>1, <1>4, <1>5, <1>6, OwedMore
<1>7. CASE q = p
  <2>1. OffIsStopped(q)' /\ OnIsUnfiled(q)'
    BY <1>1, <1>4, <1>5 DEF Owed, OffIsStopped, OnIsUnfiled
  <2>2. GoodIsKept(q)' /\ GoneIsStopped(q)'
    BY <1>5, <1>7 DEF GoodIsKept, GoneIsStopped
  <2> QED
    BY <2>1, <2>2 DEF Owed
<1> QED
  BY <1>6, <1>7

LEMMA OwedOthers ==
  ASSUME IInv, LoopInv, OwedInv, Shutdown \/ Environment \/ \E p \in Plugin : OrphanEnds(p)
  PROVE  OwedInv'
<1> SUFFICES ASSUME Trusted', NEW q \in Plugin PROVE Owed(q)'
  BY DEF OwedInv
<1> USE DEF configVars, loopVars, diskVars, scanVars, taskVars, viewVars, actorVars
<1>a. ASSUME UNCHANGED <<everLagged, stage, edits>> PROVE Owed(q)
  BY <1>a DEF Trusted, OwedInv
<1>b. ASSUME UNCHANGED <<off, queue, applied, next, toOff, toOn, mode, disk, dirty, batch,
                         unscanned, filed, pc, job, everLagged, stage, edits>>,
             handles'[q] = "none" <=> handles[q] = "none"
      PROVE  Owed(q)'
  <2>1. /\ OwesStop(q)' <=> OwesStop(q)
        /\ OwesStart(q)' <=> OwesStart(q)
        /\ OwesLook(q)' <=> OwesLook(q)
    BY <1>b DEF OwesStop, OwesStart, OwesLook, Awaits, Looks, Base
  <2>2. \A b \in Actor : /\ Inserting(b, q)' <=> Inserting(b, q)
                         /\ Committed(b, q)' <=> Committed(b, q)
                         /\ Starting(b, q)' <=> Starting(b, q)
    BY <1>b DEF Inserting, Committed, Starting
  <2> QED
    BY <1>a, <1>b, <2>1, <2>2, OwedMore
<1>1. ~Drain /\ ~ShutdownDone /\ ~Cancel
  BY DEF Drain, ShutdownDone, Cancel, Trusted
<1>3. ASSUME NEW p \in Plugin, StopDrained(p) PROVE FALSE
  BY <1>3 DEF StopDrained, Trusted
<1>4. CASE EditConfig
  <2>1. ~everLagged' /\ Owed(q)
    BY <1>4 DEF EditConfig, Publish, Trusted, OwedInv, IInv, TypeInv, TypeOK
  <2> QED
    BY <1>4, <2>1, OwedEdit
<1>6. ASSUME NEW p \in Plugin, EditDisk(p) PROVE Owed(q)'
  <2>1. Owed(q)
    BY <1>6 DEF EditDisk, Trusted, OwedInv, IInv, TypeInv, TypeOK
  <2> QED
    BY <1>6, <2>1, OwedDisk
<1>7. ASSUME NEW p \in Plugin, Render(p) PROVE Owed(q)'
  BY <1>7, <1>b DEF Render
<1>8. ASSUME NEW p \in Plugin, GiveUp(p) PROVE Owed(q)'
  <2>1. handles'[q] = "none" <=> handles[q] = "none"
    BY <1>8 DEF GiveUp, IInv, TypeInv, TypeOK
  <2> QED
    BY <1>8, <1>b, <2>1 DEF GiveUp
<1>9. ASSUME NEW r \in Request, Ask(r) PROVE Owed(q)'
  <2>1. PICK op \in {"restart", "remove", "replace"}, p \in Plugin : Begin(r, op, p)
    BY <1>9 DEF Ask
  <2>2. /\ r \in Actor /\ r # Cfg /\ r # Dir /\ Cfg \in Actor /\ Dir \in Actor
        /\ pc[r] = "idle"
        /\ UNCHANGED <<off, queue, applied, next, toOff, toOn, mode, disk, dirty, batch,
                       unscanned, filed, handles, everLagged, stage, edits>>
    BY <1>9, ActorAssumption DEF Ask, Actor
  <2>3. /\ \A b \in Actor : /\ Inserting(b, q)' => Inserting(b, q)
                            /\ Committed(b, q)' => Committed(b, q)
                            /\ Starting(b, q) => Starting(b, q)'
        /\ \A b \in Actor \ {r} : pc'[b] = pc[b] /\ job'[b] = job[b]
    BY <2>1, <2>2, OwedBegin
  <2>4. /\ Awaits("deactivate", q)' <=> Awaits("deactivate", q)
        /\ Awaits("activate", q)' <=> Awaits("activate", q)
        /\ Looks(q)' <=> Looks(q)
    BY <2>2, <2>3 DEF Awaits, Looks
  <2>5. /\ OwesStop(q)' <=> OwesStop(q)
        /\ OwesStart(q)' <=> OwesStart(q)
        /\ OwesLook(q)' <=> OwesLook(q)
    BY <2>2, <2>4 DEF OwesStop, OwesStart, OwesLook, Base
  <2> QED
    BY <1>a, <2>2, <2>3, <2>5, OwedMore
<1>10. ASSUME NEW p \in Plugin, OrphanEnds(p) PROVE Owed(q)'
  BY <1>10, <1>b DEF OrphanEnds
<1> QED
  BY <1>1, <1>3, <1>4, <1>6, <1>7, <1>8, <1>9, <1>10 DEF Shutdown, Environment

LEMMA OwedStep == IInv /\ LoopInv /\ OwedInv /\ [Next]_vars => OwedInv'
<1> SUFFICES ASSUME IInv, LoopInv, OwedInv, [Next]_vars PROVE OwedInv'
  OBVIOUS
<1>1. CASE Next
  BY <1>1, OwedTransition, OwedLoops, OwedOthers DEF Next
<1>2. CASE UNCHANGED vars
  <2> SUFFICES ASSUME Trusted', NEW q \in Plugin PROVE Owed(q)'
    BY DEF OwedInv
  <2>1. UNCHANGED <<off, queue, applied, next, toOff, toOn, mode, disk, dirty, batch,
                    unscanned, handles, filed, pc, job, everLagged, stage, edits>>
    BY <1>2 DEF vars, configVars, loopVars, diskVars, scanVars, taskVars, viewVars,
       actorVars
  <2>2. Owed(q)
    BY <2>1 DEF Trusted, OwedInv
  <2>3. /\ OwesStop(q)' <=> OwesStop(q)
        /\ OwesStart(q)' <=> OwesStart(q)
        /\ OwesLook(q)' <=> OwesLook(q)
    BY <2>1 DEF OwesStop, OwesStart, OwesLook, Awaits, Looks, Base
  <2>4. \A b \in Actor : /\ Inserting(b, q)' <=> Inserting(b, q)
                         /\ Committed(b, q)' <=> Committed(b, q)
                         /\ Starting(b, q)' <=> Starting(b, q)
    BY <2>1 DEF Inserting, Committed, Starting
  <2> QED
    BY <2>1, <2>2, <2>3, <2>4, OwedMore
<1> QED
  BY <1>1, <1>2

\* When nothing is in flight nothing is owed, so every plugin is in step.
LEMMA OwedSettles == LoopInv /\ OwedInv => ConvergesWhenSettled
<1> SUFFICES ASSUME LoopInv, OwedInv, Settled, ~everLagged,
                    HotReload \/ edits["disk"] = 0, NEW p \in Plugin
             PROVE  InStep(p)
  BY DEF ConvergesWhenSettled
<1>1. Owed(p)
  BY DEF Settled, Trusted, OwedInv
<1>2. \A a \in Actor : pc[a] \in {"idle", "done"}
  BY DEF Settled
<1>3. \A a \in Actor : ~Starting(a, p)
  BY <1>2 DEF Starting
<1>4. ~Awaits("deactivate", p) /\ ~Awaits("activate", p) /\ ~Looks(p)
  BY <1>2 DEF Awaits, Looks, Actor
<1>5. queue = <<>> /\ toOff = {} /\ toOn = {} /\ Base = off /\ dirty = {} /\ batch = {}
      /\ unscanned = {}
  BY DEF Settled, Booted, LoopInv
<1>6. \A i \in 1 .. Len(queue) : FALSE
  BY <1>5
<1>7. ~OwesLook(p) /\ (p \in off => ~OwesStop(p)) /\ (p \notin off => ~OwesStart(p))
  BY <1>4, <1>5, <1>6 DEF OwesLook, OwesStop, OwesStart
<1>8. (p \in off => handles[p] = "none") /\ (p \notin off => p \notin filed)
  BY <1>1, <1>7 DEF Owed, OffIsStopped, OnIsUnfiled
<1>9. disk[p] = Good => p \in filed \/ handles[p] # "none"
  BY <1>1, <1>3, <1>5, <1>7 DEF Owed, GoodIsKept
<1>10. disk[p].manifest = "none" => handles[p] = "none"
  BY <1>1, <1>7 DEF Owed, GoneIsStopped
<1> QED
  BY <1>8, <1>9, <1>10 DEF InStep

\* Once nothing is in flight, what the config and the folders ask for is what the
\* supervisor does, for every number of plugins, requests and edits and every
\* capacity of the config channel (reconcile, apply_folder_change, activation).
THEOREM ConvergenceCorrect == Spec => []ConvergesWhenSettled
<1>1. Init => LoopInv /\ OwedInv
  BY LoopInit, OwedInit
<1>2. IInv /\ LoopInv /\ OwedInv /\ [Next]_vars => (LoopInv /\ OwedInv)'
  BY LoopStep, OwedStep
<1>3. LoopInv /\ OwedInv => ConvergesWhenSettled
  BY OwedSettles
<1> QED
  BY ProtocolCorrect, <1>1, <1>2, <1>3, PTL DEF Spec

================================================================================
