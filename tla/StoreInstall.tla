----------------------------- MODULE StoreInstall ------------------------------
(***************************************************************************)
(* The install transaction of the Community Store, its rollback, the       *)
(* removal of plugins and the recovery after a crash, down to the single   *)
(* changes on disk.  Source: store/install.rs, install/rollback.rs,        *)
(* local.rs, journal.rs, receipts.rs, refresh.rs (sweep_orphan_receipts),  *)
(* plugins/replace.rs, remove.rs and seed.rs (sweep_orphaned_data).        *)
(*                                                                         *)
(* A folder is the version it holds and whether it was edited since: what  *)
(* a digest tells apart.  A step of the disk happens or fails; a crash     *)
(* ends all tasks and keeps the disk.                                      *)
(***************************************************************************)
EXTENDS Naturals

CONSTANTS Plugin, StoreVersion, LocalVersion, NoVersion,
          Overlap,      \* removals overlap with installs
          EditsInside,  \* folders change while their transaction is open
          MaxInstalls, MaxCrashes, MaxFaults, MaxEdits  \* bounds

ASSUME StoreAssumption ==
    /\ StoreVersion \cap LocalVersion = {}
    /\ NoVersion \notin StoreVersion \cup LocalVersion
    /\ "none" \notin Plugin
    /\ {Overlap, EditsInside} \subseteq BOOLEAN
    /\ {MaxInstalls, MaxCrashes, MaxFaults, MaxEdits} \subseteq Nat

VARIABLES
    dir,      \* plugins/<id>
    backup,   \* store/backups/<id>
    staged,   \* store/staging: the extracted archive
    failed,   \* store/staging: code that a rollback moved out
    receipts, \* store/installed.json
    journal,  \* store/transaction.json
    data,     \* the plugins that have a data directory
    phase,    \* the program: starting up, step by step, or up
    pc, id,   \* where each task is and on which plugin
    tx,       \* the install's transaction
    undo,     \* it is being rolled back
    copy,     \* receipts a task read and will write back
    wanted,   \* history: installed plugins that nobody set out to delete
    before,   \* history: version and receipt before the last install
    count     \* bound counters

folderVars == <<dir, backup, staged, failed>>
diskVars   == <<folderVars, receipts, journal, data>>
taskVars   == <<pc, id, tx, undo, copy>>
history    == <<wanted, before>>
vars == <<diskVars, phase, taskVars, history, count>>

Version  == StoreVersion \cup LocalVersion
NoFolder == [v |-> NoVersion, edited |-> FALSE]
Folder   == [v : Version, edited : BOOLEAN] \cup {NoFolder}
Clean(v) == [v |-> v, edited |-> FALSE]

ReceiptFor(v) == IF v \in StoreVersion THEN v ELSE NoVersion

\* Journal: the plugin, whether it had a folder, the version (digest) that goes
\* in and the receipt to return to.  Only a store version gets a receipt.
NoTx == [id |-> "none", had |-> FALSE, new |-> NoVersion, prev |-> NoVersion]
Tx   == [id : Plugin, had : BOOLEAN, new : Version,
         prev : StoreVersion \cup {NoVersion}] \cup {NoTx}
Pending == journal # NoTx

Actor == {"install", "remove"}
PCs   == {"idle", "stage", "journal", "lock", "clear", "out", "in", "fresh", "load",
          "save", "commit", "settle", "check", "delete", "forget", "drop"}

TypeOK ==
    /\ dir \in [Plugin -> Folder] /\ backup \in [Plugin -> Folder]
    /\ staged \in Folder /\ failed \in Folder
    /\ receipts \in [Plugin -> StoreVersion \cup {NoVersion}]
    /\ journal \in Tx /\ data \in SUBSET Plugin
    /\ phase \in {"replay", "receipts", "clear", "sweep", "up"}
    /\ pc \in [Actor -> PCs] /\ id \in [Actor -> Plugin]
    /\ tx \in Tx /\ undo \in BOOLEAN
    /\ copy \in [Actor -> [Plugin -> StoreVersion \cup {NoVersion}]]
    /\ wanted \in SUBSET Plugin
    /\ before \in [Plugin -> [code : Version \cup {NoVersion},
                              receipt : StoreVersion \cup {NoVersion}]]
    /\ count \in [{"install", "crash", "fault", "edit"} -> Nat]

--------------------------------------------------------------------------------
\* What recovery makes of the disk.

InPlaceIsNew == dir[journal.id].v = journal.new /\ ~dir[journal.id].edited

MustRestore == dir[journal.id] = NoFolder /\ journal.had

ReplayedReceipt(folder) ==
    IF InPlaceIsNew THEN ReceiptFor(journal.new)
    ELSE IF folder = NoFolder THEN NoVersion ELSE journal.prev

\* The version and receipt p ends up with if the program crashes now.  A
\* receipt without a folder is dropped by the next sweep and names nothing.
AfterRecovery(p) ==
    LET folder == IF journal.id = p /\ MustRestore THEN backup[p] ELSE dir[p] IN
    [code    |-> folder.v,
     receipt |-> IF journal.id = p THEN ReplayedReceipt(folder)
                 ELSE IF folder = NoFolder THEN NoVersion ELSE receipts[p]]

Init ==
    /\ \E v \in [Plugin -> Version \cup {NoVersion}] :
          /\ dir = [p \in Plugin |-> Clean(v[p])]
          /\ receipts = [p \in Plugin |-> ReceiptFor(v[p])]
    /\ backup = [p \in Plugin |-> NoFolder]
    /\ staged = NoFolder /\ failed = NoFolder
    /\ journal = NoTx
    /\ data = {p \in Plugin : dir[p] # NoFolder} /\ wanted = data
    /\ phase = "up"
    /\ pc = [a \in Actor |-> "idle"] /\ id \in [Actor -> Plugin]
    /\ tx = NoTx /\ undo = FALSE
    /\ copy = [a \in Actor |-> receipts]
    /\ before = [p \in Plugin |-> [code |-> dir[p].v, receipt |-> receipts[p]]]
    /\ count = [k \in {"install", "crash", "fault", "edit"} |-> 0]

--------------------------------------------------------------------------------
\* Helpers.

Count(k, max) == count[k] < max /\ count' = [count EXCEPT ![k] = @ + 1]

At(a, label)   == phase = "up" /\ pc[a] = label
Goto(a, label) == pc' = [pc EXCEPT ![a] = label]

\* A task is between lifecycle_guard and the end of its swap or removal.
InGuard(a, p) == id[a] = p /\ pc[a] \in {"clear", "out", "in", "fresh", "check",
                                        "delete", "forget", "drop"}

LockFree(p) == \A a \in Actor : ~InGuard(a, p)

\* A step of the disk failed: the task ends with an error, what it wrote stays.
Fault(a) ==
    /\ Count("fault", MaxFaults)
    /\ Goto(a, "idle")
    /\ UNCHANGED <<diskVars, phase, id, tx, undo, copy, history>>

--------------------------------------------------------------------------------
\* Installing: guard, stage, journal.

\* A folder without a receipt is the user's own and no store version replaces
\* it; an imported ZIP may, once confirmed.
Allowed(p, v) == v \in StoreVersion => dir[p] = NoFolder \/ receipts[p] # NoVersion

\* journal::ensure_idle and the guard; an edited copy is replaced if confirmed.
Begin(p, v) ==
    /\ At("install", "idle") /\ ~Pending /\ Allowed(p, v)
    /\ Overlap \/ pc["remove"] = "idle"
    /\ Count("install", MaxInstalls)
    /\ Goto("install", "stage")
    /\ id' = [id EXCEPT !["install"] = p]
    /\ tx' = [id |-> p, had |-> FALSE, new |-> v, prev |-> receipts[p]]
    /\ undo' = FALSE
    /\ UNCHANGED <<diskVars, phase, copy, history>>

\* Downloaded, verified, extracted; the folder that is there now is backed up.
\* For a ZIP, the previous receipt is read only now.
Stage ==
    /\ At("install", "stage")
    /\ staged' = Clean(tx.new)
    /\ tx' = [tx EXCEPT !.had = (dir[tx.id] # NoFolder),
                        !.prev = IF tx.new \in LocalVersion THEN receipts[tx.id] ELSE @]
    /\ Goto("install", "journal")
    /\ UNCHANGED <<dir, backup, failed, receipts, journal, data, phase, id, undo, copy,
                   history, count>>

\* Mutant: the swap is not journaled.
WriteJournal_None ==
    /\ At("install", "journal") /\ ~Pending
    /\ Goto("install", "lock")
    /\ UNCHANGED <<diskVars, phase, id, tx, undo, copy, history, count>>

\* journal::write, before the swap and again before the reverse swap.
WriteJournal ==
    /\ At("install", "journal") /\ ~Pending
    /\ journal' = tx
    /\ Goto("install", "lock")
    /\ UNCHANGED <<folderVars, receipts, data, phase, id, tx, undo, copy, history, count>>

--------------------------------------------------------------------------------
\* replace_dir, from the staged folder to a backup of the old one; a rollback
\* swaps the backup with the folder for failed code.

Source == IF undo THEN backup[tx.id] ELSE staged
Target == IF undo THEN failed ELSE backup[tx.id]

SetTarget(f) ==
    IF undo THEN failed' = f /\ UNCHANGED <<backup, staged>>
    ELSE backup' = [backup EXCEPT ![tx.id] = f] /\ UNCHANGED <<staged, failed>>

TakeSource ==
    IF undo THEN backup' = [backup EXCEPT ![tx.id] = NoFolder] /\ UNCHANGED <<staged, failed>>
    ELSE staged' = NoFolder /\ UNCHANGED <<backup, failed>>

\* Nothing to put in place: an error (a removal that overlaps took it away).  Otherwise
\* lifecycle_guard; the running instance is stopped.
LockSwap ==
    /\ At("install", "lock") /\ (Source = NoFolder \/ LockFree(tx.id))
    /\ Goto("install", IF Source = NoFolder THEN "idle"
                       ELSE IF dir[tx.id] = NoFolder THEN "fresh" ELSE "clear")
    /\ UNCHANGED <<diskVars, phase, id, tx, undo, copy, history, count>>

ClearTarget ==
    /\ At("install", "clear")
    /\ SetTarget(NoFolder)
    /\ Goto("install", "out")
    /\ UNCHANGED <<dir, receipts, journal, data, phase, id, tx, undo, copy, history, count>>

MoveOut ==
    /\ At("install", "out")
    /\ SetTarget(dir[tx.id])
    /\ dir' = [dir EXCEPT ![tx.id] = NoFolder]
    /\ Goto("install", "in")
    /\ UNCHANGED <<receipts, journal, data, phase, id, tx, undo, copy, history, count>>

\* The version is in place; its process may start and has a data directory.
MoveIn ==
    /\ At("install", "in") \/ At("install", "fresh")
    /\ dir' = [dir EXCEPT ![tx.id] = Source]
    /\ TakeSource
    /\ data' = data \cup {tx.id}
    /\ wanted' = wanted \cup {tx.id}
    /\ before' = IF undo THEN before
                 ELSE [before EXCEPT ![tx.id] = AfterRecovery(tx.id)]
    /\ Goto("install", "load")
    /\ UNCHANGED <<receipts, journal, phase, id, tx, undo, copy, count>>

\* The second rename failed: the old folder is moved back, if it can be.
MoveInFails ==
    /\ At("install", "in") \/ At("install", "fresh")
    /\ Count("fault", MaxFaults)
    /\ \/ /\ pc["install"] = "in"
          /\ dir' = [dir EXCEPT ![tx.id] = Target]
          /\ SetTarget(NoFolder)
       \/ UNCHANGED folderVars
    /\ Goto("install", "idle")
    /\ UNCHANGED <<receipts, journal, data, phase, id, tx, undo, copy, history>>

--------------------------------------------------------------------------------
\* write_receipt, journal::clear, settle.

LoadReceipts ==
    /\ At("install", "load")
    /\ copy' = [copy EXCEPT !["install"] = receipts]
    /\ Goto("install", "save")
    /\ UNCHANGED <<diskVars, phase, id, tx, undo, history, count>>

NewReceipt == IF undo THEN tx.prev ELSE ReceiptFor(tx.new)

\* The end of a rolled back fresh install finds the journal cleared already.
SaveReceipts ==
    /\ At("install", "save")
    /\ receipts' = [copy["install"] EXCEPT ![tx.id] = NewReceipt]
    /\ Goto("install", IF undo /\ ~tx.had THEN "idle" ELSE "commit")
    /\ UNCHANGED <<folderVars, journal, data, phase, id, tx, undo, copy, history, count>>

ClearJournal ==
    /\ At("install", "commit")
    /\ journal' = NoTx
    /\ failed' = IF undo THEN NoFolder ELSE failed
    /\ Goto("install", IF undo THEN "idle" ELSE "settle")
    /\ UNCHANGED <<dir, backup, staged, receipts, data, phase, id, tx, undo, copy, history,
                   count>>

Started ==
    /\ At("install", "settle")
    /\ Goto("install", "idle")
    /\ UNCHANGED <<diskVars, phase, id, tx, undo, copy, history, count>>

\* rollback::run: the reverse swap, or the removal of a fresh install.
Rollback ==
    /\ At("install", "settle")
    /\ undo' = TRUE
    /\ Goto("install", IF tx.had THEN "journal" ELSE "check")
    /\ UNCHANGED <<diskVars, phase, id, tx, copy, history, count>>

--------------------------------------------------------------------------------
\* PluginSupervisor::remove, by the user or by the rollback of a fresh install.

AskRemove(p) ==
    /\ At("remove", "idle") /\ LockFree(p)
    /\ Overlap \/ pc["install"] = "idle"
    /\ dir[p] # NoFolder
    /\ Goto("remove", "check")
    /\ id' = [id EXCEPT !["remove"] = p]
    /\ UNCHANGED <<diskVars, phase, tx, undo, copy, history, count>>

\* ensure_idle: refused while a transaction is open.
CheckRemove(a) ==
    /\ At(a, "check")
    /\ \A b \in Actor \ {a} : ~InGuard(b, id[a])
    /\ IF Pending \/ dir[id[a]] = NoFolder
         THEN Goto(a, "idle") /\ UNCHANGED wanted
         ELSE Goto(a, "delete") /\ wanted' = wanted \ {id[a]}
    /\ UNCHANGED <<diskVars, phase, id, tx, undo, copy, before, count>>

\* A deletion that fails half way leaves a damaged folder.
DeleteFails(a) ==
    /\ At(a, "delete") /\ Count("fault", MaxFaults)
    /\ dir' = [dir EXCEPT ![id[a]].edited = (dir[id[a]] # NoFolder)]
    /\ Goto(a, "idle")
    /\ UNCHANGED <<backup, staged, failed, receipts, journal, data, phase, id, tx, undo, copy,
                   history>>

\* The folder, then the data (unless a transaction has been opened meanwhile).
Delete(a) ==
    /\ At(a, "delete")
    /\ dir' = [dir EXCEPT ![id[a]] = NoFolder]
    /\ data' = IF Pending THEN data ELSE data \ {id[a]}
    /\ Goto(a, "forget")
    /\ UNCHANGED <<backup, staged, failed, receipts, journal, phase, id, tx, undo, copy,
                   history, count>>

\* forget_plugin, without the receipts lock: the backup goes, the receipts are read.
Forget(a) ==
    /\ At(a, "forget")
    /\ IF Pending THEN Goto(a, "idle") /\ UNCHANGED <<backup, copy>>
       ELSE /\ backup' = [backup EXCEPT ![id[a]] = NoFolder]
            /\ copy' = [copy EXCEPT ![a] = receipts]
            /\ Goto(a, "drop")
    /\ UNCHANGED <<dir, staged, failed, receipts, journal, data, phase, id, tx, undo,
                   history, count>>

\* ... and written back without this plugin, if it had a receipt.
Drop(a) ==
    /\ At(a, "drop")
    /\ IF copy[a][id[a]] = NoVersion THEN UNCHANGED <<receipts, count>>
       ELSE \/ receipts' = [copy[a] EXCEPT ![id[a]] = NoVersion] /\ UNCHANGED count
            \/ Count("fault", MaxFaults) /\ UNCHANGED receipts
    /\ Goto(a, IF a = "install" THEN "load" ELSE "idle")
    /\ UNCHANGED <<folderVars, journal, data, phase, id, tx, undo, copy, history>>

\* sweep_orphan_receipts, after a refresh and with the install lock.
SweepReceipt(p) ==
    /\ At("install", "idle") /\ ~Pending
    /\ receipts[p] # NoVersion /\ dir[p] = NoFolder
    /\ receipts' = [receipts EXCEPT ![p] = NoVersion]
    /\ backup' = [backup EXCEPT ![p] = NoFolder]
    /\ UNCHANGED <<dir, staged, failed, journal, data, phase, taskVars, history, count>>

\* The user, or the plugin itself, writes into the folder.
Edit(p) ==
    /\ phase = "up" /\ dir[p] # NoFolder /\ ~dir[p].edited
    /\ EditsInside \/ (journal.id # p /\ ~(pc["install"] # "idle" /\ id["install"] = p))
    /\ Count("edit", MaxEdits)
    /\ dir' = [dir EXCEPT ![p].edited = TRUE]
    /\ UNCHANGED <<backup, staged, failed, receipts, journal, data, phase, taskVars, history>>

--------------------------------------------------------------------------------
\* A crash, and the next start: recover, sweep_orphaned_data.

Crash ==
    /\ Count("crash", MaxCrashes)
    /\ phase' = "replay"
    /\ pc' = [a \in Actor |-> "idle"]
    /\ tx' = NoTx /\ undo' = FALSE
    /\ UNCHANGED <<diskVars, id, copy, history>>

\* The backup is moved back when the folder is missing.
Replay ==
    /\ phase = "replay"
    /\ IF ~Pending THEN phase' = "sweep" /\ UNCHANGED <<dir, backup>>
       ELSE /\ phase' = "receipts"
            /\ IF MustRestore
                 THEN /\ backup[journal.id] # NoFolder
                      /\ dir' = [dir EXCEPT ![journal.id] = backup[journal.id]]
                      /\ backup' = [backup EXCEPT ![journal.id] = NoFolder]
                 ELSE UNCHANGED <<dir, backup>>
    /\ UNCHANGED <<staged, failed, receipts, journal, data, taskVars, history, count>>

ReplayReceipts ==
    /\ phase = "receipts"
    /\ receipts' = [receipts EXCEPT ![journal.id] = ReplayedReceipt(dir[journal.id])]
    /\ phase' = "clear"
    /\ UNCHANGED <<folderVars, journal, data, taskVars, history, count>>

ReplayClear ==
    /\ phase = "clear"
    /\ journal' = NoTx
    /\ phase' = "sweep"
    /\ UNCHANGED <<folderVars, receipts, data, taskVars, history, count>>

\* A step of recovery failed, or there is nothing to restore from.
ReplayFails ==
    /\ phase \in {"replay", "receipts", "clear"} /\ Pending
    /\ \/ Count("fault", MaxFaults)
       \/ phase = "replay" /\ MustRestore /\ backup[journal.id] = NoFolder /\ UNCHANGED count
    /\ phase' = "sweep"
    /\ UNCHANGED <<diskVars, taskVars, history>>

\* Staging is cleared after a recovery, data without a folder is swept.
Sweep ==
    /\ phase = "sweep"
    /\ IF Pending THEN UNCHANGED <<staged, failed, data>>
       ELSE /\ data' = {p \in data : dir[p] # NoFolder}
            /\ staged' = NoFolder /\ failed' = NoFolder
    /\ phase' = "up"
    /\ UNCHANGED <<dir, backup, receipts, journal, taskVars, history, count>>

--------------------------------------------------------------------------------
Install ==
    \/ \E p \in Plugin, v \in Version : Begin(p, v)
    \/ Stage \/ WriteJournal
    \/ LockSwap \/ ClearTarget \/ MoveOut \/ MoveIn \/ MoveInFails
    \/ LoadReceipts \/ SaveReceipts \/ ClearJournal \/ Started \/ Rollback
    \/ /\ phase = "up"
       /\ pc["install"] \in {"stage", "journal", "lock", "clear", "out", "load", "save",
                             "commit"}
       /\ Fault("install")

Removal ==
    \/ \E p \in Plugin : AskRemove(p)
    \/ \E a \in Actor : CheckRemove(a) \/ DeleteFails(a) \/ Delete(a) \/ Forget(a) \/ Drop(a)

Recover == Replay \/ ReplayReceipts \/ ReplayClear \/ ReplayFails \/ Sweep

Next ==
    \/ Install \/ Removal \/ Recover \/ Crash
    \/ \E p \in Plugin : SweepReceipt(p) \/ Edit(p)

Spec == Init /\ [][Next]_vars

--------------------------------------------------------------------------------
\* Properties

\* Whatever fails and whenever the program dies: a plugin that was installed and
\* that nobody asked to remove has its folder, or an open transaction has its
\* backup, and its data is still there.
NothingIsLost ==
    \A p \in wanted :
        /\ dir[p] # NoFolder \/ (journal.id = p /\ backup[p] # NoFolder)
        /\ p \in data

\* Recovery never needs the user: when it has to restore a folder, the backup is
\* there (journal::replay).
RecoveryIsPossible == Pending /\ MustRestore => backup[journal.id] # NoFolder

\* With no transaction open and no task at work, what the store installed has
\* its receipt, and nothing else has one: no version is taken for another, no
\* Community Plugin for the user's own.
Quiet == phase = "up" /\ ~Pending /\ \A a \in Actor : pc[a] = "idle"

ReceiptsMatchFolders ==
    Quiet => \A p \in Plugin :
                dir[p] # NoFolder => receipts[p] = ReceiptFor(dir[p].v)

\* Seen through recovery, installs, rollbacks and removals are atomic.
Abstract == INSTANCE PluginStore WITH
    code    <- [p \in Plugin |-> AfterRecovery(p).code],
    receipt <- [p \in Plugin |-> AfterRecovery(p).receipt],
    before  <- before

ImplementsPluginStore == Abstract!Spec
================================================================================
