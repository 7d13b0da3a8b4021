-------------------------- MODULE StoreInstall_proofs --------------------------
(***************************************************************************)
(* The store keeps its promise: seen through recovery, installs, their     *)
(* undoing and removals are atomic, for any plugins, versions, crashes,    *)
(* failing steps and edits.  Removals do not overlap with installs, and    *)
(* folders do not change inside a transaction.                             *)
(***************************************************************************)
EXTENDS StoreInstall, TLAPS

InstallAt(labels) == pc["install"] \in labels

\* One task at a time, and none while the program starts.
OneAtATime ==
    /\ pc["remove"] \in {"idle", "check", "delete", "forget", "drop"}
    /\ pc["install"] = "idle" \/ pc["remove"] = "idle"
    /\ phase # "up" => pc["install"] = "idle" /\ pc["remove"] = "idle"

\* Where no transaction is open a folder has the receipt of its version.
HonestReceipts ==
    \A p \in Plugin : journal.id # p /\ dir[p] # NoFolder => receipts[p] = ReceiptFor(dir[p].v)

\* A transaction that recovery would undo has what it takes: the folder or its backup, and
\* the receipt of that version.
HonestJournal ==
    Pending =>
        /\ dir[journal.id] # NoFolder /\ ~InPlaceIsNew => journal.prev = ReceiptFor(dir[journal.id].v)
        /\ MustRestore => /\ backup[journal.id] # NoFolder
                          /\ journal.prev = ReceiptFor(backup[journal.id].v)

\* What an install holds at each of its steps.
Old    == dir[tx.id]
Before == tx.had <=> Old # NoFolder
OldHasReceipt == tx.had => tx.prev = ReceiptFor(Old.v)
Ready    == staged = Clean(tx.new) /\ Before /\ OldHasReceipt
BackedUp == /\ backup[tx.id] # NoFolder /\ tx.prev = ReceiptFor(backup[tx.id].v)
            /\ before[tx.id] = [code |-> backup[tx.id].v, receipt |-> tx.prev]
InPlace  == Old = Clean(tx.new) /\ (tx.had => BackedUp)

Installing ==
    /\ ~InstallAt({"idle"}) => tx \in Tx \ {NoTx} /\ id["install"] = tx.id
    /\ InstallAt({"stage"}) => ~undo /\ ~Pending /\ tx.prev = receipts[tx.id]
    /\ InstallAt({"journal"}) => ~Pending /\ (~undo => Ready)
    /\ InstallAt({"lock", "clear", "out", "in", "fresh", "commit"}) => journal = tx
    /\ InstallAt({"lock", "clear", "out"}) /\ ~undo => Ready
    /\ InstallAt({"clear", "out", "in"}) => tx.had
    /\ InstallAt({"in"}) /\ ~undo => staged = Clean(tx.new)
    /\ InstallAt({"in", "fresh"}) => Old = NoFolder
    /\ InstallAt({"fresh"}) => ~undo /\ ~tx.had /\ staged = Clean(tx.new)
    /\ InstallAt({"journal", "lock", "clear", "out"}) /\ undo => tx.had /\ InPlace
    /\ InstallAt({"in"}) /\ undo => failed = Clean(tx.new) /\ BackedUp
    /\ InstallAt({"load", "save", "commit"}) /\ ~undo => journal = tx /\ InPlace
    /\ InstallAt({"load", "save", "commit"}) /\ undo /\ tx.had =>
           journal = tx /\ Old # NoFolder /\ tx.prev = ReceiptFor(Old.v)
    /\ InstallAt({"load", "save"}) /\ undo /\ ~tx.had => ~Pending /\ Old = NoFolder
    /\ InstallAt({"commit"}) => (undo => tx.had) /\ receipts[tx.id] = NewReceipt
    /\ InstallAt({"save", "drop"}) => copy["install"] = receipts
    /\ InstallAt({"settle"}) => ~undo /\ ~Pending /\ InPlace
    /\ InstallAt({"check", "delete", "forget", "drop"}) => undo /\ ~tx.had /\ ~Pending
    /\ InstallAt({"delete"}) => Old # NoFolder
    /\ InstallAt({"forget", "drop"}) => Old = NoFolder

\* What a removal holds.
Removing ==
    /\ pc["remove"] \in {"delete", "forget", "drop"} => ~Pending
    /\ pc["remove"] = "delete" => dir[id["remove"]] # NoFolder
    /\ pc["remove"] \in {"forget", "drop"} => dir[id["remove"]] = NoFolder
    /\ pc["remove"] = "drop" => \A p \in Plugin : dir[p] # NoFolder => copy["remove"][p] = receipts[p]

\* What a recovery has done.
Recovering ==
    /\ phase \in {"receipts", "clear"} => Pending /\ ~MustRestore
    /\ phase = "clear" => receipts[journal.id] = ReplayedReceipt(dir[journal.id])

StoreInv == TypeOK /\ OneAtATime /\ HonestReceipts /\ HonestJournal /\ Installing /\ Removing /\ Recovering

\* The folder that recovery leaves, and a step that does not show in it.
Kept(p) == IF journal.id = p /\ MustRestore THEN backup[p] ELSE dir[p]
Unseen  == before' = before /\ \A p \in Plugin : Kept(p)'.v = Kept(p).v

USE DEF Actor, At, Goto, Count, InstallAt, diskVars, folderVars, taskVars, history

--------------------------------------------------------------------------------
\* What folders and transactions are made of.

LEMMA FolderFacts ==
    /\ NoFolder \in Folder /\ NoFolder.v = NoVersion /\ NoVersion \notin Version
    /\ \A v \in Version : Clean(v) \in Folder /\ Clean(v) # NoFolder /\ Clean(v).v = v /\ ~Clean(v).edited
    /\ \A f \in Folder : (f.v \in Version \/ f = NoFolder) /\ (f # NoFolder => f.v \in Version)
  BY StoreAssumption DEF Folder, NoFolder, Clean, Version

\* Writing into a folder marks it, and makes none.
LEMMA EditedFacts ==
    ASSUME NEW f \in Folder \ {NoFolder}, NEW b \in BOOLEAN
    PROVE  [f EXCEPT !.edited = b] \in Folder \ {NoFolder} /\ [f EXCEPT !.edited = b].v = f.v
  BY StoreAssumption DEF Folder, NoFolder, Version

LEMMA TxFacts ==
    /\ NoTx \in Tx /\ NoTx.id \notin Plugin
    /\ \A t \in Tx \ {NoTx} : /\ t.id \in Plugin /\ t.had \in BOOLEAN /\ t.new \in Version
                             /\ t.prev \in StoreVersion \cup {NoVersion}
    /\ \A p \in Plugin, h \in BOOLEAN, v \in Version, r \in StoreVersion \cup {NoVersion} :
          [id |-> p, had |-> h, new |-> v, prev |-> r] \in Tx \ {NoTx}
  BY StoreAssumption DEF Tx, NoTx

LEMMA ReceiptFacts == \A v : ReceiptFor(v) \in StoreVersion \cup {NoVersion}
  BY DEF ReceiptFor

\* A counter that is raised stays a number.
LEMMA CountFacts ==
    ASSUME count \in [{"install", "crash", "fault", "edit"} -> Nat],
           NEW k \in {"install", "crash", "fault", "edit"}, NEW max, Count(k, max)
    PROVE  count' \in [{"install", "crash", "fault", "edit"} -> Nat]
  OBVIOUS

\* The staged transaction: what is there now is what a rollback returns to.
LEMMA StagedTx ==
    ASSUME StoreInv, Stage
    PROVE  /\ tx' \in Tx \ {NoTx} /\ tx'.id = tx.id /\ tx'.new = tx.new
           /\ tx'.had = (dir[tx.id] # NoFolder) /\ tx'.prev = receipts[tx.id]
<1>1. tx \in Tx \ {NoTx} /\ receipts[tx.id] \in StoreVersion \cup {NoVersion} /\ tx.prev = receipts[tx.id]
  BY TxFacts DEF StoreInv, TypeOK, Installing, Stage
<1>2. tx' = [tx EXCEPT !.had = dir[tx.id] # NoFolder, !.prev = receipts[tx.id]]
  BY <1>1 DEF Stage
<1> QED
  BY <1>1, <1>2, StoreAssumption DEF Tx, NoTx

--------------------------------------------------------------------------------
\* A step that leaves the folders, the receipts and the journal alone.
LEMMA DiskRests ==
    ASSUME StoreInv, UNCHANGED <<dir, backup, receipts, journal, before>>
    PROVE  HonestReceipts' /\ HonestJournal' /\ Unseen
  BY DEF StoreInv, HonestReceipts, HonestJournal, Pending, InPlaceIsNew, MustRestore, Unseen, Kept

\* What recovery would make of a plugin: the folder it leaves, with the receipt of its version.
LEMMA RecoveryIsHonest ==
    ASSUME StoreInv, NEW p \in Plugin
    PROVE  /\ Kept(p) \in Folder
           /\ AfterRecovery(p) = [code |-> Kept(p).v, receipt |-> ReceiptFor(Kept(p).v)]
<1>1. Kept(p) \in Folder
  BY DEF StoreInv, TypeOK, Kept
<1>2. Kept(p) = NoFolder => ReceiptFor(Kept(p).v) = NoVersion
  BY FolderFacts DEF ReceiptFor, Version
<1>3. CASE journal.id # p
  BY <1>1, <1>2, <1>3, FolderFacts DEF StoreInv, HonestReceipts, AfterRecovery, Kept
<1>4. CASE journal.id = p
  <2>1. Pending
    BY <1>4, TxFacts DEF Pending
  <2>2. InPlaceIsNew => Kept(p).v = journal.new
    BY <1>4, <2>1, FolderFacts, TxFacts DEF StoreInv, TypeOK, Pending, InPlaceIsNew, MustRestore, Kept
  <2>3. ~InPlaceIsNew /\ Kept(p) # NoFolder => journal.prev = ReceiptFor(Kept(p).v)
    BY <1>4, <2>1 DEF StoreInv, HonestJournal, Kept
  <2>4. ReplayedReceipt(Kept(p)) = ReceiptFor(Kept(p).v)
    BY <1>2, <2>2, <2>3 DEF ReplayedReceipt
  <2> QED
    BY <1>1, <1>4, <2>4 DEF AfterRecovery, Kept
<1> QED
  BY <1>3, <1>4

--------------------------------------------------------------------------------
\* One lemma per action: it keeps StoreInv and, but for the four that show, is not seen.
LEMMA BeginKeeps == ASSUME StoreInv, NEW p \in Plugin, NEW v \in Version, ~Overlap, Begin(p, v) PROVE StoreInv' /\ Unseen
<1>1. TypeOK'
  BY TxFacts, CountFacts, Zenon DEF StoreInv, Begin, TypeOK, PCs
<1>2. OneAtATime' /\ Removing' /\ Recovering'
  BY DEF Begin, OneAtATime, Removing, Recovering
<1>3. HonestReceipts' /\ HonestJournal' /\ Unseen
  BY DiskRests, Zenon DEF Begin
<1>4. Installing'
  BY TxFacts, Zenon DEF StoreInv, Begin, Installing, Pending, TypeOK
<1> QED
  BY <1>1, <1>2, <1>3, <1>4 DEF StoreInv

LEMMA StageKeeps == ASSUME StoreInv, Stage PROVE StoreInv' /\ Unseen
<1>1. TypeOK'
  BY StagedTx, FolderFacts, TxFacts, Zenon DEF StoreInv, TypeOK, PCs, Stage
<1>2. OneAtATime' /\ Removing' /\ Recovering'
  BY DEF StoreInv, Stage, OneAtATime, Removing, Recovering
<1>3. HonestReceipts' /\ HonestJournal' /\ Unseen
  BY DiskRests, Zenon DEF Stage
<1>4. Installing'
  <2>1. ~undo' /\ ~Pending' /\ staged' = Clean(tx'.new) /\ pc'["install"] = "journal" /\ id'["install"] = tx'.id
    BY StagedTx, Zenon DEF StoreInv, Stage, Installing, TypeOK, Pending
  <2>2. Before' /\ OldHasReceipt'
    <3>1. Old' = Old
      BY StagedTx, Zenon DEF Old, Stage
    <3>2. tx.id \in Plugin /\ journal.id # tx.id
      BY TxFacts, Zenon DEF StoreInv, Installing, Pending, Stage
    <3> QED
      BY <3>1, <3>2, StagedTx, Zenon DEF StoreInv, HonestReceipts, Before, OldHasReceipt, Old
  <2> QED
    BY StagedTx, <2>1, <2>2, Zenon DEF Installing, Ready
<1> QED
  BY <1>1, <1>2, <1>3, <1>4 DEF StoreInv

\* From here a crash finds the transaction: the folder and the receipt it goes back to.
LEMMA WriteJournalKeeps == ASSUME StoreInv, WriteJournal PROVE StoreInv' /\ Unseen
<1>1. TypeOK'
  BY Zenon DEF StoreInv, WriteJournal, TypeOK, PCs
<1>2. OneAtATime' /\ Removing' /\ Recovering'
  BY DEF StoreInv, WriteJournal, OneAtATime, Removing, Recovering
<1>3. HonestReceipts'
  BY TxFacts, Zenon DEF StoreInv, WriteJournal, HonestReceipts, Pending
<1>4. HonestJournal'
  BY FolderFacts, TxFacts
     DEF StoreInv, WriteJournal, HonestJournal, Installing, InPlaceIsNew, MustRestore, Old, Before,
         OldHasReceipt, Ready, InPlace
<1>5. Installing'
  BY Zenon
     DEF StoreInv, WriteJournal, Installing, TypeOK, Old, Before, OldHasReceipt, Ready, BackedUp,
         InPlace
<1>6. Unseen
  BY FolderFacts, TxFacts
     DEF StoreInv, WriteJournal, Installing, MustRestore, Pending, Old, Before, Ready, InPlace,
         Unseen, Kept
<1> QED
  BY <1>1, <1>2, <1>3, <1>4, <1>5, <1>6 DEF StoreInv

LEMMA LockSwapKeeps == ASSUME StoreInv, LockSwap PROVE StoreInv' /\ Unseen
<1>1. TypeOK'
  BY Zenon DEF StoreInv, LockSwap, TypeOK, PCs
<1>2. OneAtATime' /\ Removing' /\ Recovering'
  BY DEF StoreInv, LockSwap, OneAtATime, Removing, Recovering
<1>3. HonestReceipts' /\ HonestJournal' /\ Unseen
  BY DiskRests, Zenon DEF LockSwap
<1>4. Installing'
  BY FolderFacts, TxFacts
     DEF StoreInv, LockSwap, Installing, Old, Before, OldHasReceipt, Ready, BackedUp, InPlace
<1> QED
  BY <1>1, <1>2, <1>3, <1>4 DEF StoreInv

LEMMA ClearTargetKeeps == ASSUME StoreInv, ClearTarget PROVE StoreInv' /\ Unseen
<1>1. TypeOK'
  BY FolderFacts, ReceiptFacts DEF StoreInv, ClearTarget, SetTarget, TypeOK, PCs
<1>2. OneAtATime' /\ Removing' /\ Recovering'
  BY DEF StoreInv, ClearTarget, OneAtATime, Removing, Recovering
<1>3. HonestReceipts'
  BY Zenon DEF StoreInv, ClearTarget, HonestReceipts
<1>4. HonestJournal'
  BY Zenon
     DEF StoreInv, ClearTarget, SetTarget, HonestJournal, Installing, InPlaceIsNew, MustRestore,
         Pending, Old, Before, Ready
<1>5. Installing'
  BY Zenon
     DEF StoreInv, ClearTarget, SetTarget, Installing, TypeOK, Old, Before, OldHasReceipt, Ready,
         BackedUp, InPlace
<1>6. Unseen
  BY Zenon
     DEF StoreInv, ClearTarget, SetTarget, Installing, MustRestore, Old, Before, Ready, Unseen, Kept
<1> QED
  BY <1>1, <1>2, <1>3, <1>4, <1>5, <1>6 DEF StoreInv

\* The old version becomes the backup, or the one that did not start leaves its place.
LEMMA MoveOutKeeps == ASSUME StoreInv, MoveOut PROVE StoreInv'
<1>1. TypeOK'
  BY StoreAssumption, FolderFacts, TxFacts, CountFacts
     DEF StoreInv, TypeOK, PCs, Installing, MoveOut, SetTarget
<1>2. OneAtATime' /\ Removing' /\ Recovering'
  BY DEF StoreInv, MoveOut, OneAtATime, Removing, Recovering
<1>3. HonestReceipts'
  BY DEF StoreInv, MoveOut, HonestReceipts
<1>4. HonestJournal'
  BY DEF StoreInv, MoveOut, SetTarget, HonestJournal, Installing, TypeOK, Old, Before,
         OldHasReceipt, Ready, BackedUp, InPlace
<1>5. Installing'
  BY Zenon DEF StoreInv, MoveOut, SetTarget, Installing, TypeOK, Old, Ready, BackedUp, InPlace
<1> QED
  BY <1>1, <1>2, <1>3, <1>4, <1>5 DEF StoreInv

\* The staged version, or the backup, takes the place.
LEMMA MoveInKeeps == ASSUME StoreInv, MoveIn PROVE StoreInv'
<1>1. TypeOK'
  <2>1. before' \in [Plugin -> [code : Version \cup {NoVersion}, receipt : StoreVersion \cup {NoVersion}]]
    <3>1. AfterRecovery(tx.id) \in [code : Version \cup {NoVersion}, receipt : StoreVersion \cup {NoVersion}]
      BY RecoveryIsHonest, FolderFacts, TxFacts, ReceiptFacts DEF StoreInv, Installing, MoveIn
    <3> QED
      BY <3>1, Zenon DEF StoreInv, TypeOK, MoveIn
  <2>2. dir' \in [Plugin -> Folder] /\ backup' \in [Plugin -> Folder] /\ staged' \in Folder /\ failed' \in Folder
    <3>1. tx.id \in Plugin
      BY TxFacts, Zenon DEF StoreInv, Installing, MoveIn
    <3>2. Source \in Folder
      BY <3>1, Zenon DEF StoreInv, TypeOK, Source
    <3> QED
      BY <3>2, FolderFacts, Zenon DEF StoreInv, TypeOK, MoveIn, TakeSource
  <2> QED
    BY <2>1, <2>2 DEF StoreInv, TypeOK, PCs, MoveIn
<1>2. OneAtATime' /\ Removing' /\ Recovering'
  BY DEF StoreInv, MoveIn, OneAtATime, Removing, Recovering
<1>3. HonestReceipts'
  BY DEF StoreInv, MoveIn, HonestReceipts, Installing
<1>4. HonestJournal'
  BY FolderFacts, TxFacts
     DEF StoreInv, MoveIn, Source, HonestJournal, Installing, InPlaceIsNew, MustRestore, Pending,
         TypeOK, Old
<1>5. Installing'
  <2>1. tx.id \in Plugin /\ journal = tx /\ Pending
    BY TxFacts, Zenon DEF StoreInv, MoveIn, Installing, Pending
  <2>2. ~undo /\ tx.had => before'[tx.id] = [code |-> backup[tx.id].v, receipt |-> tx.prev]
    <3>1. SUFFICES ASSUME ~undo, tx.had PROVE before'[tx.id] = [code |-> backup[tx.id].v, receipt |-> tx.prev]
      OBVIOUS
    <3>2. MustRestore
      BY <3>1, Zenon DEF StoreInv, MoveIn, Installing, MustRestore, Old
    <3>3. Kept(tx.id) = backup[tx.id] /\ tx.prev = ReceiptFor(backup[tx.id].v)
      BY <2>1, <3>2, Zenon DEF StoreInv, HonestJournal, Kept
    <3> QED
      BY <2>1, <3>1, <3>3, RecoveryIsHonest, Zenon DEF StoreInv, TypeOK, MoveIn
  <2>3. ~undo => Source = Clean(tx.new) /\ (tx.had => backup[tx.id] # NoFolder /\ tx.prev = ReceiptFor(backup[tx.id].v))
    BY <2>1, Zenon DEF StoreInv, HonestJournal, MustRestore, MoveIn, Installing, Old, Source
  <2>4. undo => Source # NoFolder /\ tx.prev = ReceiptFor(Source.v) /\ tx.had
    BY Zenon DEF StoreInv, MoveIn, Installing, BackedUp, Source
  <2> QED
    BY <2>2, <2>3, <2>4, Zenon
       DEF StoreInv, MoveIn, TakeSource, Installing, TypeOK, Old, InPlace, BackedUp
<1> QED
  BY <1>1, <1>2, <1>3, <1>4, <1>5 DEF StoreInv

\* The renaming failed; what was moved out may have come back.
LEMMA MoveInFailsKeeps == ASSUME StoreInv, MoveInFails PROVE StoreInv'
<1>1. TypeOK'
  <2>1. tx.id \in Plugin /\ Target \in Folder
    BY Zenon DEF StoreInv, TypeOK, Installing, MoveInFails, Target
  <2>3. dir' \in [Plugin -> Folder] /\ backup' \in [Plugin -> Folder] /\ staged' \in Folder /\ failed' \in Folder
    <3>1. CASE UNCHANGED folderVars
      BY <3>1, Zenon DEF StoreInv, TypeOK
    <3>2. CASE dir' = [dir EXCEPT ![tx.id] = Target] /\ SetTarget(NoFolder)
      BY <2>1, <3>2, FolderFacts, Zenon DEF StoreInv, TypeOK, SetTarget
    <3> QED
      BY <3>1, <3>2, Zenon DEF MoveInFails
  <2>2. count' \in [{"install", "crash", "fault", "edit"} -> Nat]
    BY CountFacts, Zenon DEF StoreInv, TypeOK, MoveInFails
  <2> QED
    BY <2>2, <2>3, Zenon DEF StoreInv, TypeOK, PCs, MoveInFails
<1>2. OneAtATime' /\ Removing' /\ Recovering'
  BY DEF StoreInv, MoveInFails, OneAtATime, Removing, Recovering
<1>3. HonestReceipts'
  BY Zenon DEF StoreInv, MoveInFails, HonestReceipts, Installing, TypeOK
<1>4. HonestJournal'
  BY FolderFacts, TxFacts
     DEF StoreInv, MoveInFails, Target, HonestJournal, Installing, InPlaceIsNew, MustRestore,
         Pending, TypeOK, Old
<1>5. Installing'
  BY Zenon DEF StoreInv, MoveInFails, Installing, TypeOK
<1> QED
  BY <1>1, <1>2, <1>3, <1>4, <1>5 DEF StoreInv

LEMMA LoadReceiptsKeeps == ASSUME StoreInv, LoadReceipts PROVE StoreInv' /\ Unseen
<1>1. TypeOK'
  BY Zenon DEF StoreInv, LoadReceipts, TypeOK, PCs
<1>2. OneAtATime' /\ Removing' /\ Recovering'
  BY DEF StoreInv, LoadReceipts, OneAtATime, Removing, Recovering
<1>3. HonestReceipts' /\ HonestJournal' /\ Unseen
  BY DiskRests, Zenon DEF LoadReceipts
<1>4. Installing'
  BY Zenon DEF StoreInv, LoadReceipts, Installing, Pending, TypeOK, Old, BackedUp, InPlace
<1> QED
  BY <1>1, <1>2, <1>3, <1>4 DEF StoreInv

\* The journal still decides what a crash would leave.
LEMMA SaveReceiptsKeeps == ASSUME StoreInv, SaveReceipts PROVE StoreInv' /\ Unseen
<1>1. TypeOK'
  BY TxFacts, ReceiptFacts, Zenon DEF StoreInv, TypeOK, PCs, Installing, SaveReceipts, NewReceipt
<1>2. OneAtATime' /\ Removing' /\ Recovering'
  BY DEF StoreInv, SaveReceipts, OneAtATime, Removing, Recovering
<1>3. HonestReceipts'
  BY DEF StoreInv, SaveReceipts, HonestReceipts, Installing, Old
<1>4. HonestJournal'
  BY Zenon DEF StoreInv, SaveReceipts, HonestJournal, InPlaceIsNew, MustRestore, Pending
<1>5. Installing'
  BY Zenon DEF StoreInv, SaveReceipts, NewReceipt, Installing, TypeOK, Old, BackedUp, InPlace
<1>6. Unseen
  BY Zenon DEF SaveReceipts, MustRestore, Unseen, Kept
<1> QED
  BY <1>1, <1>2, <1>3, <1>4, <1>5, <1>6 DEF StoreInv

\* From here the receipts decide; they name what is in place.
LEMMA ClearJournalKeeps == ASSUME StoreInv, ClearJournal PROVE StoreInv' /\ Unseen
<1>1. TypeOK'
  BY FolderFacts, TxFacts, Zenon DEF StoreInv, ClearJournal, TypeOK, PCs
<1>2. OneAtATime' /\ Removing' /\ Recovering'
  BY DEF StoreInv, ClearJournal, OneAtATime, Removing, Recovering
<1>3. HonestReceipts'
  <2>1. journal = tx /\ receipts' = receipts /\ dir' = dir /\ receipts[tx.id] = NewReceipt
    BY Zenon DEF StoreInv, ClearJournal, Installing
  <2>2. dir[tx.id] # NoFolder => receipts[tx.id] = ReceiptFor(dir[tx.id].v)
    <3>1. CASE undo
      BY <3>1, Zenon DEF StoreInv, ClearJournal, Installing, Old, NewReceipt
    <3>2. CASE ~undo
      <4>1. tx.new \in Version /\ dir[tx.id] = Clean(tx.new)
        BY <3>2, TxFacts, Zenon DEF StoreInv, ClearJournal, Installing, InPlace, Old
      <4> QED
        BY <2>1, <3>2, <4>1, FolderFacts, Zenon DEF NewReceipt
    <3> QED
      BY <3>1, <3>2, Zenon
  <2> QED
    BY <2>1, <2>2, Zenon DEF StoreInv, HonestReceipts
<1>4. HonestJournal'
  BY Zenon DEF ClearJournal, HonestJournal, Pending
<1>5. Installing'
  BY Zenon DEF StoreInv, ClearJournal, Installing, Pending, TypeOK, Old, BackedUp, InPlace
<1>6. Unseen
  BY FolderFacts, TxFacts DEF StoreInv, ClearJournal, Installing, MustRestore, Old, InPlace, Unseen, Kept
<1> QED
  BY <1>1, <1>2, <1>3, <1>4, <1>5, <1>6 DEF StoreInv

LEMMA StartedKeeps == ASSUME StoreInv, Started PROVE StoreInv' /\ Unseen
<1>1. TypeOK'
  BY Zenon DEF StoreInv, Started, TypeOK, PCs
<1>2. OneAtATime' /\ Removing' /\ Recovering'
  BY DEF StoreInv, Started, OneAtATime, Removing, Recovering
<1>3. HonestReceipts' /\ HonestJournal' /\ Unseen
  BY DiskRests, Zenon DEF Started
<1>4. Installing'
  BY Zenon DEF StoreInv, Started, Installing, TypeOK
<1> QED
  BY <1>1, <1>2, <1>3, <1>4 DEF StoreInv

LEMMA RollbackKeeps == ASSUME StoreInv, Rollback PROVE StoreInv' /\ Unseen
<1>1. TypeOK'
  BY Zenon DEF StoreInv, Rollback, TypeOK, PCs
<1>2. OneAtATime' /\ Removing' /\ Recovering'
  BY DEF StoreInv, Rollback, OneAtATime, Removing, Recovering
<1>3. HonestReceipts' /\ HonestJournal' /\ Unseen
  BY DiskRests, Zenon DEF Rollback
<1>4. Installing'
  BY Zenon DEF StoreInv, Rollback, Installing, Pending, TypeOK, Old, BackedUp, InPlace
<1> QED
  BY <1>1, <1>2, <1>3, <1>4 DEF StoreInv

LEMMA InstallFaultKeeps == ASSUME StoreInv, pc["install"] # "idle", phase = "up", Fault("install") PROVE StoreInv' /\ Unseen
<1>1. TypeOK'
  BY CountFacts, Zenon DEF StoreInv, Fault, TypeOK, PCs
<1>2. OneAtATime' /\ Removing' /\ Recovering'
  BY DEF StoreInv, Fault, OneAtATime, Removing, Recovering
<1>3. HonestReceipts' /\ HonestJournal' /\ Unseen
  BY DiskRests, Zenon DEF Fault
<1>4. Installing'
  BY DEF StoreInv, Fault, Installing, TypeOK
<1> QED
  BY <1>1, <1>2, <1>3, <1>4 DEF StoreInv

LEMMA AskRemoveKeeps == ASSUME StoreInv, NEW p \in Plugin, ~Overlap, AskRemove(p) PROVE StoreInv' /\ Unseen
<1>1. TypeOK'
  BY Zenon DEF StoreInv, AskRemove, TypeOK, PCs
<1>2. OneAtATime' /\ Removing' /\ Recovering'
  BY DEF AskRemove, OneAtATime, Removing, Recovering
<1>3. HonestReceipts' /\ HonestJournal' /\ Unseen
  BY DiskRests, Zenon DEF AskRemove
<1>4. Installing'
  BY DEF AskRemove, Installing
<1> QED
  BY <1>1, <1>2, <1>3, <1>4 DEF StoreInv

\* No transaction is open while something is deleted.
LEMMA CheckRemoveKeeps == ASSUME StoreInv, NEW a \in Actor, CheckRemove(a) PROVE StoreInv' /\ Unseen
<1>1. TypeOK'
  BY DEF StoreInv, CheckRemove, TypeOK, PCs
<1>2. OneAtATime' /\ Removing' /\ Recovering'
  BY Zenon DEF StoreInv, CheckRemove, OneAtATime, Removing, Recovering, Pending, TypeOK
<1>3. HonestReceipts' /\ HonestJournal' /\ Unseen
  BY DiskRests, Zenon DEF CheckRemove
<1>4. Installing'
  BY DEF StoreInv, CheckRemove, Installing, OneAtATime, Pending, TypeOK, Old
<1> QED
  BY <1>1, <1>2, <1>3, <1>4 DEF StoreInv

\* A damaged folder keeps its version and its receipt.
LEMMA DeleteFailsKeeps == ASSUME StoreInv, NEW a \in Actor, DeleteFails(a) PROVE StoreInv' /\ Unseen
<1>1. TypeOK'
  <2>1. dir[id[a]] \in Folder \ {NoFolder} /\ dir' = [dir EXCEPT ![id[a]].edited = TRUE]
    BY Zenon DEF StoreInv, TypeOK, Installing, Removing, DeleteFails, Old
  <2>2. dir' \in [Plugin -> Folder]
    BY <2>1, EditedFacts, Zenon DEF StoreInv, TypeOK
  <2> QED
    BY <2>2, CountFacts, Zenon DEF StoreInv, TypeOK, PCs, DeleteFails
<1>2. OneAtATime' /\ Removing' /\ Recovering'
  BY Zenon DEF StoreInv, DeleteFails, OneAtATime, Removing, Recovering, TypeOK
<1>3. HonestReceipts'
  <2>1. dir[id[a]] \in Folder \ {NoFolder} /\ dir' = [dir EXCEPT ![id[a]].edited = TRUE]
    BY Zenon DEF StoreInv, TypeOK, Installing, Removing, DeleteFails, Old
  <2>2. \A p \in Plugin : dir'[p].v = dir[p].v /\ (dir'[p] = NoFolder <=> dir[p] = NoFolder)
    BY <2>1, EditedFacts, Zenon DEF StoreInv, TypeOK
  <2> QED
    BY <2>2, Zenon DEF StoreInv, DeleteFails, HonestReceipts
<1>4. HonestJournal'
  BY Zenon DEF StoreInv, DeleteFails, HonestJournal, Installing, Removing, Pending
<1>5. Installing'
  BY Zenon DEF StoreInv, DeleteFails, Installing, OneAtATime, TypeOK
<1>6. Unseen
  BY TxFacts DEF StoreInv, DeleteFails, Installing, Pending, Unseen, Kept, Removing
<1> QED
  BY <1>1, <1>2, <1>3, <1>4, <1>5, <1>6 DEF StoreInv

LEMMA DeleteKeeps == ASSUME StoreInv, NEW a \in Actor, Delete(a) PROVE StoreInv'
<1>1. TypeOK'
  BY FolderFacts, Zenon DEF StoreInv, Delete, TypeOK, PCs
<1>2. OneAtATime' /\ Removing' /\ Recovering'
  BY Zenon DEF StoreInv, Delete, OneAtATime, Removing, Recovering, Pending, TypeOK
<1>3. HonestReceipts'
  BY DEF StoreInv, Delete, HonestReceipts
<1>4. HonestJournal'
  BY Zenon DEF StoreInv, Delete, HonestJournal, Installing, Removing, Pending
<1>5. Installing'
  BY DEF StoreInv, Delete, Installing, OneAtATime, Pending, TypeOK, Old
<1> QED
  BY <1>1, <1>2, <1>3, <1>4, <1>5 DEF StoreInv

LEMMA ForgetKeeps == ASSUME StoreInv, NEW a \in Actor, Forget(a) PROVE StoreInv' /\ Unseen
<1>1. TypeOK'
  <2>1. backup' \in [Plugin -> Folder] /\ copy' \in [Actor -> [Plugin -> StoreVersion \cup {NoVersion}]]
    BY FolderFacts DEF StoreInv, TypeOK, Forget
  <2> QED
    BY <2>1 DEF StoreInv, TypeOK, PCs, Forget
<1>2. OneAtATime' /\ Removing' /\ Recovering'
  BY Zenon DEF StoreInv, Forget, OneAtATime, Removing, Recovering, Pending, TypeOK
<1>3. HonestReceipts'
  BY Zenon DEF StoreInv, Forget, HonestReceipts
<1>4. HonestJournal'
  BY Zenon DEF StoreInv, Forget, HonestJournal, InPlaceIsNew, MustRestore, Pending
<1>5. Installing'
  BY DEF StoreInv, Forget, Installing, OneAtATime, Pending, TypeOK, Old
<1>6. Unseen
  BY TxFacts DEF Forget, MustRestore, Pending, Unseen, Kept
<1> QED
  BY <1>1, <1>2, <1>3, <1>4, <1>5, <1>6 DEF StoreInv

\* The receipts read before are still those of all other plugins.
LEMMA DropKeeps == ASSUME StoreInv, NEW a \in Actor, Drop(a) PROVE StoreInv' /\ Unseen
<1>1. TypeOK'
  <2>1. copy[a] \in [Plugin -> StoreVersion \cup {NoVersion}] /\ id[a] \in Plugin
    BY Zenon DEF StoreInv, TypeOK
  <2>2. receipts' \in [Plugin -> StoreVersion \cup {NoVersion}]
    BY <2>1, Zenon DEF StoreInv, TypeOK, Drop
  <2>3. count' \in [{"install", "crash", "fault", "edit"} -> Nat]
    BY CountFacts, Zenon DEF StoreInv, TypeOK, Drop
  <2> QED
    BY <2>2, <2>3, Zenon DEF StoreInv, TypeOK, PCs, Drop
<1>2. OneAtATime' /\ Removing' /\ Recovering'
  BY Zenon DEF StoreInv, Drop, OneAtATime, Removing, Recovering, TypeOK
<1>3. HonestReceipts'
  <2>1. dir[id[a]] = NoFolder /\ \A p \in Plugin : dir[p] # NoFolder => copy[a][p] = receipts[p]
    BY Zenon DEF StoreInv, Drop, Installing, Removing, Old
  <2>2. \A p \in Plugin : dir[p] # NoFolder => receipts'[p] = receipts[p]
    BY <2>1, Zenon DEF StoreInv, TypeOK, Drop
  <2> QED
    BY <2>2, Zenon DEF StoreInv, HonestReceipts, Drop
<1>4. HonestJournal'
  BY Zenon DEF StoreInv, Drop, HonestJournal, InPlaceIsNew, MustRestore, Pending
<1>5. Installing'
  BY DEF StoreInv, Drop, Installing, OneAtATime, Pending, TypeOK, Old
<1>6. Unseen
  BY Zenon DEF Drop, MustRestore, Unseen, Kept
<1> QED
  BY <1>1, <1>2, <1>3, <1>4, <1>5, <1>6 DEF StoreInv

\* A receipt without a folder names nothing.
LEMMA SweepReceiptKeeps == ASSUME StoreInv, NEW p \in Plugin, SweepReceipt(p) PROVE StoreInv' /\ Unseen
<1>1. TypeOK'
  BY Zenon DEF StoreInv, SweepReceipt, TypeOK
<1>2. OneAtATime' /\ Removing' /\ Recovering'
  BY DEF StoreInv, SweepReceipt, OneAtATime, Removing, Recovering, Pending
<1>3. HonestReceipts'
  BY DEF StoreInv, SweepReceipt, HonestReceipts
<1>4. HonestJournal'
  BY Zenon DEF SweepReceipt, HonestJournal, Pending
<1>5. Installing'
  BY Zenon DEF SweepReceipt, Installing
<1>6. Unseen
  BY TxFacts DEF SweepReceipt, Pending, Unseen, Kept
<1> QED
  BY <1>1, <1>2, <1>3, <1>4, <1>5, <1>6 DEF StoreInv

\* A folder that changes outside a transaction keeps its version.
LEMMA EditKeeps == ASSUME StoreInv, NEW p \in Plugin, ~EditsInside, Edit(p) PROVE StoreInv' /\ Unseen
<1>1. TypeOK'
  <2>1. dir' \in [Plugin -> Folder]
    BY EditedFacts, Zenon DEF StoreInv, TypeOK, Edit
  <2> QED
    BY <2>1, CountFacts, Zenon DEF StoreInv, TypeOK, Edit
<1>2. OneAtATime' /\ Removing' /\ Recovering'
  <2>1. \A q \in Plugin : dir'[q] = NoFolder <=> dir[q] = NoFolder
    BY EditedFacts, Zenon DEF StoreInv, TypeOK, Edit
  <2> QED
    <3>1. Removing'
      BY <2>1, Zenon DEF StoreInv, Edit, Removing, TypeOK, Pending
    <3>2. OneAtATime' /\ Recovering'
      BY Zenon DEF StoreInv, Edit, OneAtATime, Recovering
    <3> QED
      BY <3>1, <3>2, Zenon
<1>3. HonestReceipts'
  BY DEF StoreInv, Edit, HonestReceipts
<1>4. HonestJournal'
  BY TxFacts, Zenon DEF StoreInv, Edit, HonestJournal, InPlaceIsNew, MustRestore, Pending, TypeOK
<1>5. Installing'
  BY ZenonT(40)
     DEF StoreInv, Edit, Installing, Pending, TypeOK, Old, Before, OldHasReceipt, Ready, BackedUp,
         InPlace, NewReceipt
<1>6. Unseen
  BY DEF Edit, MustRestore, Unseen, Kept
<1> QED
  BY <1>1, <1>2, <1>3, <1>4, <1>5, <1>6 DEF StoreInv

\* The disk stays, and with it all that recovery looks at.
LEMMA CrashKeeps == ASSUME StoreInv, Crash PROVE StoreInv' /\ Unseen
<1>1. TypeOK'
  BY TxFacts, CountFacts, Zenon DEF StoreInv, Crash, TypeOK, PCs
<1>2. OneAtATime' /\ Removing' /\ Recovering'
  BY Zenon DEF Crash, OneAtATime, Removing, Recovering
<1>3. HonestReceipts' /\ HonestJournal' /\ Unseen
  BY DiskRests, Zenon DEF Crash
<1>4. Installing'
  BY Zenon DEF Crash, Installing
<1> QED
  BY <1>1, <1>2, <1>3, <1>4 DEF StoreInv

\* The backup takes the place of a folder that is missing.
LEMMA ReplayKeeps == ASSUME StoreInv, Replay PROVE StoreInv' /\ Unseen
<1>1. TypeOK'
  <2>1. Pending => journal.id \in Plugin /\ backup[journal.id] \in Folder
    BY TxFacts, Zenon DEF StoreInv, TypeOK, Pending
  <2>2. dir' \in [Plugin -> Folder] /\ backup' \in [Plugin -> Folder]
    BY <2>1, FolderFacts, Zenon DEF StoreInv, TypeOK, Replay
  <2> QED
    BY <2>2, Zenon DEF StoreInv, TypeOK, Replay
<1>2. OneAtATime' /\ Removing' /\ Recovering'
  BY TxFacts, Zenon DEF StoreInv, Replay, OneAtATime, Removing, Recovering, Pending, MustRestore, TypeOK
<1>3. HonestReceipts'
  BY Zenon DEF StoreInv, Replay, HonestReceipts, TypeOK
<1>4. HonestJournal'
  BY DEF StoreInv, Replay, HonestJournal, InPlaceIsNew, MustRestore, Pending, TypeOK
<1>5. Installing'
  BY Zenon DEF StoreInv, Replay, Installing, OneAtATime
<1>6. Unseen
  BY DEF StoreInv, Replay, MustRestore, TypeOK, Unseen, Kept
<1> QED
  BY <1>1, <1>2, <1>3, <1>4, <1>5, <1>6 DEF StoreInv

\* The receipt of what is in place.
LEMMA ReplayReceiptsKeeps == ASSUME StoreInv, ReplayReceipts PROVE StoreInv' /\ Unseen
<1>1. TypeOK'
  BY TxFacts, ReceiptFacts, Zenon DEF StoreInv, TypeOK, ReplayReceipts, ReplayedReceipt
<1>2. OneAtATime' /\ Removing' /\ Recovering'
  BY TxFacts, Zenon
     DEF StoreInv, ReplayReceipts, OneAtATime, Removing, Recovering, Pending, MustRestore, TypeOK,
         ReplayedReceipt, InPlaceIsNew
<1>3. HonestReceipts'
  BY DEF StoreInv, ReplayReceipts, HonestReceipts
<1>4. HonestJournal'
  BY Zenon DEF StoreInv, ReplayReceipts, HonestJournal, InPlaceIsNew, MustRestore, Pending
<1>5. Installing'
  BY Zenon DEF StoreInv, ReplayReceipts, Installing, OneAtATime
<1>6. Unseen
  BY Zenon DEF ReplayReceipts, MustRestore, Unseen, Kept
<1> QED
  BY <1>1, <1>2, <1>3, <1>4, <1>5, <1>6 DEF StoreInv

LEMMA ReplayClearKeeps == ASSUME StoreInv, ReplayClear PROVE StoreInv' /\ Unseen
<1>1. TypeOK'
  BY TxFacts, Zenon DEF StoreInv, ReplayClear, TypeOK
<1>2. OneAtATime' /\ Removing' /\ Recovering'
  BY Zenon DEF StoreInv, ReplayClear, OneAtATime, Removing, Recovering
<1>3. HonestReceipts'
  BY Zenon
     DEF StoreInv, ReplayClear, HonestReceipts, HonestJournal, Recovering, ReplayedReceipt,
         InPlaceIsNew
<1>4. HonestJournal'
  BY Zenon DEF ReplayClear, HonestJournal, Pending
<1>5. Installing'
  BY Zenon DEF StoreInv, ReplayClear, Installing, OneAtATime
<1>6. Unseen
  BY TxFacts, Zenon DEF StoreInv, ReplayClear, Recovering, Unseen, Kept
<1> QED
  BY <1>1, <1>2, <1>3, <1>4, <1>5, <1>6 DEF StoreInv

LEMMA ReplayFailsKeeps == ASSUME StoreInv, ReplayFails PROVE StoreInv' /\ Unseen
<1>1. TypeOK'
  BY CountFacts, Zenon DEF StoreInv, ReplayFails, TypeOK
<1>2. OneAtATime' /\ Removing' /\ Recovering'
  BY Zenon DEF StoreInv, ReplayFails, OneAtATime, Removing, Recovering
<1>3. HonestReceipts' /\ HonestJournal' /\ Unseen
  BY DiskRests, Zenon DEF ReplayFails
<1>4. Installing'
  BY Zenon DEF StoreInv, ReplayFails, Installing, OneAtATime
<1> QED
  BY <1>1, <1>2, <1>3, <1>4 DEF StoreInv

LEMMA SweepKeeps == ASSUME StoreInv, Sweep PROVE StoreInv' /\ Unseen
<1>1. TypeOK'
  BY FolderFacts, Zenon DEF StoreInv, Sweep, TypeOK
<1>2. OneAtATime' /\ Removing' /\ Recovering'
  BY Zenon DEF StoreInv, Sweep, OneAtATime, Removing, Recovering
<1>3. HonestReceipts'
  BY Zenon DEF StoreInv, Sweep, HonestReceipts
<1>4. HonestJournal'
  BY Zenon DEF StoreInv, Sweep, HonestJournal, InPlaceIsNew, MustRestore, Pending
<1>5. Installing'
  BY Zenon DEF StoreInv, Sweep, Installing, OneAtATime
<1>6. Unseen
  BY Zenon DEF Sweep, MustRestore, Unseen, Kept
<1> QED
  BY <1>1, <1>2, <1>3, <1>4, <1>5, <1>6 DEF StoreInv

--------------------------------------------------------------------------------
\* What a step shows: the versions that recovery would leave.

LEMMA InitHonest == Init => StoreInv /\ Abstract!Init
<1> SUFFICES ASSUME Init PROVE StoreInv /\ Abstract!Init
  OBVIOUS
<1>0. PICK w \in [Plugin -> Version \cup {NoVersion}] : dir = [p \in Plugin |-> Clean(w[p])] /\ receipts = [p \in Plugin |-> ReceiptFor(w[p])]
  BY Zenon DEF Init
<1>a. /\ backup = [p \in Plugin |-> NoFolder] /\ staged = NoFolder /\ failed = NoFolder
      /\ journal = NoTx /\ data = {p \in Plugin : dir[p] # NoFolder} /\ wanted = data
      /\ phase = "up" /\ pc = [a \in Actor |-> "idle"] /\ id \in [Actor -> Plugin]
      /\ tx = NoTx /\ undo = FALSE /\ copy = [a \in Actor |-> receipts]
      /\ before = [p \in Plugin |-> [code |-> dir[p].v, receipt |-> receipts[p]]]
      /\ count = [k \in {"install", "crash", "fault", "edit"} |-> 0]
  BY Zenon DEF Init
<1>b. \A p \in Plugin : dir[p] \in Folder /\ dir[p].v \in Version \cup {NoVersion} /\ receipts[p] = ReceiptFor(dir[p].v)
  BY <1>0, FolderFacts DEF Clean, NoFolder, Folder
<1>c. dir = [p \in Plugin |-> dir[p]] /\ receipts = [p \in Plugin |-> receipts[p]]
  BY <1>0
<1>1. TypeOK
  <2>1. dir \in [Plugin -> Folder] /\ receipts \in [Plugin -> StoreVersion \cup {NoVersion}]
    BY <1>b, <1>c, ReceiptFacts
  <2>2. before \in [Plugin -> [code : Version \cup {NoVersion}, receipt : StoreVersion \cup {NoVersion}]]
    BY <1>a, <1>b, <2>1
  <2>3. data \in SUBSET Plugin /\ wanted \in SUBSET Plugin
    BY <1>a
  <2>4. copy \in [Actor -> [Plugin -> StoreVersion \cup {NoVersion}]] /\ backup \in [Plugin -> Folder]
    BY <1>a, <2>1, FolderFacts
  <2>5. pc \in [Actor -> PCs] /\ count \in [{"install", "crash", "fault", "edit"} -> Nat]
    BY <1>a DEF PCs
  <2> QED
    BY <1>a, <2>1, <2>2, <2>3, <2>4, <2>5, FolderFacts, TxFacts DEF TypeOK
<1>2. HonestReceipts /\ HonestJournal
  BY <1>a, <1>b DEF HonestReceipts, HonestJournal, Pending
<1>3. OneAtATime /\ Installing /\ Removing /\ Recovering
  BY <1>a DEF OneAtATime, Installing, Removing, Recovering
<1>4. StoreInv
  BY <1>1, <1>2, <1>3 DEF StoreInv
<1>5. \A p \in Plugin : AfterRecovery(p) = [code |-> dir[p].v, receipt |-> receipts[p]]
  BY <1>a, <1>b, <1>4, RecoveryIsHonest, TxFacts DEF Kept
<1>6. Abstract!Init
  BY <1>a, <1>b, <1>5
     DEF Abstract!Init, Abstract!Version, Abstract!ReceiptFor, Abstract!Pair, Version, ReceiptFor
<1> QED
  BY <1>4, <1>6

\* The same of the next state.
LEMMA HonestRecovery ==
    StoreInv => \A q \in Plugin : /\ Kept(q) \in Folder
                                 /\ AfterRecovery(q) = [code |-> Kept(q).v, receipt |-> ReceiptFor(Kept(q).v)]
  BY RecoveryIsHonest

LEMMA RecoveryStaysHonest ==
    (StoreInv => \A q \in Plugin : /\ Kept(q) \in Folder
                                  /\ AfterRecovery(q) = [code |-> Kept(q).v, receipt |-> ReceiptFor(Kept(q).v)])'
  BY HonestRecovery, PTL

\* A step that does not show is none of the abstract store.
LEMMA Stutters == ASSUME StoreInv, StoreInv', Unseen PROVE UNCHANGED Abstract!vars
  BY RecoveryIsHonest, RecoveryStaysHonest DEF Unseen, Abstract!vars

\* A step that shows as another version of one plugin, with the receipt of that version.
Shows(p, v) == \A q \in Plugin : Kept(q)'.v = IF q = p THEN v ELSE Kept(q).v

LEMMA ChangedAt ==
    ASSUME NEW p \in Plugin, NEW v, NEW r,
           \A q \in Plugin : AfterRecovery(q)' = IF q = p THEN [code |-> v, receipt |-> r] ELSE AfterRecovery(q)
    PROVE  /\ [q \in Plugin |-> AfterRecovery(q).code]' = [[q \in Plugin |-> AfterRecovery(q).code] EXCEPT ![p] = v]
           /\ [q \in Plugin |-> AfterRecovery(q).receipt]' = [[q \in Plugin |-> AfterRecovery(q).receipt] EXCEPT ![p] = r]
<1> DEFINE code == [q \in Plugin |-> AfterRecovery(q).code]
<1> DEFINE receipt == [q \in Plugin |-> AfterRecovery(q).receipt]
<1>1. /\ code = [q \in Plugin |-> code[q]] /\ code' = [q \in Plugin |-> code'[q]]
      /\ receipt = [q \in Plugin |-> receipt[q]] /\ receipt' = [q \in Plugin |-> receipt'[q]]
  OBVIOUS
<1>2. \A q \in Plugin : code'[q] = IF q = p THEN v ELSE code[q]
  OBVIOUS
<1>3. \A q \in Plugin : receipt'[q] = IF q = p THEN r ELSE receipt[q]
  OBVIOUS
<1> HIDE DEF code, receipt
<1>4. code' = [code EXCEPT ![p] = v] /\ receipt' = [receipt EXCEPT ![p] = r]
  BY <1>1, <1>2, <1>3
<1> QED
  BY <1>4 DEF code, receipt

LEMMA PairShows ==
    ASSUME StoreInv, StoreInv', NEW p \in Plugin, NEW v, Shows(p, v)
    PROVE  /\ [q \in Plugin |-> AfterRecovery(q).code]' = [[q \in Plugin |-> AfterRecovery(q).code] EXCEPT ![p] = v]
           /\ [q \in Plugin |-> AfterRecovery(q).receipt]' = [[q \in Plugin |-> AfterRecovery(q).receipt] EXCEPT ![p] = ReceiptFor(v)]
<1>1. \A q \in Plugin : AfterRecovery(q)' = IF q = p THEN [code |-> v, receipt |-> ReceiptFor(v)] ELSE AfterRecovery(q)
  BY RecoveryIsHonest, RecoveryStaysHonest, ZenonT(40) DEF Shows
<1> QED
  BY <1>1, ChangedAt

LEMMA InstallShows ==
    ASSUME StoreInv, StoreInv', NEW p \in Plugin, NEW v \in Version, Shows(p, v),
           before' = [before EXCEPT ![p] = AfterRecovery(p)]
    PROVE  Abstract!Install(p, v)
<1>1. AfterRecovery(p) = [code |-> AfterRecovery(p).code, receipt |-> AfterRecovery(p).receipt]
  BY RecoveryIsHonest
<1>2. before' = [before EXCEPT ![p] = [code |-> [q \in Plugin |-> AfterRecovery(q).code][p], receipt |-> [q \in Plugin |-> AfterRecovery(q).receipt][p]]]
  BY <1>1
<1> QED
  BY <1>2, PairShows, Zenon DEF Abstract!Install, Abstract!Pair, Abstract!ReceiptFor, ReceiptFor

LEMMA UndoShows ==
    ASSUME StoreInv, StoreInv', NEW p \in Plugin, NEW v, Shows(p, v), before' = before,
           before[p].code = v, before[p].receipt = ReceiptFor(v)
    PROVE  Abstract!Undo(p)
<1>1. /\ [q \in Plugin |-> AfterRecovery(q).code]' = [[q \in Plugin |-> AfterRecovery(q).code] EXCEPT ![p] = v]
      /\ [q \in Plugin |-> AfterRecovery(q).receipt]' = [[q \in Plugin |-> AfterRecovery(q).receipt] EXCEPT ![p] = ReceiptFor(v)]
  BY PairShows
<1> QED
  BY <1>1, Zenon DEF Abstract!Undo

LEMMA RemoveShows ==
    ASSUME StoreInv, StoreInv', NEW p \in Plugin, NEW v, Shows(p, v), v = NoVersion, before' = before
    PROVE  Abstract!Remove(p)
<1>1. ReceiptFor(v) = NoVersion
  BY StoreAssumption DEF ReceiptFor
<1>2. /\ [q \in Plugin |-> AfterRecovery(q).code]' = [[q \in Plugin |-> AfterRecovery(q).code] EXCEPT ![p] = v]
      /\ [q \in Plugin |-> AfterRecovery(q).receipt]' = [[q \in Plugin |-> AfterRecovery(q).receipt] EXCEPT ![p] = ReceiptFor(v)]
  BY PairShows
<1> QED
  BY <1>1, <1>2, Zenon DEF Abstract!Remove

--------------------------------------------------------------------------------
\* The four steps that show.

\* The new version is in place; the old one put back was the one before already.
LEMMA MoveInShows == ASSUME StoreInv, MoveIn PROVE Unseen \/ Abstract!Next
<1>1. StoreInv'
  BY MoveInKeeps
<1>2. tx \in Tx \ {NoTx} /\ tx.id \in Plugin /\ tx.new \in Version /\ journal = tx /\ dir[tx.id] = NoFolder
  BY TxFacts DEF StoreInv, Installing, MoveIn, Old
<1>3. CASE ~undo
  <2>1. dir' = [dir EXCEPT ![tx.id] = Clean(tx.new)] /\ backup' = backup
    BY <1>3 DEF StoreInv, Installing, MoveIn, Source, TakeSource
  <2>2. Shows(tx.id, tx.new)
    BY <1>2, <2>1, FolderFacts DEF StoreInv, TypeOK, MoveIn, Shows, Kept, MustRestore
  <2>3. Abstract!Install(tx.id, tx.new)
    BY <1>1, <1>2, <1>3, <2>2, InstallShows DEF MoveIn
  <2> QED
    BY <1>2, <2>3 DEF Abstract!Next, Abstract!Version, Version
<1>4. CASE undo
  <2>1. tx.had /\ backup[tx.id] # NoFolder /\ dir' = [dir EXCEPT ![tx.id] = backup[tx.id]] /\ backup' = [backup EXCEPT ![tx.id] = NoFolder]
    BY <1>4 DEF StoreInv, Installing, MoveIn, Source, TakeSource, BackedUp
  <2>2. \A p \in Plugin : Kept(p)'.v = Kept(p).v
    BY <1>2, <2>1 DEF StoreInv, TypeOK, MoveIn, Kept, MustRestore
  <2> QED
    BY <1>4, <2>2 DEF Unseen, MoveIn
<1> QED
  BY <1>3, <1>4

\* Moving the old version out loses nothing: recovery brings it back.  Moving a version out
\* that did not start ends it: recovery brings back the one before.
LEMMA MoveOutShows == ASSUME StoreInv, MoveOut PROVE Unseen \/ Abstract!Next
<1>1. StoreInv'
  BY MoveOutKeeps
<1>2. tx \in Tx \ {NoTx} /\ tx.id \in Plugin /\ tx.had /\ journal = tx /\ dir[tx.id] # NoFolder
  <2>1. tx \in Tx \ {NoTx} /\ tx.id \in Plugin /\ tx.new \in Version /\ tx.had /\ journal = tx
    BY TxFacts DEF StoreInv, Installing, MoveOut
  <2>2. ~undo => dir[tx.id] # NoFolder
    BY <2>1 DEF StoreInv, Installing, MoveOut, Ready, Before, Old
  <2>3. undo => dir[tx.id] # NoFolder
    BY <2>1, FolderFacts DEF StoreInv, Installing, MoveOut, InPlace, Old
  <2> QED
    BY <2>1, <2>2, <2>3
<1>3. CASE ~undo
  <2>1. backup' = [backup EXCEPT ![tx.id] = dir[tx.id]] /\ dir' = [dir EXCEPT ![tx.id] = NoFolder]
    BY <1>3 DEF MoveOut, SetTarget
  <2>2. \A p \in Plugin : Kept(p)' = Kept(p)
    BY <1>2, <2>1 DEF StoreInv, TypeOK, MoveOut, Kept, MustRestore
  <2> QED
    BY <2>2 DEF Unseen, MoveOut
<1>4. CASE undo
  <2>1. backup' = backup /\ dir' = [dir EXCEPT ![tx.id] = NoFolder] /\ journal' = journal /\ before' = before
    BY <1>4 DEF MoveOut, SetTarget
  <2>2. BackedUp
    BY <1>2, <1>4 DEF StoreInv, MoveOut, Installing, InPlace
  <2>3. before[tx.id].code = backup[tx.id].v /\ before[tx.id].receipt = ReceiptFor(before[tx.id].code)
    BY <2>2 DEF BackedUp
  <2>4. Shows(tx.id, before[tx.id].code)
    BY <1>2, <2>1, <2>3 DEF StoreInv, TypeOK, Shows, Kept, MustRestore
  <2> QED
    BY <1>1, <1>2, <2>1, <2>3, <2>4, UndoShows DEF Abstract!Next
<1> QED
  BY <1>3, <1>4

\* What was moved out comes back.  When that is the version that did not start, it is as if
\* it had been installed once more.
LEMMA MoveInFailsShows == ASSUME StoreInv, MoveInFails PROVE Unseen \/ Abstract!Next
<1>1. StoreInv'
  BY MoveInFailsKeeps
<1>2. tx \in Tx \ {NoTx} /\ tx.id \in Plugin /\ tx.new \in Version /\ journal = tx /\ dir[tx.id] = NoFolder
  BY TxFacts DEF StoreInv, Installing, MoveInFails, Old
<1>3. CASE UNCHANGED folderVars
  BY <1>3 DEF MoveInFails, Unseen, Kept, MustRestore
<1>4. CASE pc["install"] = "in" /\ dir' = [dir EXCEPT ![tx.id] = Target] /\ SetTarget(NoFolder)
  <2>1. tx.had /\ journal' = journal /\ before' = before
    BY <1>4 DEF StoreInv, Installing, MoveInFails
  <2>2. CASE ~undo
    <3>1. dir' = [dir EXCEPT ![tx.id] = backup[tx.id]] /\ backup' = [backup EXCEPT ![tx.id] = NoFolder]
      BY <1>4, <2>2 DEF Target, SetTarget
    <3>2. backup[tx.id] # NoFolder
      BY <1>2, <2>1, TxFacts DEF StoreInv, HonestJournal, Pending, MustRestore
    <3>3. \A p \in Plugin : Kept(p)' = Kept(p)
      BY <1>2, <2>1, <3>1, <3>2 DEF StoreInv, TypeOK, Kept, MustRestore
    <3> QED
      BY <2>1, <3>3 DEF Unseen
  <2>3. CASE undo
    <3>1. dir' = [dir EXCEPT ![tx.id] = Clean(tx.new)] /\ backup' = backup /\ BackedUp
      BY <1>4, <2>3 DEF StoreInv, Installing, Target, SetTarget
    <3>2. Shows(tx.id, tx.new)
      BY <1>2, <2>1, <3>1, FolderFacts DEF StoreInv, TypeOK, Shows, Kept, MustRestore
    <3>3. before[tx.id] = AfterRecovery(tx.id)
      BY <1>2, <2>1, <3>1, RecoveryIsHonest DEF BackedUp, Kept, MustRestore
    <3>4. Abstract!Install(tx.id, tx.new)
      BY <1>1, <1>2, <2>1, <3>2, <3>3, InstallShows DEF StoreInv, TypeOK
    <3> QED
      BY <1>2, <3>4 DEF Abstract!Next, Abstract!Version, Version
  <2> QED
    BY <2>2, <2>3
<1> QED
  BY <1>3, <1>4 DEF MoveInFails

LEMMA DeleteShows == ASSUME StoreInv, NEW a \in Actor, Delete(a) PROVE Unseen \/ Abstract!Next
<1>1. StoreInv'
  BY DeleteKeeps
<1>2. id[a] \in Plugin /\ ~Pending
  BY DEF StoreInv, TypeOK, Delete, Installing, Removing
<1>3. Shows(id[a], NoVersion)
  BY <1>2, FolderFacts, TxFacts DEF StoreInv, TypeOK, Delete, Shows, Kept, Pending
<1> QED
  BY <1>1, <1>2, <1>3, RemoveShows DEF Delete, Abstract!Next

--------------------------------------------------------------------------------
LEMMA InstallImplements ==
    ASSUME ~Overlap, StoreInv, Install PROVE StoreInv' /\ (Unseen \/ Abstract!Next)
<1>1. ASSUME NEW p \in Plugin, NEW v \in Version, Begin(p, v) PROVE StoreInv' /\ Unseen
  BY <1>1, BeginKeeps
<1>2. CASE Stage \/ WriteJournal \/ LockSwap \/ ClearTarget
  BY <1>2, StageKeeps, WriteJournalKeeps, LockSwapKeeps, ClearTargetKeeps
<1>3. CASE MoveOut \/ MoveIn \/ MoveInFails
  BY <1>3, MoveOutKeeps, MoveInKeeps, MoveInFailsKeeps, MoveOutShows, MoveInShows, MoveInFailsShows
<1>4. CASE LoadReceipts \/ SaveReceipts \/ ClearJournal \/ Started \/ Rollback
  BY <1>4, LoadReceiptsKeeps, SaveReceiptsKeeps, ClearJournalKeeps, StartedKeeps, RollbackKeeps
<1>5. CASE /\ phase = "up"
           /\ pc["install"] \in {"stage", "journal", "lock", "clear", "out", "load", "save", "commit"}
           /\ Fault("install")
  BY <1>5, InstallFaultKeeps
<1> QED
  BY <1>1, <1>2, <1>3, <1>4, <1>5 DEF Install

LEMMA RemoveImplements ==
    ASSUME ~Overlap, StoreInv, Removal PROVE StoreInv' /\ (Unseen \/ Abstract!Next)
<1>1. ASSUME NEW p \in Plugin, AskRemove(p) PROVE StoreInv' /\ Unseen
  BY <1>1, AskRemoveKeeps
<1>2. ASSUME NEW a \in Actor, CheckRemove(a) \/ DeleteFails(a) \/ Forget(a) \/ Drop(a) PROVE StoreInv' /\ Unseen
  BY <1>2, CheckRemoveKeeps, DeleteFailsKeeps, ForgetKeeps, DropKeeps
<1>3. ASSUME NEW a \in Actor, Delete(a) PROVE StoreInv' /\ (Unseen \/ Abstract!Next)
  BY <1>3, DeleteKeeps, DeleteShows
<1> QED
  BY <1>1, <1>2, <1>3 DEF Removal

LEMMA StepImplements ==
    ASSUME ~Overlap, ~EditsInside, StoreInv, [Next]_vars
    PROVE  StoreInv' /\ [Abstract!Next]_(Abstract!vars)
<1>1. CASE Install \/ Removal
  BY <1>1, InstallImplements, RemoveImplements, Stutters
<1>2. CASE Recover \/ Crash
  <2>1. StoreInv' /\ Unseen
    BY <1>2, ReplayKeeps, ReplayReceiptsKeeps, ReplayClearKeeps, ReplayFailsKeeps, SweepKeeps, CrashKeeps
       DEF Recover
  <2> QED
    BY <2>1, Stutters
<1>3. CASE \E p \in Plugin : SweepReceipt(p) \/ Edit(p)
  <2>1. StoreInv' /\ Unseen
    BY <1>3, SweepReceiptKeeps, EditKeeps
  <2> QED
    BY <2>1, Stutters
<1>4. CASE UNCHANGED vars
  <2>1. StoreInv'
    BY <1>4
       DEF vars, StoreInv, TypeOK, OneAtATime, HonestReceipts, HonestJournal, Installing, Removing,
           Recovering,
       Pending, InPlaceIsNew, MustRestore, ReplayedReceipt, Old, Before, OldHasReceipt, Ready, BackedUp, InPlace, NewReceipt
  <2>2. Unseen
    BY <1>4 DEF vars, Unseen, Kept, MustRestore
  <2> QED
    BY <2>1, <2>2, Stutters
<1> QED
  BY <1>1, <1>2, <1>3, <1>4 DEF Next

\* ImplementsPluginStore, for any plugins, versions and number of crashes, faults and edits:
\* where removals do not overlap with installs and no folder changes inside its transaction,
\* an install, its undoing and a removal change a plugin's version and its receipt at once,
\* as far as recovery can tell (install.rs, install/rollback.rs, journal.rs).
THEOREM StoreIsAtomic ==
    ASSUME ~Overlap, ~EditsInside PROVE Spec => ImplementsPluginStore
<1>1. Init => StoreInv /\ Abstract!Init
  BY InitHonest
<1>2. StoreInv /\ [Next]_vars => StoreInv' /\ [Abstract!Next]_(Abstract!vars)
  BY StepImplements
<1> QED
  BY <1>1, <1>2, PTL DEF Spec, ImplementsPluginStore, Abstract!Spec

\* RecoveryIsPossible: what recovery has to restore is there.
THEOREM RecoveryCorrect ==
    ASSUME ~Overlap, ~EditsInside PROVE Spec => []RecoveryIsPossible
<1>1. Init => StoreInv
  BY InitHonest
<1>2. StoreInv /\ [Next]_vars => StoreInv'
  BY StepImplements
<1>3. StoreInv => RecoveryIsPossible
  BY DEF StoreInv, HonestJournal, RecoveryIsPossible
<1> QED
  BY <1>1, <1>2, <1>3, PTL DEF Spec

\* ReceiptsMatchFolders: with no transaction open, what the store installed has its receipt and
\* nothing else has one (write_receipt, journal::replay, forget_plugin).
THEOREM ReceiptsCorrect ==
    ASSUME ~Overlap, ~EditsInside PROVE Spec => []ReceiptsMatchFolders
<1>1. Init => StoreInv
  BY InitHonest
<1>2. StoreInv /\ [Next]_vars => StoreInv'
  BY StepImplements
<1>3. StoreInv => ReceiptsMatchFolders
  BY TxFacts, Zenon DEF StoreInv, HonestReceipts, ReceiptsMatchFolders, Quiet, Pending
<1> QED
  BY <1>1, <1>2, <1>3, PTL DEF Spec

--------------------------------------------------------------------------------
\* No folder and no data are lost.  Recovery finds a folder for each plugin that was installed
\* and that nobody set out to delete; what is about to be deleted is none of them.
KeptInv ==
    /\ \A p \in wanted : Kept(p) # NoFolder /\ p \in data
    /\ \A a \in Actor : pc[a] = "delete" => id[a] \notin wanted

LEMMA KeptIsThere == StoreInv /\ KeptInv => NothingIsLost
  BY DEF StoreInv, HonestJournal, KeptInv, Kept, NothingIsLost, MustRestore, Pending, TypeOK

\* A step that leaves the versions, the data and the plugins in question alone.
LEMMA UnseenKeeps ==
    ASSUME StoreInv, StoreInv', KeptInv, Unseen, UNCHANGED <<wanted, data>>,
           \A a \in Actor : pc'[a] = "delete" => pc[a] = "delete" /\ id'[a] = id[a]
    PROVE  KeptInv'
<1>1. \A p \in wanted : p \in Plugin /\ Kept(p) \in Folder
  BY HonestRecovery, Zenon DEF StoreInv, TypeOK
<1>2. \A p \in wanted : Kept(p)' \in Folder
  BY <1>1, RecoveryStaysHonest, Zenon
<1>3. \A p \in wanted : Kept(p)' # NoFolder
  BY <1>1, <1>2, FolderFacts DEF KeptInv, Unseen
<1> QED
  BY <1>3, Zenon DEF KeptInv

\* While a plugin's swap is open, its folder is in place or can be restored.
LEMMA OpenIsKept ==
    StoreInv => \A p \in Plugin : Pending /\ journal.id = p /\ journal.had => Kept(p) # NoFolder
  BY Zenon DEF StoreInv, HonestJournal, Kept, MustRestore

LEMMA OpenStaysKept ==
    (StoreInv => \A p \in Plugin : Pending /\ journal.id = p /\ journal.had => Kept(p) # NoFolder)'
  BY OpenIsKept, PTL

\* The steps of a swap change the folders of one plugin only.
LEMMA SwapKeeps ==
    ASSUME StoreInv, KeptInv, MoveOut \/ MoveIn \/ MoveInFails PROVE KeptInv'
<1>1. StoreInv' /\ UNCHANGED <<journal, tx>> /\ data \subseteq data' /\ pc'["install"] # "delete"
  BY MoveOutKeeps, MoveInKeeps, MoveInFailsKeeps DEF MoveOut, MoveIn, MoveInFails, StoreInv, TypeOK
<1>2. tx.id \in Plugin /\ journal = tx /\ Pending /\ pc["remove"] = "idle" /\ pc'["remove"] = "idle"
  BY TxFacts DEF StoreInv, TypeOK, Installing, OneAtATime, Pending, MoveOut, MoveIn, MoveInFails
<1>3. \A p \in Plugin \ {tx.id} : dir'[p] = dir[p] /\ backup'[p] = backup[p]
  BY <1>2, Zenon
     DEF StoreInv, TypeOK, MoveOut, MoveIn, MoveInFails, SetTarget, TakeSource, Source, Target
<1>4. \A p \in Plugin \ {tx.id} : Kept(p)' = Kept(p)
  BY <1>1, <1>2, <1>3, Zenon DEF Kept
<1>5. tx.had => Kept(tx.id)' # NoFolder
  <2>1. Pending' /\ tx'.id \in Plugin /\ journal'.id = tx'.id /\ (tx.had => journal'.had)
    BY <1>1, <1>2, Zenon DEF Pending
  <2> QED
    BY <1>1, <2>1, OpenStaysKept, Zenon
<1>6. tx.id \in wanted' => Kept(tx.id)' # NoFolder /\ tx.id \in data'
  <2>1. CASE MoveOut
    <3>1. tx.had /\ wanted' = wanted
      BY <2>1, Zenon DEF StoreInv, Installing, MoveOut
    <3> QED
      BY <1>1, <1>5, <3>1, Zenon DEF KeptInv
  <2>2. CASE MoveIn
    <3>1. dir'[tx.id] = Source /\ Source # NoFolder /\ tx.id \in data'
      <4>1. tx.new \in Version /\ (undo => BackedUp) /\ (~undo => staged = Clean(tx.new))
        BY <2>2, TxFacts, Zenon DEF StoreInv, Installing, MoveIn
      <4>2. Source # NoFolder
        BY <4>1, FolderFacts, Zenon DEF Source, BackedUp
      <4> QED
        BY <1>2, <2>2, <4>2, Zenon DEF MoveIn, StoreInv, TypeOK
    <3> QED
      BY <1>1, <3>1, Zenon DEF Kept, MustRestore
  <2>3. CASE MoveInFails
    <3>1. CASE UNCHANGED folderVars
      BY <1>1, <2>3, <3>1, Zenon DEF MoveInFails, KeptInv, Kept, MustRestore
    <3>2. CASE pc["install"] = "in"
      <4>1. tx.had /\ wanted' = wanted
        BY <2>3, <3>2, Zenon DEF StoreInv, Installing, MoveInFails
      <4> QED
        BY <1>1, <1>5, <4>1, Zenon DEF KeptInv
    <3> QED
      BY <2>3, <3>1, <3>2, Zenon DEF MoveInFails
  <2> QED
    BY <2>1, <2>2, <2>3
<1>7. wanted' \subseteq wanted \cup {tx.id} /\ wanted' \subseteq Plugin
  BY <1>1 DEF StoreInv, TypeOK, MoveOut, MoveIn, MoveInFails
<1>8. \A p \in wanted' : Kept(p)' # NoFolder /\ p \in data'
  BY <1>1, <1>4, <1>6, <1>7, Zenon DEF KeptInv
<1> QED
  BY <1>1, <1>2, <1>8, Zenon DEF KeptInv

\* What a removal sets out to delete is wanted no more.
LEMMA CheckKeepsData == ASSUME StoreInv, KeptInv, NEW a \in Actor, CheckRemove(a) PROVE KeptInv'
<1>1. UNCHANGED <<dir, backup, journal, data, id>> /\ wanted' \subseteq wanted
  BY Zenon DEF CheckRemove
<1>2. \A p \in wanted' : Kept(p)' # NoFolder /\ p \in data'
  BY <1>1, Zenon DEF KeptInv, Kept, MustRestore
<1>3. \A b \in Actor : pc'[b] = "delete" => id'[b] \notin wanted'
  <2> SUFFICES ASSUME NEW b \in Actor, pc'[b] = "delete" PROVE id'[b] \notin wanted'
    OBVIOUS
  <2>1. CASE b = a
    BY <2>1, Zenon DEF CheckRemove, StoreInv, TypeOK
  <2>2. CASE b # a
    <3>1. pc[b] = "delete"
      BY <2>2, Zenon DEF CheckRemove, StoreInv, TypeOK
    <3> QED
      BY <1>1, <3>1, Zenon DEF KeptInv
  <2> QED
    BY <2>1, <2>2
<1> QED
  BY <1>2, <1>3, Zenon DEF KeptInv

\* Only what it set out to delete goes.
LEMMA DeleteKeepsData == ASSUME StoreInv, KeptInv, NEW a \in Actor, Delete(a) PROVE KeptInv'
<1>1. id[a] \in Plugin \ wanted /\ wanted' = wanted /\ wanted \subseteq Plugin
  BY Zenon DEF StoreInv, TypeOK, Delete, KeptInv
<1>2. \A p \in wanted : dir'[p] = dir[p] /\ backup'[p] = backup[p] /\ p \in data'
  BY <1>1, Zenon DEF StoreInv, TypeOK, Delete, KeptInv
<1>3. \A p \in wanted : Kept(p)' # NoFolder
  <2> SUFFICES ASSUME NEW p \in wanted PROVE Kept(p)' # NoFolder
    OBVIOUS
  <2>1. UNCHANGED journal /\ dir'[p] = dir[p] /\ backup'[p] = backup[p] /\ Kept(p) # NoFolder
    BY <1>2, Zenon DEF Delete, KeptInv
  <2>2. Kept(p)' = Kept(p)
    BY <2>1 DEF Kept, MustRestore
  <2> QED
    BY <2>1, <2>2, Zenon
<1>4. \A b \in Actor : pc'[b] = "delete" => pc[b] = "delete" /\ id'[b] = id[b]
  BY Zenon DEF Delete, StoreInv, TypeOK
<1> QED
  BY <1>1, <1>2, <1>3, <1>4, Zenon DEF KeptInv

\* The sweep at the start spares the data of every folder that is there.
LEMMA SweepKeepsData == ASSUME StoreInv, KeptInv, Sweep PROVE KeptInv'
<1>1. UNCHANGED <<dir, backup, journal, wanted, pc, id>>
  BY Zenon DEF Sweep
<1>2. \A p \in wanted : p \in data'
  <2>1. CASE Pending
    BY <2>1, Zenon DEF Sweep, KeptInv
  <2>2. CASE ~Pending
    <3>1. \A p \in wanted : dir[p] # NoFolder
      BY <2>2, TxFacts, Zenon DEF StoreInv, TypeOK, KeptInv, Kept, Pending
    <3> QED
      BY <2>2, <3>1, Zenon DEF Sweep, KeptInv
  <2> QED
    BY <2>1, <2>2
<1> QED
  BY <1>1, <1>2, Zenon DEF KeptInv, Kept, MustRestore

LEMMA KeptStep == ASSUME ~Overlap, ~EditsInside, StoreInv, KeptInv, [Next]_vars PROVE KeptInv'
<1>1. ASSUME NEW p \in Plugin, NEW v \in Version, Begin(p, v) PROVE KeptInv'
  <2>1. UNCHANGED <<wanted, data>> /\ \A a \in Actor : pc'[a] = "delete" => pc[a] = "delete" /\ id'[a] = id[a]
    BY <1>1, Zenon DEF Begin, StoreInv, TypeOK
  <2> QED
    BY <1>1, <2>1, BeginKeeps, UnseenKeeps
<1>2. CASE Stage \/ WriteJournal \/ LockSwap \/ ClearTarget
  <2>1. UNCHANGED <<wanted, data>> /\ \A a \in Actor : pc'[a] = "delete" => pc[a] = "delete" /\ id'[a] = id[a]
    BY <1>2, Zenon DEF Stage, WriteJournal, LockSwap, ClearTarget, StoreInv, TypeOK
  <2> QED
    BY <1>2, <2>1, StageKeeps, WriteJournalKeeps, LockSwapKeeps, ClearTargetKeeps, UnseenKeeps
<1>3. CASE MoveOut \/ MoveIn \/ MoveInFails
  BY <1>3, SwapKeeps
<1>4. CASE LoadReceipts \/ SaveReceipts \/ ClearJournal \/ Started \/ Rollback
  <2>1. UNCHANGED <<wanted, data>> /\ \A a \in Actor : pc'[a] = "delete" => pc[a] = "delete" /\ id'[a] = id[a]
    BY <1>4, Zenon DEF LoadReceipts, SaveReceipts, ClearJournal, Started, Rollback, StoreInv, TypeOK
  <2> QED
    BY <1>4, <2>1, LoadReceiptsKeeps, SaveReceiptsKeeps, ClearJournalKeeps, StartedKeeps, RollbackKeeps,
       UnseenKeeps
<1>5. CASE /\ phase = "up"
           /\ pc["install"] \in {"stage", "journal", "lock", "clear", "out", "load", "save", "commit"}
           /\ Fault("install")
  <2>1. UNCHANGED <<wanted, data>> /\ \A a \in Actor : pc'[a] = "delete" => pc[a] = "delete" /\ id'[a] = id[a]
    BY <1>5, Zenon DEF Fault, StoreInv, TypeOK
  <2> QED
    BY <1>5, <2>1, InstallFaultKeeps, UnseenKeeps
<1>6. ASSUME NEW p \in Plugin, AskRemove(p) PROVE KeptInv'
  <2>1. UNCHANGED <<wanted, data>> /\ \A a \in Actor : pc'[a] = "delete" => pc[a] = "delete" /\ id'[a] = id[a]
    BY <1>6, Zenon DEF AskRemove, StoreInv, TypeOK
  <2> QED
    BY <1>6, <2>1, AskRemoveKeeps, UnseenKeeps
<1>7. ASSUME NEW a \in Actor, DeleteFails(a) \/ Forget(a) \/ Drop(a) PROVE KeptInv'
  <2>1. UNCHANGED <<wanted, data>> /\ \A b \in Actor : pc'[b] = "delete" => pc[b] = "delete" /\ id'[b] = id[b]
    BY <1>7, Zenon DEF DeleteFails, Forget, Drop, StoreInv, TypeOK
  <2> QED
    BY <1>7, <2>1, DeleteFailsKeeps, ForgetKeeps, DropKeeps, UnseenKeeps
<1>8. CASE Replay \/ ReplayReceipts \/ ReplayClear \/ ReplayFails \/ Crash
  <2>1. UNCHANGED <<wanted, data>> /\ \A a \in Actor : pc'[a] = "delete" => pc[a] = "delete" /\ id'[a] = id[a]
    BY <1>8, Zenon DEF Replay, ReplayReceipts, ReplayClear, ReplayFails, Crash, StoreInv, TypeOK
  <2> QED
    BY <1>8, <2>1, ReplayKeeps, ReplayReceiptsKeeps, ReplayClearKeeps, ReplayFailsKeeps, CrashKeeps,
       UnseenKeeps
<1>9. ASSUME NEW p \in Plugin, SweepReceipt(p) \/ Edit(p) PROVE KeptInv'
  <2>1. UNCHANGED <<wanted, data, pc, id>>
    BY <1>9, Zenon DEF SweepReceipt, Edit
  <2> QED
    BY <1>9, <2>1, SweepReceiptKeeps, EditKeeps, UnseenKeeps
<1>10. CASE UNCHANGED vars
  BY <1>10 DEF vars, KeptInv, Kept, MustRestore
<1> QED
  BY <1>1, <1>2, <1>3, <1>4, <1>5, <1>6, <1>7, <1>8, <1>9, <1>10, CheckKeepsData, DeleteKeepsData,
     SweepKeepsData
     DEF Next, Install, Removal, Recover

\* NothingIsLost, for any plugins, versions and number of crashes, faults and edits: a plugin
\* that was installed and that nobody asked to remove keeps its data, and its folder or the
\* backup that an open transaction restores (journal::replay, replace_dir, sweep_orphaned_data).
THEOREM NothingLost ==
    ASSUME ~Overlap, ~EditsInside PROVE Spec => []NothingIsLost
<1>1. Init => StoreInv /\ KeptInv
  <2>1. Init => KeptInv
    <3> SUFFICES ASSUME Init PROVE KeptInv
      OBVIOUS
    <3>1. /\ data = {p \in Plugin : dir[p] # NoFolder} /\ wanted = data /\ journal = NoTx
          /\ pc = [a \in Actor |-> "idle"]
      BY Zenon DEF Init
    <3>2. \A p \in Plugin : Kept(p) = dir[p]
      BY <3>1, TxFacts, Zenon DEF Kept
    <3>3. \A p \in wanted : Kept(p) # NoFolder /\ p \in data
      BY <3>1, <3>2
    <3>4. \A a \in Actor : pc[a] # "delete"
      BY <3>1
    <3> QED
      BY <3>3, <3>4, Zenon DEF KeptInv
  <2> QED
    BY <2>1, InitHonest
<1>2. StoreInv /\ KeptInv /\ [Next]_vars => StoreInv' /\ KeptInv'
  BY StepImplements, KeptStep
<1>3. StoreInv /\ KeptInv => NothingIsLost
  BY KeptIsThere
<1> QED
  BY <1>1, <1>2, <1>3, PTL DEF Spec

================================================================================
