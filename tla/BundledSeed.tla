------------------------------- MODULE BundledSeed -------------------------------
(***************************************************************************)
(* The plugins that come with the app (smabar-core/src/plugins/seed.rs and *)
(* the setup of smabar/src/main.rs): each start compares what the app      *)
(* ships with the user's folders, installs, replaces, keeps or offers, and *)
(* then sweeps the data of plugins without a folder.                       *)
(*                                                                         *)
(* What the app wrote last is remembered in a file that is written after   *)
(* all plugins.  A failure ends the seeding of this start, a crash leaves  *)
(* whatever is on the disk, and the user edits, removes and brings back    *)
(* folders whenever nothing is being seeded.                               *)
(***************************************************************************)
EXTENDS Naturals

CONSTANTS Bundled,       \* ids of the plugins the app ships
          Edition,       \* versions of their code
          UserCode,      \* code of the user's own
          SeedBudgets    \* bounds: how often what may happen

SeedEvents == {"upgrade", "edit", "remove", "back", "fail", "crash", "pending"}
ASSUME SeedAssumption ==
    /\ Edition \cap UserCode = {} /\ {"absent", "partial", "none", "no entry", "removed"} \cap (Edition \cup UserCode) = {}
    /\ SeedBudgets \subseteq [SeedEvents -> Nat]

VARIABLES
    appPhase,    \* "off", "seeding", "sweeping" or "running"
    bundle,      \* what the installed app ships
    folders,     \* the plugins' folders: code, "absent" or "partial"
    seedFile,    \* the seed state on the disk
    seedState,   \* the seed state of this start
    seeding,     \* the plugins still to be seeded, the one under way and its step
    pluginData,  \* the plugins with data
    word,        \* history: what the user did to a folder last: code, "removed" or "none"
    returned,    \* history: the removed plugins that the app brought back
    lostData,    \* history: the plugins that lost their data, though the user kept them
    seedLeft     \* bounds: the events that may still happen

historyVars == <<word, returned, lostData>>
seedVars == <<appPhase, bundle, folders, seedFile, seedState, seeding, pluginData, historyVars,
              seedLeft>>

--------------------------------------------------------------------------------
SpendSeed(event) == seedLeft[event] > 0 /\ seedLeft' = [seedLeft EXCEPT ![event] = @ - 1]
NoEntry == [seeded |-> "no entry", update |-> "none"]
Entry(seeded, update) == [seeded |-> seeded, update |-> update]
NoEntries == [p \in Bundled |-> NoEntry]
Resting == [todo |-> {}, plugin |-> "none", step |-> "none"]

SeedInit ==
    /\ appPhase = "off" /\ bundle \in [Bundled -> Edition]
    /\ folders = [p \in Bundled |-> "absent"]
    /\ seedFile = NoEntries /\ seedState = NoEntries /\ seeding = Resting /\ pluginData = {}
    /\ word = [p \in Bundled |-> "none"] /\ returned = {} /\ lostData = {}
    /\ seedLeft \in SeedBudgets

--------------------------------------------------------------------------------
(* The user and the app's updates. *)

Restful == appPhase \in {"off", "running"}
UserPuts(p, code) ==
    /\ Restful /\ folders' = [folders EXCEPT ![p] = code]
    /\ word' = [word EXCEPT ![p] = IF code = "absent" THEN "removed" ELSE code]
    /\ UNCHANGED <<appPhase, bundle, seedFile, seedState, seeding, returned, lostData>>
EditPlugin(p) ==
    /\ SpendSeed("edit") /\ folders[p] # "absent" /\ UNCHANGED pluginData
    /\ \E code \in UserCode : UserPuts(p, code)
\* A copy of a removed plugin is brought back.
BringBack(p) ==
    /\ SpendSeed("back") /\ word[p] = "removed" /\ folders[p] = "absent" /\ UNCHANGED pluginData
    /\ \E code \in UserCode : UserPuts(p, code)
DeleteByHand(p) ==
    /\ SpendSeed("remove") /\ folders[p] # "absent" /\ UserPuts(p, "absent") /\ UNCHANGED pluginData
\* remove_plugin, with the plugin's data.
RemoveInApp(p) ==
    /\ SpendSeed("remove") /\ appPhase = "running" /\ folders[p] # "absent"
    /\ UserPuts(p, "absent")
    /\ \/ pluginData' = pluginData \ {p}
       \/ UNCHANGED pluginData
PluginWrites(p) ==
    /\ appPhase = "running" /\ folders[p] # "absent" /\ pluginData' = pluginData \cup {p}
    /\ UNCHANGED <<appPhase, bundle, folders, seedFile, seedState, seeding, historyVars, seedLeft>>
Upgrade ==
    /\ SpendSeed("upgrade") /\ appPhase = "off" /\ bundle' \in [Bundled -> Edition]
    /\ UNCHANGED <<appPhase, folders, seedFile, seedState, seeding, pluginData, historyVars>>
QuitApp ==
    /\ appPhase = "running" /\ appPhase' = "off" /\ seedState' = NoEntries
    /\ UNCHANGED <<bundle, folders, seedFile, seeding, pluginData, historyVars, seedLeft>>

--------------------------------------------------------------------------------
(* seed_bundled_plugins *)

\* decide
\* MUTANT: any plugin the app once wrote is replaced.
Decide_Replaces(installed, bundled, entry) ==
    IF installed = "absent" THEN IF entry # NoEntry THEN "keep" ELSE "install"
    ELSE IF installed = bundled THEN "keep"
    ELSE IF entry.seeded \in Edition /\ entry.seeded # bundled THEN "replace"
    ELSE IF entry.seeded = bundled THEN "keep" ELSE "offer"
Decide(installed, bundled, entry) ==
    IF installed = "absent" THEN IF entry # NoEntry THEN "keep" ELSE "install"
    ELSE IF installed = bundled THEN "keep"
    ELSE IF entry.seeded = installed THEN "replace"
    ELSE IF entry.seeded = bundled THEN "keep" ELSE "offer"

StartApp ==
    /\ appPhase = "off" /\ appPhase' = "seeding" /\ seedState' = seedFile
    /\ seeding' = [Resting EXCEPT !.todo = Bundled]
    /\ UNCHANGED <<bundle, folders, seedFile, pluginData, historyVars, seedLeft>>
Abandon == appPhase' = "sweeping" /\ seeding' = Resting
Seeded(p, entry) ==
    /\ seedState' = [seedState EXCEPT ![p] = entry]
    /\ seeding' = [Resting EXCEPT !.todo = seeding.todo \ {p}]
Examine(p) ==
    LET action == Decide(folders[p], bundle[p], seedState[p])
    IN /\ appPhase = "seeding" /\ seeding.step = "none" /\ p \in seeding.todo
       /\ \/ /\ action \in {"install", "replace"}
             /\ seeding' = [seeding EXCEPT !.plugin = p, !.step =
                               IF action = "replace" THEN "remove" ELSE "copy"]
             /\ UNCHANGED <<appPhase, seedState, seedLeft>>
          \/ /\ action = "offer" /\ Seeded(p, Entry(IF seedState[p] = NoEntry THEN "none"
                                                   ELSE seedState[p].seeded, bundle[p]))
             /\ UNCHANGED <<appPhase, seedLeft>>
          \/ action = "keep" /\ Seeded(p, Entry(bundle[p], "none")) /\ UNCHANGED <<appPhase, seedLeft>>
          \* The folder cannot be read.
          \/ SpendSeed("fail") /\ Abandon /\ UNCHANGED seedState
       /\ UNCHANGED <<bundle, folders, seedFile, pluginData, historyVars>>

SeedAt(step) == appPhase = "seeding" /\ seeding.step = step
RemoveOld ==
    /\ SeedAt("remove")
    /\ \/ folders' = [folders EXCEPT ![seeding.plugin] = "partial"]
          /\ seeding' = [seeding EXCEPT !.step = "removing"] /\ UNCHANGED <<appPhase, seedLeft>>
       \/ SpendSeed("fail") /\ Abandon /\ UNCHANGED folders
    /\ UNCHANGED <<bundle, seedFile, seedState, pluginData, historyVars>>
OldRemoved ==
    /\ SeedAt("removing")
    /\ \/ folders' = [folders EXCEPT ![seeding.plugin] = "absent"]
          /\ seeding' = [seeding EXCEPT !.step = "copy"] /\ UNCHANGED <<appPhase, seedLeft>>
       \/ SpendSeed("fail") /\ Abandon /\ UNCHANGED folders
    /\ UNCHANGED <<bundle, seedFile, seedState, pluginData, historyVars>>
\* install and copy_contents: what was copied before a failure is removed again, if it can be.
CopyNew ==
    LET p == seeding.plugin
    IN /\ SeedAt("copy") /\ folders' = [folders EXCEPT ![p] = "partial"]
       /\ seeding' = [seeding EXCEPT !.step = "copying"]
       /\ returned' = IF word[p] = "removed" THEN returned \cup {p} ELSE returned
       /\ word' = IF seedState[p] = NoEntry THEN [word EXCEPT ![p] = "none"] ELSE word
       /\ UNCHANGED <<appPhase, bundle, seedFile, seedState, pluginData, lostData, seedLeft>>
NewCopied ==
    LET p == seeding.plugin
    IN /\ SeedAt("copying") /\ folders' = [folders EXCEPT ![p] = bundle[p]]
       /\ Seeded(p, Entry(bundle[p], "none"))
       /\ UNCHANGED <<appPhase, bundle, seedFile, pluginData, historyVars, seedLeft>>
CopyFails ==
    /\ SeedAt("copying") /\ SpendSeed("fail") /\ Abandon
    /\ \E left \in {"absent", "partial"} : folders' = [folders EXCEPT ![seeding.plugin] = left]
    /\ UNCHANGED <<bundle, seedFile, seedState, pluginData, historyVars>>

\* write_state, if anything changed; that it fails is only logged.
WriteState ==
    /\ appPhase = "seeding" /\ seeding = Resting /\ appPhase' = "sweeping"
    /\ \/ seedFile' = seedState /\ UNCHANGED seedLeft
       \/ seedFile # seedState /\ SpendSeed("fail") /\ UNCHANGED seedFile
    /\ UNCHANGED <<bundle, folders, seedState, seeding, pluginData, historyVars>>
\* The file is written in place, and what cannot be read is no state.
WriteTorn ==
    /\ appPhase = "seeding" /\ seeding = Resting /\ seedFile # seedState /\ SpendSeed("crash")
    /\ seedFile' = NoEntries /\ appPhase' = "off" /\ seedState' = NoEntries
    /\ UNCHANGED <<bundle, folders, seeding, pluginData, historyVars>>
\* sweep_orphaned_data, unless the store's recovery is pending.
SweepData ==
    LET orphans == {p \in pluginData : folders[p] = "absent"}
    IN /\ appPhase = "sweeping" /\ appPhase' = "running"
       /\ \/ /\ pluginData' = pluginData \ orphans /\ UNCHANGED seedLeft
             /\ lostData' = lostData \cup {p \in orphans : word[p] # "removed"}
          \/ SpendSeed("pending") /\ UNCHANGED <<pluginData, lostData>>
       /\ UNCHANGED <<bundle, folders, seedFile, seedState, seeding, word, returned>>
CrashApp ==
    /\ appPhase # "off" /\ SpendSeed("crash")
    /\ appPhase' = "off" /\ seeding' = Resting /\ seedState' = NoEntries
    /\ UNCHANGED <<bundle, folders, seedFile, pluginData, historyVars>>

--------------------------------------------------------------------------------
SeedNext ==
    \/ Upgrade \/ QuitApp \/ StartApp \/ RemoveOld \/ OldRemoved \/ CopyNew \/ NewCopied
    \/ CopyFails \/ WriteState \/ WriteTorn \/ SweepData \/ CrashApp
    \/ \E p \in Bundled : EditPlugin(p) \/ BringBack(p) \/ DeleteByHand(p) \/ RemoveInApp(p)
                          \/ PluginWrites(p) \/ Examine(p)

SeedSpec == SeedInit /\ [][SeedNext]_seedVars

--------------------------------------------------------------------------------
SeedTypeOK ==
    /\ appPhase \in {"off", "seeding", "sweeping", "running"}
    /\ folders \in [Bundled -> Edition \cup UserCode \cup {"absent", "partial"}]
    /\ \A p \in Bundled : seedFile[p].seeded \in Edition \cup {"none", "no entry"}

\* What the user did to a folder last stands, whatever starts, updates, failures and crashes
\* come after it: code of their own stays byte for byte, and a plugin they removed stays away
\* for as long as the seed state remembers that it was ever installed.
UsersWordStands ==
    \A p \in Bundled :
        /\ word[p] \in UserCode => folders[p] = word[p]
        /\ (word[p] = "removed" /\ seedFile[p] # NoEntry) => folders[p] = "absent"

\* "Losing the baseline only costs a confirmation later": no removed plugin comes back.
NothingReturns == returned = {}
\* A plugin the app has installed and takes for removed was removed by the user, not by an
\* update that failed half-way.
GoneMeansRemoved ==
    appPhase = "running" =>
        \A p \in Bundled : (seedFile[p] # NoEntry /\ folders[p] = "absent") => word[p] = "removed"
\* The data of a plugin nobody removed outlives every start.
DataOutlivesUpdates == lostData = {}
================================================================================
