------------------------------ MODULE ConfigThemes ------------------------------
(***************************************************************************)
(* The settings file (config/watcher.rs), the themes in their directory    *)
(* (themes/io, commands/themes.rs, mcp/theme_tools.rs, store/themes.rs)    *)
(* and what the page is painted with (commands/config.rs).                 *)
(*                                                                         *)
(* Settings change under one lock, in memory and on disk, and every change *)
(* is broadcast to the loop that tells the page.  Theme files change under *)
(* another lock.  Commands of the page, tools and the store run at the     *)
(* same time and take several steps; the user edits the settings file, and *)
(* the app may die between any two steps.                                  *)
(***************************************************************************)
EXTENDS Naturals, Sequences

CONSTANTS Name,         \* themes the user or the store adds
          Paint,        \* token maps
          Behaviour,    \* values of the settings a theme may set
          Slot,         \* commands that may run at the same time
          ThemeBudgets  \* bounds: what may happen, per kind of event

ThemeEvents == {"set", "tune", "save", "import", "write", "delete", "remove", "install",
                "block", "edit", "fail", "crash"}
ASSUME ThemeAssumption == ThemeBudgets \subseteq [ThemeEvents -> Nat]

VARIABLES
    disk,       \* config.json
    watch,      \* WatchState: the settings and the content hash; whether a file
                \* event waits, and whether the debounce is over
    write,      \* a change of the settings that holds the lock and is being written
    chain,      \* changes broadcast to the loop
    loop,       \* the loop: the change it works on, with the paint it resolved
    page,       \* what the page shows
    files,      \* theme files, with the revision of their last write
    receipts,   \* themes with a store receipt
    ops,        \* the commands that run
    up,         \* whether the app runs
    edited,     \* history: the user touched config.json and the app has not read it
    revision,   \* next_revision
    themeLeft   \* bounds: the events that may still happen

themeVars == <<disk, watch, write, chain, loop, page, files, receipts, ops, up, edited,
               revision, themeLeft>>

--------------------------------------------------------------------------------
Default == "default"
Leave   == "leave"      \* a theme without a settings block
NoFile  == [paint |-> "none", behaviour |-> Leave, rev |-> 0]
NoWrite == [by |-> "none"]
Resting == [kind |-> "none", step |-> "none"]
Nothing == [step |-> "idle"]

ThemeNames == Name \cup {Default}
Document   == [paint : Paint, behaviour : Behaviour \cup {Leave}]
\* A setting the user tunes; overrides are the tokens of his sliders.
Settings   == [theme : ThemeNames, overrides : Paint \cup {"none"}, behaviour : Behaviour]
Bundled    == [paint |-> "plain", behaviour |-> Leave]
\* What a fresh installation writes.
Defaults   == [theme |-> Default, overrides |-> "none",
               behaviour |-> CHOOSE b \in Behaviour : TRUE]
\* The exact text smabar writes; an editor may format it in another way.
Pretty(c)  == [value |-> c, form |-> "pretty"]
Broken     == [value |-> Defaults, form |-> "broken"]
Absent     == [value |-> Defaults, form |-> "absent"]
Readable(content) == content \notin {Broken, Absent}

Spend(event) == themeLeft[event] > 0 /\ themeLeft' = [themeLeft EXCEPT ![event] = @ - 1]

\* Themes: what is available, what a name resolves to, what its activation changes.
IsAvailable(name)   == name \in {Default} \cup {n \in Name : files[n] # NoFile}
Theme(name)         == IF name # Default /\ files[name] # NoFile THEN files[name] ELSE Bundled
Resolve(name)       == Theme(name).paint
SettingsBlock(name) == Theme(name).behaviour
ApplySettings(c, block) == IF block = Leave THEN c ELSE [c EXCEPT !.behaviour = block]
Activate(c, name)   == ApplySettings([c EXCEPT !.theme = name, !.overrides = "none"],
                                     SettingsBlock(name))
\* The look of the user as a document: the sliders lie over the theme's tokens.
CurrentLook(c) == [paint |-> IF c.overrides = "none" THEN Resolve(c.theme) ELSE c.overrides,
                   behaviour |-> c.behaviour]

--------------------------------------------------------------------------------
Started(content) == [config |-> content.value, hash |-> content, event |-> FALSE,
                     ready |-> FALSE]
\* get_ui_state
UiState(c) == [theme |-> c.theme, paint |-> Resolve(c.theme), overrides |-> c.overrides,
               behaviour |-> c.behaviour]

ThemeInit ==
    /\ files \in [Name -> {NoFile, [paint |-> "plain", behaviour |-> Leave, rev |-> 0]}]
    /\ receipts \in SUBSET {n \in Name : files[n] # NoFile}
    /\ disk \in {Pretty([Defaults EXCEPT !.theme = n]) : n \in {n \in ThemeNames : IsAvailable(n)}}
    /\ watch = Started(disk) /\ page = UiState(disk.value)
    /\ write = NoWrite /\ chain = <<>> /\ loop = Nothing /\ revision = 0
    /\ ops = [s \in Slot |-> Resting] /\ up = TRUE /\ edited = FALSE
    /\ themeLeft \in ThemeBudgets

--------------------------------------------------------------------------------
(* The lock of the settings: ConfigWatcher::update. *)

Unlocked == write = NoWrite
Command(kind, name, memo) == [kind |-> kind, name |-> name, step |-> "new", memo |-> memo]
To(s, command, step) ==
    ops' = [ops EXCEPT ![s] = IF step = "done" THEN Resting ELSE [command EXCEPT !.step = step]]
\* An update by a command that found the lock free: nothing is written when nothing
\* changes; otherwise the new text goes to a temporary file first.
Update(s, command, new, then, failed) ==
    /\ Unlocked
    /\ IF new = watch.config THEN To(s, command, then) /\ UNCHANGED write
       ELSE /\ write' = [by |-> s, new |-> new, then |-> then, failed |-> failed]
            /\ To(s, command, "writing")

RecordWrite(c) == watch' = [watch EXCEPT !.config = c, !.hash = Pretty(c), !.event = TRUE]
Broadcast(old, new) == chain' = Append(chain, [old |-> old, new |-> new])

\* The rename makes the new text visible; the lock is still held.
CommitUpdate ==
    /\ up /\ write # NoWrite
    /\ disk' = Pretty(write.new) /\ edited' = FALSE
    /\ RecordWrite(write.new)
    /\ Broadcast(watch.config, write.new)
    /\ To(write.by, ops[write.by], write.then)
    /\ write' = NoWrite
    /\ UNCHANGED <<loop, page, files, receipts, up, revision, themeLeft>>

FailUpdate ==
    /\ up /\ write # NoWrite /\ Spend("fail")
    /\ To(write.by, ops[write.by], write.failed)
    /\ write' = NoWrite
    /\ UNCHANGED <<disk, watch, chain, loop, page, files, receipts, up, edited, revision>>

--------------------------------------------------------------------------------
(* The file watcher: debounce_loop and WatchState::observe. *)

\* The user's editor: other settings, another format, a broken file, none.
Edit ==
    /\ Spend("edit")
    /\ \/ disk' \in {Broken, Absent}
       \/ /\ Readable(disk)
          /\ \E b \in Behaviour, form \in {"pretty", "user"} :
                 disk' = [value |-> [disk.value EXCEPT !.behaviour = b], form |-> form]
       \/ ~Readable(disk) /\ disk' = Pretty(Defaults)
    /\ disk' # disk
    /\ edited' = TRUE
    /\ watch' = [watch EXCEPT !.event = up]
    /\ UNCHANGED <<write, chain, loop, page, files, receipts, ops, up, revision>>

\* The file was quiet for DEBOUNCE.
Settle ==
    /\ up /\ watch.event /\ ~watch.ready
    /\ watch' = [watch EXCEPT !.event = FALSE, !.ready = TRUE]
    /\ UNCHANGED <<disk, write, chain, loop, page, files, receipts, ops, up, edited, revision,
                   themeLeft>>

\* MUTANT: the hash of an edit that changes settings is not recorded.
Observe_OwnHash(content) ==
    IF content = watch.hash \/ ~Readable(content)
    THEN watch' = [watch EXCEPT !.ready = FALSE] /\ UNCHANGED chain
    ELSE /\ watch' = [watch EXCEPT !.ready = FALSE, !.config = content.value]
         /\ IF content.value = watch.config THEN UNCHANGED chain
            ELSE Broadcast(watch.config, content.value)

\* What the watcher makes of new content: its own text, a broken one, the same
\* settings in another format, other settings.
Observe(content) ==
    IF content = watch.hash \/ ~Readable(content)
    THEN watch' = [watch EXCEPT !.ready = FALSE] /\ UNCHANGED chain
    ELSE /\ watch' = [watch EXCEPT !.ready = FALSE, !.hash = content, !.config = content.value]
         /\ IF content.value = watch.config THEN UNCHANGED chain
            ELSE Broadcast(watch.config, content.value)

\* The file is read under the lock.
Reload ==
    /\ up /\ watch.ready /\ Unlocked
    /\ Observe(disk)
    /\ edited' = (edited /\ ~Readable(disk))
    /\ UNCHANGED <<disk, write, loop, page, files, receipts, ops, up, revision, themeLeft>>

--------------------------------------------------------------------------------
(* The loop that tells the page (commands/config.rs). *)

ThemeChanged(change) == change.old.theme # change.new.theme

\* emit_theme_changed reads the theme before it emits; the lock is not held.
LoopTakes ==
    /\ up /\ loop = Nothing /\ chain # <<>>
    /\ loop' = [step |-> "emit", change |-> Head(chain),
                paint |-> Resolve(Head(chain).new.theme)]
    /\ chain' = Tail(chain)
    /\ UNCHANGED <<disk, watch, write, page, files, receipts, ops, up, edited, revision,
                   themeLeft>>

\* Only what the change says has changed is told.
Told(p, change, paint) ==
    LET Painted == IF ThemeChanged(change)
                   THEN [p EXCEPT !.theme = change.new.theme, !.paint = paint] ELSE p
        Slid    == IF change.old.overrides # change.new.overrides
                   THEN [Painted EXCEPT !.overrides = change.new.overrides] ELSE Painted
    IN IF change.old.behaviour # change.new.behaviour
       THEN [Slid EXCEPT !.behaviour = change.new.behaviour] ELSE Slid

LoopEmits ==
    /\ up /\ loop # Nothing
    /\ page' = Told(page, loop.change, loop.paint)
    /\ loop' = Nothing
    /\ UNCHANGED <<disk, watch, write, chain, files, receipts, ops, up, edited, revision,
                   themeLeft>>

\* emit_theme_if_active, under the lock
EmitIfActive(name) ==
    page' = IF watch.config.theme = name
            THEN [page EXCEPT !.theme = name, !.paint = Resolve(name)] ELSE page

--------------------------------------------------------------------------------
(* Commands.  Each takes a free slot until it is done. *)

Begins(s, event) == up /\ ops[s] = Resting /\ Spend(event)
At(s, step) == up /\ ops[s] # Resting /\ ops[s].step = step
OthersKept == UNCHANGED <<disk, watch, chain, loop, up, edited>>

WriteFile(name, doc) ==
    /\ revision' = revision + 1
    /\ files' = [files EXCEPT ![name] = [paint |-> doc.paint, behaviour |-> doc.behaviour,
                                         rev |-> revision + 1]]
\* Its receipt belongs to the file.
RemoveFile(name) ==
    /\ files' = [files EXCEPT ![name] = NoFile]
    /\ receipts' = receipts \ {name}

\* update_config and settings_set: a theme that is available is activated.
SetTheme(s, name) ==
    /\ Begins(s, "set") /\ IsAvailable(name)
    /\ Update(s, Command("set", name, Nothing), Activate(watch.config, name), "done", "done")
    /\ OthersKept /\ UNCHANGED <<page, files, receipts, revision>>
Tune(s, field, value) ==
    /\ Begins(s, "tune")
    /\ Update(s, Command("tune", Default, Nothing), [watch.config EXCEPT ![field] = value],
              "done", "done")
    /\ OthersKept /\ UNCHANGED <<page, files, receipts, revision>>

\* save_theme_file: the look becomes a theme file, the theme is activated, and the
\* file is taken back when the settings cannot be written.
Save(s, name) ==
    LET was    == watch.config.theme = name
        staged == [doc |-> CurrentLook(watch.config), rev |-> revision + 1,
                   previous |-> files[name], was |-> was]
        Saved  == ApplySettings([watch.config EXCEPT !.theme = name, !.overrides = "none"],
                                staged.doc.behaviour)
    IN /\ Begins(s, "save")
       /\ Update(s, Command("save", name, staged), Saved, IF was THEN "emit" ELSE "done",
                 "rollback")
       /\ WriteFile(name, staged.doc)
       /\ OthersKept /\ UNCHANGED <<page, receipts>>

\* rollback_theme_write_safely: newer contents and a theme that became active stay.
Rollback(s) ==
    LET name == ops[s].name
        mine == files[name].rev = ops[s].memo.rev
        activated == ~ops[s].memo.was /\ watch.config.theme = name
    IN /\ At(s, "rollback") /\ Unlocked
       /\ files' = IF mine /\ ~activated
                   THEN [files EXCEPT ![name] = [ops[s].memo.previous EXCEPT !.rev = 0]] ELSE files
       /\ To(s, ops[s], "done")
       /\ OthersKept /\ UNCHANGED <<write, page, receipts, revision, themeLeft>>

\* The active theme's file was written: the page is painted again.
Emit(s) ==
    /\ At(s, "emit") /\ Unlocked
    /\ EmitIfActive(ops[s].name)
    /\ To(s, ops[s], "done")
    /\ OthersKept /\ UNCHANGED <<write, files, receipts, revision, themeLeft>>

\* import_theme, and a theme file that is dropped or opened
Import(s, name, doc) ==
    /\ Begins(s, "import")
    /\ WriteFile(name, doc)
    /\ To(s, Command("import", name, Nothing), "emit")
    /\ OthersKept /\ UNCHANGED <<write, page, receipts>>

\* The tool theme_write leaves the page alone.
ThemeWrite(name, doc) ==
    /\ up /\ Spend("write")
    /\ WriteFile(name, doc)
    /\ OthersKept /\ UNCHANGED <<write, page, receipts, ops>>

\* The tool theme_remove holds the lock of the settings and refuses an active theme.
ThemeRemove(name) ==
    /\ up /\ Unlocked /\ Spend("remove")
    /\ files[name] # NoFile /\ watch.config.theme # name
    /\ RemoveFile(name)
    /\ OthersKept /\ UNCHANGED <<write, page, ops, revision>>

\* delete_theme_file: away from the theme, the file, away again.
SwitchAway(s, command, then) ==
    LET activated == Activate(watch.config, Default)
        memo      == [original |-> watch.config, activated |-> activated]
    IN IF watch.config.theme # command.name
       THEN Unlocked /\ To(s, command, then) /\ UNCHANGED write
       ELSE Update(s, [command EXCEPT !.memo = memo], activated, then, "done")

Delete(s, name) ==
    /\ Begins(s, "delete") /\ files[name] # NoFile
    /\ SwitchAway(s, Command("delete", name, Nothing), "unlink")
    /\ OthersKept /\ UNCHANGED <<page, files, receipts, revision>>

Unlink(s) ==
    LET name == ops[s].name
    IN /\ At(s, "unlink")
       /\ \/ /\ files[name] # NoFile /\ RemoveFile(name)
             /\ To(s, ops[s], "again") /\ UNCHANGED themeLeft
          \/ /\ \/ files[name] = NoFile /\ UNCHANGED themeLeft
                \/ files[name] # NoFile /\ Spend("fail")
             /\ To(s, ops[s], IF ops[s].memo = Nothing THEN "done" ELSE "restore")
             /\ UNCHANGED <<files, receipts>>
       /\ OthersKept /\ UNCHANGED <<write, page, revision>>

\* The deletion failed: the settings come back unless they changed meanwhile.
Restore(s) ==
    /\ At(s, "restore")
    /\ IF watch.config = ops[s].memo.activated
       THEN Update(s, ops[s], ops[s].memo.original, "done", "done")
       ELSE Unlocked /\ To(s, ops[s], "done") /\ UNCHANGED write
    /\ OthersKept /\ UNCHANGED <<page, files, receipts, revision, themeLeft>>

DeletedAgain(s) ==
    /\ At(s, "again")
    /\ SwitchAway(s, ops[s], "done")
    /\ OthersKept /\ UNCHANGED <<page, files, receipts, revision, themeLeft>>

--------------------------------------------------------------------------------
(* The store: store/themes.rs and refresh.rs. *)

Installing == \E s \in Slot : ops[s] # Resting /\ ops[s].kind = "install"
\* guard: the store replaces no file without a receipt.
InstallTheme(s, name) ==
    /\ Begins(s, "install") /\ ~Installing
    /\ files[name] = NoFile \/ name \in receipts
    /\ To(s, Command("install", name, receipts), "fetch")
    /\ OthersKept /\ UNCHANGED <<write, page, files, receipts, revision>>

\* The file arrived and was verified; the receipts are read before it is imported.
ImportFetched(s, doc) ==
    /\ At(s, "fetch")
    /\ WriteFile(ops[s].name, doc)
    /\ To(s, [ops[s] EXCEPT !.memo = receipts], "receipt")
    /\ OthersKept /\ UNCHANGED <<write, page, receipts, themeLeft>>

SaveReceipt(s) ==
    /\ At(s, "receipt")
    /\ \/ receipts' = ops[s].memo \cup {ops[s].name} /\ UNCHANGED themeLeft
       \/ Spend("fail") /\ UNCHANGED receipts
    /\ To(s, ops[s], "done")
    /\ OthersKept /\ UNCHANGED <<write, page, files, revision>>

\* A blocked theme that is active: it was read, then the settings are changed.
Block(s, name) ==
    /\ Begins(s, "block") /\ Unlocked
    /\ name \in receipts /\ watch.config.theme = name
    /\ To(s, Command("block", name, Nothing), "switch")
    /\ OthersKept /\ UNCHANGED <<write, page, files, receipts, revision>>

SwitchToDefault(s) ==
    /\ At(s, "switch")
    /\ Update(s, ops[s], Activate(watch.config, Default), "done", "done")
    /\ OthersKept /\ UNCHANGED <<page, files, receipts, revision, themeLeft>>

\* sweep_orphan_receipts, under the lock of the receipts
SweepReceipts ==
    /\ up /\ \A s \in Slot : ops[s] = Resting \/ ops[s].step # "receipt"
    /\ \E n \in receipts : files[n] = NoFile
    /\ receipts' = {n \in receipts : files[n] # NoFile}
    /\ OthersKept /\ UNCHANGED <<write, page, files, ops, revision, themeLeft>>

--------------------------------------------------------------------------------
(* The app dies and is started again: what it held in memory is gone. *)

Crash ==
    /\ up /\ Spend("crash")
    /\ up' = FALSE /\ write' = NoWrite /\ chain' = <<>> /\ loop' = Nothing
    /\ ops' = [s \in Slot |-> Resting] /\ revision' = 0
    /\ files' = [n \in Name |-> [files[n] EXCEPT !.rev = 0]]
    /\ watch' = [watch EXCEPT !.event = FALSE, !.ready = FALSE]
    /\ UNCHANGED <<disk, page, receipts, edited>>

\* SmabarConfig::load: a missing file is created, a broken one refuses the start.
Restart ==
    /\ ~up /\ disk # Broken
    /\ disk' = IF disk = Absent THEN Pretty(Defaults) ELSE disk
    /\ watch' = Started(disk') /\ page' = UiState(disk'.value)
    /\ up' = TRUE /\ edited' = FALSE
    /\ UNCHANGED <<write, chain, loop, files, receipts, ops, revision, themeLeft>>

--------------------------------------------------------------------------------
CommandSteps(s) ==
    \/ \E name \in ThemeNames : SetTheme(s, name)
    \/ \E b \in Behaviour : Tune(s, "behaviour", b)
    \/ \E p \in Paint : Tune(s, "overrides", p)
    \/ \E name \in Name : Save(s, name) \/ Delete(s, name) \/ InstallTheme(s, name)
                            \/ Block(s, name)
    \/ \E name \in Name, doc \in Document : Import(s, name, doc)
    \/ \E doc \in Document : ImportFetched(s, doc)
    \/ Rollback(s) \/ Emit(s) \/ Unlink(s) \/ Restore(s) \/ DeletedAgain(s)
    \/ SaveReceipt(s) \/ SwitchToDefault(s)

ThemeNext ==
    \/ \E s \in Slot : CommandSteps(s)
    \/ \E name \in Name, doc \in Document : ThemeWrite(name, doc)
    \/ \E name \in Name : ThemeRemove(name)
    \/ CommitUpdate \/ FailUpdate \/ Edit \/ Settle \/ Reload \/ LoopTakes \/ LoopEmits
    \/ SweepReceipts \/ Crash \/ Restart

ThemeSpec == ThemeInit /\ [][ThemeNext]_themeVars

--------------------------------------------------------------------------------
(* Properties. *)

ThemeTypeOK ==
    /\ disk \in [value : Settings, form : {"pretty", "user"}] \cup {Broken, Absent}
    /\ watch \in [config : Settings, hash : [value : Settings, form : {"pretty", "user"}],
                  event : BOOLEAN, ready : BOOLEAN]
    /\ write = NoWrite \/ (write.by \in Slot /\ write.new \in Settings)
    /\ chain \in Seq([old : Settings, new : Settings])
    /\ page.theme \in ThemeNames /\ page.behaviour \in Behaviour
    /\ \A n \in Name : files[n].paint \in Paint \cup {"none"}
    /\ receipts \subseteq Name /\ DOMAIN ops = Slot /\ up \in BOOLEAN /\ revision \in Nat

\* When no file event waits and nothing is being written, smabar works with the settings
\* that are on disk (or the file is one it cannot read): no edit is lost to the suppression
\* of its own writes, to the debounce, or to a write that overlaps it
\* (config/watcher.rs:89, 279).
ConfigCatchesUp ==
    up /\ Unlocked /\ ~watch.event /\ ~watch.ready /\ Readable(disk) => watch.config = disk.value

\* Unless the user touched the file, config.json is at every moment complete and holds the
\* settings smabar works with or the ones it is just writing: a crash at any moment loses
\* nothing and never keeps the next start from reading it (config/model.rs:251).
DiskIsComplete ==
    ~edited => /\ Readable(disk)
               /\ disk.value = watch.config \/ (write # NoWrite /\ disk.value = write.new)

\* When the loop has heard every change, the page shows the theme, the overrides and the
\* behaviour that are set: each change starts where the one before it ended
\* (config/watcher.rs:217; commands/config.rs:306).
PageCatchesUp ==
    up /\ chain = <<>> /\ loop = Nothing =>
        /\ page.theme = watch.config.theme
        /\ page.overrides = watch.config.overrides
        /\ page.behaviour = watch.config.behaviour

\* When no command is under way, the active theme is one that exists, whatever activations,
\* deletions and failed saves overlapped (commands/themes.rs:232).
ActiveThemeExists ==
    up /\ (\A s \in Slot : ops[s] = Resting) => IsAvailable(watch.config.theme)

\* The deletion of a theme never moves the user off another one, and what it restores when
\* it fails is never a newer choice of his (commands/themes.rs:86, 210).
DeletionSparesOthers ==
    [][write # NoWrite /\ ops[write.by].kind = "delete" /\ watch'.config # watch.config =>
          \/ watch.config.theme = ops[write.by].name
          \/ watch.config = ops[write.by].memo.activated]_themeVars

\* When every command and the loop are done, the page is painted with the active theme as
\* its file now is (commands/themes.rs:279).  It is not: the loop reads the theme before it
\* emits, without the lock, and an import in between is painted over.
PaintedIsCurrent ==
    up /\ chain = <<>> /\ loop = Nothing /\ Unlocked /\ (\A s \in Slot : ops[s] = Resting) =>
        page.paint = Resolve(watch.config.theme)

\* The store never replaces a theme file that has no receipt (store/error.rs:107).  It does:
\* a theme saved while the store's file is fetched is overwritten.
StoreSparesLocalThemes ==
    [][\A s \in Slot : At(s, "fetch") /\ files'[ops[s].name] # files[ops[s].name]
                        /\ ops'[s] # ops[s] =>
           files[ops[s].name] = NoFile \/ ops[s].name \in receipts]_themeVars
================================================================================
