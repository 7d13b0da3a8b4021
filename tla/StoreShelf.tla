------------------------------- MODULE StoreShelf -------------------------------
(***************************************************************************)
(* What the Community Store offers and what it then accepts                *)
(* (smabar-core/src/store: view.rs, compat.rs, catalog.rs, mod.rs,         *)
(* install.rs, local.rs, themes.rs, receipts.rs, refresh.rs).              *)
(*                                                                         *)
(* One plugin and one theme of the catalog.  The page joins the catalog    *)
(* with the receipts, the folders and the settings; an install asks the    *)
(* catalog again and runs a guard of its own over the same facts.  Every   *)
(* operation is one step: how they interleave is in StoreInstall and       *)
(* StoreCatalog.  Saving the settings or the receipts may fail, and what   *)
(* the code had done before stays done.                                    *)
(***************************************************************************)
EXTENDS Naturals

CONSTANTS Release,       \* versions, in their order
          Content,       \* what a commit holds: its tree hash or file hash
          ShelfBudgets   \* bounds: what may happen, per kind of event

Item == {"plugin", "theme"}
ShelfEvents == {"publish", "block", "install", "zip", "remove", "drop", "edit", "link", "toggle",
                "fail", "load"}
ASSUME ShelfAssumption ==
    /\ Release \subseteq Nat \ {0} /\ 0 \notin Content
    /\ ShelfBudgets \subseteq [ShelfEvents -> Nat]

VARIABLES
    server,    \* the catalog the server has: items, blocklist, generated_at
    listing,   \* State.listing: the catalog that was fetched last
    bundled,   \* reserved_ids, is_bundled: the ids belong to smabar itself
    disk,      \* plugins/<id>/ and themes/<name>.json
    receipt,   \* store/installed.json
    off,       \* config.pluginsDeactivated holds the plugin
    active,    \* config.theme is the theme
    preview,   \* LocalPluginPreview: the archive and the folder the user confirmed
    page,      \* the entries the user looks at
    byUser,    \* history: the user switched the plugin off
    shown,     \* history: per item, what the page said its last install would bring
    shelfLeft  \* bounds: the events that may still happen

shelfVars == <<server, listing, bundled, disk, receipt, off, active, preview, page, byUser, shown, shelfLeft>>

--------------------------------------------------------------------------------
\* A folder or file: the commit it came from (0: the user's own), whether the user edited it
\* since, and whether it is a link to a folder elsewhere.
Own        == [content |-> 0, edited |-> TRUE, link |-> FALSE]
Missing    == [content |-> 0, edited |-> FALSE, link |-> FALSE]
NoReceipt  == [at |-> 0, content |-> 0, blocked |-> 0, byStore |-> FALSE]
NoPreview  == [at |-> 0, content |-> 0, over |-> Missing]
AnyVersion == 0
SpendShelf(event) == shelfLeft[event] > 0 /\ shelfLeft' = [shelfLeft EXCEPT ![event] = @ - 1]
\* How a write of the settings or of the receipts may end.
Outcome == IF shelfLeft["fail"] > 0 THEN BOOLEAN ELSE {TRUE}

\* fits: requires.os and requires.smabar hold on this machine.
Entries == [at : Release, content : Content, fits : BOOLEAN]
Oldest  == CHOOSE r \in Release : \A s \in Release : r <= s

Exists(item)    == disk[item] # Missing
Received(item)  == receipt[item] # NoReceipt
\* is_plugin_modified: the folder is not what the receipt says was installed.
Modified(item)  == Exists(item) /\ (disk[item].edited \/ disk[item].content # receipt[item].content)
\* block_entry: an entry without a version blocks all of them.
Block(list, item, at) == <<item, at>> \in list.blocks \/ <<item, AnyVersion>> \in list.blocks

\* Every start is with the cached catalog.
ShelfInit ==
    /\ \E c \in Content : server = [items |-> [i \in Item |-> [at |-> Oldest, content |-> c, fits |-> TRUE]],
                                    blocks |-> {}, gen |-> 1]
    /\ listing = server /\ bundled \in BOOLEAN
    /\ disk = [i \in Item |-> IF bundled /\ i = "plugin" THEN Own ELSE Missing]
    /\ receipt = [i \in Item |-> NoReceipt]
    /\ off = FALSE /\ active = FALSE /\ preview = NoPreview /\ byUser = FALSE
    /\ page = [i \in Item |-> [at |-> 0, content |-> 0, installable |-> FALSE]]
    /\ shown = [i \in Item |-> 0]
    /\ shelfLeft \in ShelfBudgets

--------------------------------------------------------------------------------
(* The page: overview, view_entry, update_view. *)

\* The scan of overview: is_dir of the directory entry itself, so a link to a folder is none.
Present(item) == Exists(item) /\ ~disk[item].link

\* update_view: a newer version, or other content under the same one.
UpdateView(item, entry) ==
    \/ entry.at > receipt[item].at
    \/ entry.at = receipt[item].at /\ entry.content # receipt[item].content

\* MUTANT: the store's blocklist is left to the guard.
Incompatible_Unblocked(list, item) ==
    (IF item = "plugin" /\ ~list.items[item].fits THEN {"requires"} ELSE {})
    \cup (IF bundled THEN {"bundled"} ELSE {})
    \cup (IF Present(item) /\ ~Received(item) THEN {"user"} ELSE {})
Incompatible(list, item) ==
    (IF item = "plugin" /\ ~list.items[item].fits THEN {"requires"} ELSE {})
    \cup (IF bundled THEN {"bundled"} ELSE {})
    \cup (IF Present(item) /\ ~Received(item) THEN {"user"} ELSE {})
    \cup (IF Block(list, item, list.items[item].at) THEN {"blocked"} ELSE {})

ViewEntry(list, item) ==
    [at |-> list.items[item].at, content |-> list.items[item].content,
     installable |-> /\ Incompatible(list, item) = {}
                     /\ Present(item) => Received(item) /\ UpdateView(item, list.items[item])]

Look ==
    /\ SpendShelf("load")
    /\ page' = [i \in Item |-> ViewEntry(listing, i)]
    /\ UNCHANGED <<server, listing, bundled, disk, receipt, off, active, preview, byUser, shown>>

--------------------------------------------------------------------------------
(* The catalog: refresh, reconcile_blocklist, sweep_orphan_receipts. *)

Publish ==
    /\ SpendShelf("publish")
    /\ \E i \in Item, e \in Entries :
         /\ e # server.items[i] /\ (i = "theme" => e.fits)
         /\ server' = [server EXCEPT !.items[i] = e, !.gen = @ + 1]
    /\ UNCHANGED <<listing, bundled, disk, receipt, off, active, preview, page, byUser, shown>>

PublishBlocks ==
    /\ SpendShelf("block")
    /\ \E i \in Item, v \in Release \cup {AnyVersion} :
         server' = [server EXCEPT !.gen = @ + 1,
                    !.blocks = IF <<i, v>> \in @ THEN @ \ {<<i, v>>} ELSE @ \cup {<<i, v>>}]
    /\ UNCHANGED <<listing, bundled, disk, receipt, off, active, preview, page, byUser, shown>>

Blocked(list, item) == Received(item) /\ Block(list, item, receipt[item].at)
\* Only a newer catalog lifts a block.
Lifted(list, item)  == /\ Received(item) /\ ~Block(list, item, receipt[item].at)
                       /\ receipt[item].blocked \in 1 .. list.gen - 1

\* A block switches the plugin off; when it is lifted the plugin comes back if it was the
\* store that switched it off.  The receipt forgets that even if the switch fails.
Reconciled(list, switched) ==
    [i \in Item |->
        IF Blocked(list, i)
        THEN [receipt[i] EXCEPT !.blocked = list.gen, !.byStore = @ \/ (i = "plugin" /\ ~off /\ switched)]
        ELSE IF Lifted(list, i) THEN [receipt[i] EXCEPT !.blocked = 0, !.byStore = FALSE]
        ELSE receipt[i]]
OffAfter(list, switched) ==
    IF ~switched THEN off
    ELSE IF Blocked(list, "plugin") THEN TRUE
    ELSE IF Lifted(list, "plugin") /\ receipt["plugin"].byStore THEN FALSE ELSE off

\* Receipts of what is gone from the disk are dropped; not the plugin's while an install runs.
Swept(receipts, installing) ==
    [i \in Item |-> IF Exists(i) \/ (i = "plugin" /\ installing) THEN receipts[i] ELSE NoReceipt]

\* The receipts after the refresh, if they could be saved.
Kept(list, installing, switched, saved) ==
    IF saved THEN Swept(Reconciled(list, switched), installing) ELSE receipt

\* What a refresh changes besides the receipts.
Refreshed(switched) ==
    /\ listing' = server
    /\ off' = OffAfter(server, switched) /\ byUser' = (byUser /\ off')
    /\ active' = (active /\ ~(switched /\ Blocked(server, "theme")))

\* A refresh that cannot reach the server leaves everything as it is.
Refresh ==
    \E switched, saved \in Outcome :
        /\ Refreshed(switched) /\ receipt' = Kept(server, FALSE, switched, saved)
        /\ UNCHANGED <<server, bundled, disk, preview, page, shown, shelfLeft>>

--------------------------------------------------------------------------------
(* Installs from the catalog. *)

GuardPlugin(list, confirm) ==
    /\ ~bundled /\ ~Block(list, "plugin", list.items["plugin"].at)
    /\ list.items["plugin"].fits
    /\ Exists("plugin") => Received("plugin")
    /\ Received("plugin") /\ Modified("plugin") => confirm

GuardTheme(list) ==
    /\ ~bundled /\ ~Block(list, "theme", list.items["theme"].at)
    /\ Exists("theme") => Received("theme") /\ UpdateView("theme", list.items["theme"])

Fetched(entry) == [content |-> entry.content, edited |-> FALSE, link |-> FALSE]
\* deactivated_by_store outlives the update, blocked does not.
NewReceipt(entry, byStore) == [at |-> entry.at, content |-> entry.content, blocked |-> 0, byStore |-> byStore]

\* require_fresh: an install refreshes the catalog first and stops if it cannot.
Unreachable ==
    /\ FALSE \in Outcome
    /\ UNCHANGED <<listing, disk, receipt, off, active, byUser, shown>>

\* An install that is refused, or whose download or check fails, leaves what the refresh left.
Refuse(switched, saved) ==
    receipt' = Kept(server, TRUE, switched, saved) /\ UNCHANGED <<disk, shown>>

\* The version must be the one the page showed.
Accepted(item, guard) == server.items[item].at = page[item].at /\ guard

InstallPlugin(confirm) ==
    /\ SpendShelf("install") /\ page["plugin"].installable
    /\ \/ Unreachable
       \/ \E switched, saved \in Outcome :
            LET kept == Kept(server, TRUE, switched, saved)
            IN  /\ Refreshed(switched)
                /\ \/ /\ Accepted("plugin", GuardPlugin(server, confirm))
                      /\ disk' = [disk EXCEPT !["plugin"] = Fetched(server.items["plugin"])]
                      /\ receipt' = [kept EXCEPT !["plugin"] = NewReceipt(server.items["plugin"], @.byStore)]
                      /\ shown' = [shown EXCEPT !["plugin"] = page["plugin"].content]
                   \/ /\ ~Accepted("plugin", GuardPlugin(server, confirm)) \/ FALSE \in Outcome
                      /\ Refuse(switched, saved)
                   \* A version that does not start is replaced by the one before, or removed.
                   \/ /\ Accepted("plugin", GuardPlugin(server, confirm)) /\ FALSE \in Outcome /\ ~off'
                      /\ receipt' = IF Exists("plugin") THEN kept ELSE [kept EXCEPT !["plugin"] = NoReceipt]
                      /\ UNCHANGED <<disk, shown>>
    /\ UNCHANGED <<server, bundled, preview, page>>

\* The file is written before its receipt.
InstallTheme ==
    /\ SpendShelf("install") /\ page["theme"].installable
    /\ \/ Unreachable
       \/ \E switched, saved, recorded \in Outcome :
            LET kept == Kept(server, TRUE, switched, saved)
            IN  /\ Refreshed(switched)
                /\ \/ /\ Accepted("theme", GuardTheme(server))
                      /\ disk' = [disk EXCEPT !["theme"] = Fetched(server.items["theme"])]
                      /\ receipt' = IF recorded
                                    THEN [kept EXCEPT !["theme"] = NewReceipt(server.items["theme"], FALSE)]
                                    ELSE kept
                      /\ shown' = [shown EXCEPT !["theme"] = page["theme"].content]
                   \/ /\ ~Accepted("theme", GuardTheme(server)) \/ FALSE \in Outcome
                      /\ Refuse(switched, saved)
    /\ UNCHANGED <<server, bundled, preview, page>>

--------------------------------------------------------------------------------
(* A plugin from a local archive: inspect_local_plugin, install_local_plugin. *)

\* local_preview: neither a bundled id nor a blocked version, and a folder, not a link.  Only
\* archives that fit this machine are modelled; it refuses the others before it looks further.
Importable(at) == ~bundled /\ ~Block(listing, "plugin", at) /\ ~disk["plugin"].link

Inspect ==
    /\ SpendShelf("zip")
    /\ \E v \in Release, c \in Content :
         /\ Importable(v)
         /\ preview' = [at |-> v, content |-> c, over |-> disk["plugin"]]
    /\ UNCHANGED <<server, listing, bundled, disk, receipt, off, active, page, byUser, shown>>

\* The archive and the folder are read again: both must be what was confirmed.  The import is
\* the user's own, without a receipt; the deactivation stays as it is.
ImportZip ==
    /\ preview # NoPreview /\ Importable(preview.at) /\ preview.over = disk["plugin"]
    /\ \/ /\ disk' = [disk EXCEPT !["plugin"] = Fetched(preview)]
          /\ receipt' = [receipt EXCEPT !["plugin"] = NoReceipt]
          /\ shown' = [shown EXCEPT !["plugin"] = 0]
       \/ /\ FALSE \in Outcome /\ ~off
          /\ receipt' = IF Exists("plugin") THEN receipt ELSE [receipt EXCEPT !["plugin"] = NoReceipt]
          /\ UNCHANGED <<disk, shown>>
    /\ preview' = NoPreview
    /\ UNCHANGED <<server, listing, bundled, off, active, page, byUser, shelfLeft>>

--------------------------------------------------------------------------------
(* Removal, and what the user does by hand. *)

\* remove_plugin: the folder, the deactivation, the receipt, each as far as it can be written.
RemovePlugin ==
    /\ SpendShelf("remove") /\ Exists("plugin")
    /\ disk' = [disk EXCEPT !["plugin"] = Missing]
    /\ \E cleared, saved \in Outcome :
         /\ off' = (off /\ ~cleared) /\ byUser' = (byUser /\ off')
         /\ receipt' = IF saved THEN [receipt EXCEPT !["plugin"] = NoReceipt] ELSE receipt
    /\ UNCHANGED <<server, listing, bundled, active, preview, page, shown>>

\* delete_theme: an active theme is left first, or the deletion is refused.
RemoveTheme ==
    /\ SpendShelf("remove") /\ Exists("theme") /\ ~bundled
    /\ disk' = [disk EXCEPT !["theme"] = Missing]
    /\ active' = FALSE
    /\ \E saved \in Outcome :
         receipt' = IF saved THEN [receipt EXCEPT !["theme"] = NoReceipt] ELSE receipt
    /\ UNCHANGED <<server, listing, bundled, off, preview, page, byUser, shown>>

DropByHand(item) ==
    /\ SpendShelf("drop") /\ Exists(item)
    /\ disk' = [disk EXCEPT ![item] = Missing]
    /\ UNCHANGED <<server, listing, bundled, receipt, off, active, preview, page, byUser, shown>>

\* The user edits what is there, or puts something of his own there.
EditByHand(item) ==
    /\ SpendShelf("edit") /\ ~disk[item].link
    /\ disk' = [disk EXCEPT ![item] = [@ EXCEPT !.edited = TRUE]]
    /\ shown' = [shown EXCEPT ![item] = 0]
    /\ UNCHANGED <<server, listing, bundled, receipt, off, active, preview, page, byUser>>

\* A developer links the plugin's folder to a working copy.
LinkFolder ==
    /\ SpendShelf("link") /\ ~Exists("plugin")
    /\ disk' = [disk EXCEPT !["plugin"] = [Own EXCEPT !.link = TRUE]]
    /\ UNCHANGED <<server, listing, bundled, receipt, off, active, preview, page, byUser, shown>>

\* set_plugin_active by the user or an agent: only the deactivation changes.
Toggle ==
    /\ SpendShelf("toggle") /\ Exists("plugin")
    /\ off' = ~off /\ byUser' = ~off
    /\ UNCHANGED <<server, listing, bundled, disk, receipt, active, preview, page, shown>>

Activate ==
    /\ SpendShelf("toggle") /\ Exists("theme") /\ ~active
    /\ active' = TRUE
    /\ UNCHANGED <<server, listing, bundled, disk, receipt, off, preview, page, byUser, shown>>

--------------------------------------------------------------------------------
ShelfNext ==
    \/ Look \/ Publish \/ PublishBlocks \/ Refresh
    \/ \E confirm \in BOOLEAN : InstallPlugin(confirm)
    \/ InstallTheme \/ Inspect \/ ImportZip \/ RemovePlugin \/ RemoveTheme
    \/ LinkFolder \/ Toggle \/ Activate
    \/ \E i \in Item : DropByHand(i) \/ EditByHand(i)

ShelfSpec == ShelfInit /\ [][ShelfNext]_shelfVars

--------------------------------------------------------------------------------
ShelfTypeOK ==
    /\ \A i \in Item : disk[i].content \in Content \cup {0} /\ receipt[i].blocked \in 0 .. listing.gen
    /\ {off, active, byUser, bundled} \subseteq BOOLEAN
    /\ listing.gen <= server.gen

\* What the page offers is not refused: the page and the guards of the two installs judge
\* the catalog, the receipts and the folders alike, in every state a sequence of installs,
\* imports, removals, blocks, failed writes and edits by hand can reach (view.rs:263,
\* install.rs:241, themes.rs:135).
OfferedIsAccepted ==
    /\ ViewEntry(listing, "plugin").installable /\ ~disk["plugin"].link => GuardPlugin(listing, TRUE)
    /\ ViewEntry(listing, "theme").installable => GuardTheme(listing)

\* A folder that is a link is missed by the page and found by the guard: what the page
\* offers is refused as the user's own plugin.
PageKnowsLinks == ViewEntry(listing, "plugin").installable => GuardPlugin(listing, TRUE)

\* A plugin is off because the user switched it off, or because the store did and still
\* remembers to undo it (remove.rs:220, receipts.rs:70).  An import over a blocked version
\* forgets who switched it off, as does a receipt that is swept.
OffIsExplained == (Exists("plugin") /\ off /\ ~byUser) => receipt["plugin"].byStore

\* What the store switched off it switches on again as soon as the installed version is no
\* longer blocked.  An update to a version that is not blocked drops the mark of the block
\* but not the deactivation, and no later catalog lifts a block that is not marked.
StoreLetsGo ==
    (listing = server /\ Exists("plugin") /\ off /\ ~byUser) => receipt["plugin"].blocked # 0

\* An install brings the commit the page showed.  It compares the version only: a commit
\* that changed under the same version is installed unseen (mod.rs:240: "a listing that moved
\* since is refused").
ShownIsInstalled == \A i \in Item : shown[i] # 0 => disk[i].content \in {0, shown[i]}
================================================================================
