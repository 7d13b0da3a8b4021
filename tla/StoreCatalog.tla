------------------------------ MODULE StoreCatalog ------------------------------
(***************************************************************************)
(* The signed catalog of the Community Store (store/refresh.rs, mod.rs,    *)
(* catalog.rs), what the settings show of it (view.rs) and what it does to *)
(* an installed plugin: a blocked version is switched off, an install      *)
(* insists on a fresh catalog (install.rs).                                *)
(*                                                                         *)
(* Refreshes take turns; the server publishes between any two requests of  *)
(* one, the user switches the plugin while the blocklist is applied, and   *)
(* the app may die between any two files it writes.  Folders and the       *)
(* transaction of an install are StoreInstall's.                           *)
(***************************************************************************)
EXTENDS Naturals, Sequences

CONSTANTS Version,         \* versions of the plugin; a later one is greater
          Fits,            \* those that run on this system and this app
          Refresher,       \* who refreshes: the timer, the page, an install
          CatalogBudgets   \* bounds: what may happen, per kind of event

CatalogEvents == {"publish", "replay", "refresh", "install", "toggle", "offline", "unlabeled",
                  "unsaved", "crash"}
ASSUME CatalogAssumption ==
    Version \subseteq Nat \ {0} /\ Fits \subseteq Version /\ "install" \in Refresher /\ "nobody" \notin Refresher
    /\ CatalogBudgets \subseteq [CatalogEvents -> Nat]

VARIABLES
    published,   \* every catalog the server ever served; its place is its generatedAt
    server,      \* the one it serves now
    catalog,     \* StoreState: listing, etag, catalog state
    cached,      \* the three cache files
    refreshes,   \* refreshes under way
    refreshLock, \* refresh_lock: who holds it
    receipt,     \* the plugin's receipt
    off,         \* the config lists the plugin as deactivated
    install,     \* the install under way
    answered,    \* history: the catalog of the last answer of the server
    applied,     \* history: the catalog applied to what is installed and not to be applied again
    chosenOff,   \* history: the user was the last to switch the plugin off
    catalogLeft  \* bounds: the events that may still happen

catalogVars == <<published, server, catalog, cached, refreshes, refreshLock, receipt, off,
                 install, answered, applied, chosenOff, catalogLeft>>

--------------------------------------------------------------------------------
Nobody     == "nobody"
NoCatalog  == 0
NoInstall  == [step |-> "none"]
Unreceived == [version |-> 0]
IdleRefresh == [step |-> "none"]
SpendCatalog(event) == catalogLeft[event] > 0 /\ catalogLeft' = [catalogLeft EXCEPT ![event] = @ - 1]

Listed(gen)      == published[gen].listed
\* block_entry: a block names one version of a plugin or all of them
Blocks(gen, v)   == v \in published[gen].blocked
HasPlugin        == receipt.version # 0

\* guard: what an install refuses, whatever was shown
GuardRefuses(gen, expected) ==
    Listed(gen) # expected \/ Blocks(gen, Listed(gen)) \/ Listed(gen) \notin Fits

CatalogInit ==
    /\ \E first \in {[listed |-> v, blocked |-> {}] : v \in Version} :
          published = <<first>>
    /\ server = 1
    /\ \E known \in BOOLEAN :
          /\ catalog = [gen |-> IF known THEN 1 ELSE NoCatalog, etag |-> IF known THEN 1 ELSE NoCatalog,
                        state |-> IF known THEN "stale" ELSE "unavailable"]
          /\ cached = [body |-> catalog.gen, signature |-> catalog.gen, etag |-> catalog.etag]
    /\ refreshes = [r \in Refresher |-> IdleRefresh] /\ refreshLock = Nobody
    /\ receipt \in {Unreceived} \cup {[version |-> v, blocked |-> NoCatalog, byStore |-> FALSE] : v \in Version}
    /\ off \in (IF receipt = Unreceived THEN {FALSE} ELSE BOOLEAN)
    /\ chosenOff = off
    /\ install = NoInstall /\ answered = NoCatalog /\ applied = NoCatalog
    /\ catalogLeft \in CatalogBudgets

--------------------------------------------------------------------------------
(* The server and the user. *)

Publish ==
    /\ SpendCatalog("publish")
    /\ \E v \in {v \in Version : v >= Listed(Len(published))}, blocked \in SUBSET Version :
          /\ [listed |-> v, blocked |-> blocked] # published[server]
          /\ published' = Append(published, [listed |-> v, blocked |-> blocked])
    /\ server' = Len(published) + 1
    /\ UNCHANGED <<catalog, cached, refreshes, refreshLock, receipt, off, install, answered,
                   applied, chosenOff>>

\* A mirror answers with an older catalog, correctly signed.
ServeOlder ==
    /\ SpendCatalog("replay")
    /\ server' \in 1 .. Len(published) /\ server' # server
    /\ UNCHANGED <<published, catalog, cached, refreshes, refreshLock, receipt, off, install,
                   answered, applied, chosenOff>>

\* set_plugin_active by the user
Toggle ==
    /\ SpendCatalog("toggle") /\ HasPlugin
    /\ off' = ~off /\ chosenOff' = ~off
    /\ applied' = NoCatalog
    /\ UNCHANGED <<published, server, catalog, cached, refreshes, refreshLock, receipt, install,
                   answered>>

--------------------------------------------------------------------------------
(* refresh, fetch_catalog *)

AtRefresh(r, step)  == refreshes[r].step = step
Refreshing(r, task) == refreshes' = [refreshes EXCEPT ![r] = task]
OutsideRefresh == UNCHANGED <<published, server, install>>

\* The timer and the page ask for a refresh; an install does through require_fresh.
AskRefresh(r) ==
    /\ r # "install" /\ AtRefresh(r, "none") /\ SpendCatalog("refresh")
    /\ Refreshing(r, [step |-> "queued"])
    /\ OutsideRefresh
    /\ UNCHANGED <<catalog, cached, refreshLock, receipt, off, answered, applied, chosenOff>>

TakeTurn(r) ==
    /\ AtRefresh(r, "queued") /\ refreshLock = Nobody
    /\ refreshLock' = r
    /\ Refreshing(r, [step |-> "get", etag |-> catalog.etag])
    /\ OutsideRefresh
    /\ UNCHANGED <<catalog, cached, receipt, off, answered, applied, chosenOff, catalogLeft>>

\* A refresh that failed keeps the catalog it has and says so.
FailRefresh(r) ==
    /\ refreshes[r].step \in {"get", "signature"} /\ SpendCatalog("offline")
    /\ catalog' = [catalog EXCEPT !.state = IF catalog.gen = NoCatalog THEN "unavailable" ELSE "stale"]
    /\ Refreshing(r, [step |-> "done"])
    /\ OutsideRefresh
    /\ UNCHANGED <<cached, refreshLock, receipt, off, answered, applied, chosenOff>>

MarkFresh(gen, etag) ==
    catalog' = [gen |-> gen, state |-> "fresh", etag |-> IF etag = NoCatalog THEN catalog.etag ELSE etag]

\* The conditional request.  304 and an unchanged body confirm what is there.
GetCatalog(r) ==
    /\ AtRefresh(r, "get")
    /\ answered' = server
    /\ \E label \in {server} \cup (IF catalogLeft["unlabeled"] > 0 THEN {NoCatalog} ELSE {}) :
          /\ IF label = NoCatalog THEN SpendCatalog("unlabeled") ELSE UNCHANGED catalogLeft
          /\ IF refreshes[r].etag = server
             THEN MarkFresh(catalog.gen, NoCatalog) /\ Refreshing(r, [step |-> "blocklist"])
             ELSE IF catalog.gen = server
             THEN MarkFresh(catalog.gen, label) /\ Refreshing(r, [step |-> "blocklist"])
             ELSE /\ Refreshing(r, [step |-> "signature", body |-> server, etag |-> label])
                  /\ UNCHANGED catalog
    /\ OutsideRefresh
    /\ UNCHANGED <<cached, refreshLock, receipt, off, applied, chosenOff>>

\* A signature is good for the very catalog it was made for, and for no other the store made.
Verifies(body, signature) == body = signature

\* verify_and_parse: the signature is that of the catalog the server has by now.
GetSignature(r) ==
    /\ AtRefresh(r, "signature")
    /\ IF Verifies(refreshes[r].body, server)
       THEN Refreshing(r, [refreshes[r] EXCEPT !.step = "body"]) /\ UNCHANGED catalog
       ELSE /\ catalog' = [catalog EXCEPT !.state = IF catalog.gen = NoCatalog THEN "unavailable" ELSE "stale"]
            /\ Refreshing(r, [step |-> "done"])
    /\ OutsideRefresh
    /\ UNCHANGED <<cached, refreshLock, receipt, off, answered, applied, chosenOff, catalogLeft>>

\* persist_cache: body, signature, etag
FileAfter(step) == [body |-> "bodyfile", bodyfile |-> "signed", signed |-> "etag", etag |-> "adopt"][step]
WriteCacheFile(r) ==
    /\ refreshes[r].step \in {"body", "bodyfile", "signed", "etag"}
    /\ LET next == FileAfter(refreshes[r].step)
       IN /\ Refreshing(r, [refreshes[r] EXCEPT !.step = next])
          /\ cached' = CASE next = "bodyfile" -> [cached EXCEPT !.body = refreshes[r].body]
                         [] next = "signed"   -> [cached EXCEPT !.signature = refreshes[r].body]
                         [] next = "etag"     -> [cached EXCEPT !.etag = refreshes[r].etag]
                         [] OTHER             -> cached
    /\ OutsideRefresh
    /\ UNCHANGED <<catalog, refreshLock, receipt, off, answered, applied, chosenOff, catalogLeft>>

\* A file that cannot be written ends the caching, not the refresh.
WriteFails(r) ==
    /\ refreshes[r].step \in {"body", "bodyfile", "signed"} /\ SpendCatalog("unsaved")
    /\ Refreshing(r, [refreshes[r] EXCEPT !.step = "adopt"])
    /\ OutsideRefresh
    /\ UNCHANGED <<catalog, cached, refreshLock, receipt, off, answered, applied, chosenOff>>

Adopt(r) ==
    /\ AtRefresh(r, "adopt")
    /\ MarkFresh(refreshes[r].body, refreshes[r].etag)
    /\ Refreshing(r, [step |-> "blocklist"])
    /\ OutsideRefresh
    /\ UNCHANGED <<cached, refreshLock, receipt, off, answered, applied, chosenOff, catalogLeft>>

--------------------------------------------------------------------------------
(* reconcile_blocklist, under the lock of the receipts *)

ReceiptsFree == \A r \in Refresher : refreshes[r].step \notin {"switch", "save"}

ReadReceipts(r) ==
    /\ AtRefresh(r, "blocklist") /\ ReceiptsFree
    /\ Refreshing(r, [step |-> "switch", receipt |-> receipt, off |-> off])
    /\ applied' = catalog.gen
    /\ OutsideRefresh
    /\ UNCHANGED <<catalog, cached, refreshLock, receipt, off, answered, chosenOff, catalogLeft>>

Lifted(old) == [receipt |-> [old EXCEPT !.blocked = NoCatalog, !.byStore = FALSE],
                off     |-> IF old.byStore THEN FALSE ELSE off]
LiftsBlock(old) == /\ old # Unreceived /\ old.blocked # NoCatalog /\ catalog.gen > old.blocked
                   /\ ~Blocks(catalog.gen, old.version)
\* MUTANT: a block that the receipt shows is not applied again.
Blocking_Once(old, wasOff) ==
    [receipt |-> [old EXCEPT !.blocked = catalog.gen, !.byStore = @ \/ ~wasOff],
     off     |-> off \/ (~wasOff /\ old.blocked = NoCatalog)]
Blocking(old, wasOff) ==
    [receipt |-> [old EXCEPT !.blocked = catalog.gen, !.byStore = @ \/ ~wasOff],
     off     |-> off \/ ~wasOff]

\* The config is written first, the receipts after it.
Switch(r) ==
    LET old     == refreshes[r].receipt
        outcome == IF old = Unreceived THEN [receipt |-> old, off |-> off]
                   ELSE IF Blocks(catalog.gen, old.version) THEN Blocking(old, refreshes[r].off)
                   ELSE IF LiftsBlock(old) THEN Lifted(old)
                   ELSE [receipt |-> old, off |-> off]
    IN /\ AtRefresh(r, "switch")
       /\ off' = outcome.off
       /\ Refreshing(r, [step |-> "save", receipt |-> outcome.receipt])
       /\ OutsideRefresh
       /\ UNCHANGED <<catalog, cached, refreshLock, receipt, answered, applied, chosenOff, catalogLeft>>

\* A config that cannot be written leaves the plugin as it is.
SwitchFails(r) ==
    LET old == refreshes[r].receipt
    IN /\ AtRefresh(r, "switch") /\ SpendCatalog("unsaved")
       /\ \/ /\ old # Unreceived /\ Blocks(catalog.gen, old.version) /\ ~refreshes[r].off
             /\ Refreshing(r, [step |-> "save", receipt |-> [old EXCEPT !.blocked = catalog.gen]])
          \/ /\ LiftsBlock(old) /\ old.byStore
             /\ Refreshing(r, [step |-> "save", receipt |-> Lifted(old).receipt])
       /\ applied' = NoCatalog
       /\ OutsideRefresh
       /\ UNCHANGED <<catalog, cached, refreshLock, receipt, off, answered, chosenOff>>

SaveReceipts(r) ==
    /\ AtRefresh(r, "save")
    /\ \/ receipt' = refreshes[r].receipt /\ UNCHANGED catalogLeft
       \/ SpendCatalog("unsaved") /\ UNCHANGED receipt
    /\ Refreshing(r, [step |-> "done"])
    /\ OutsideRefresh
    /\ UNCHANGED <<catalog, cached, refreshLock, off, answered, applied, chosenOff>>

EndRefresh(r) ==
    /\ AtRefresh(r, "done")
    /\ refreshLock' = Nobody
    /\ Refreshing(r, IdleRefresh)
    /\ install' = IF r # "install" THEN install
                  ELSE IF catalog.state = "fresh" THEN [install EXCEPT !.step = "guard"] ELSE NoInstall
    /\ UNCHANGED <<published, server, catalog, cached, receipt, off, answered, applied, chosenOff,
                   catalogLeft>>

--------------------------------------------------------------------------------
(* An install or update, as far as the catalog is concerned. *)

\* require_fresh
StartInstall ==
    /\ install = NoInstall /\ AtRefresh("install", "none") /\ SpendCatalog("install")
    /\ \E v \in Version : install' = [step |-> "refresh", expected |-> v]
    /\ Refreshing("install", [step |-> "queued"])
    /\ UNCHANGED <<published, server, catalog, cached, refreshLock, receipt, off, answered,
                   applied, chosenOff>>

\* The entry and the receipt that is replaced are read now and used until the end.
Guard ==
    /\ install.step = "guard"
    /\ install' = IF GuardRefuses(catalog.gen, install.expected) THEN NoInstall
                  ELSE [step |-> "stage", gen |-> catalog.gen, version |-> Listed(catalog.gen),
                        byStore |-> HasPlugin /\ receipt.byStore]
    /\ UNCHANGED <<published, server, catalog, cached, refreshes, refreshLock, receipt, off,
                   answered, applied, chosenOff, catalogLeft>>

\* write_receipt, once the folder is swapped
FinishInstall ==
    /\ install.step = "stage" /\ ReceiptsFree
    /\ receipt' = [version |-> install.version, blocked |-> NoCatalog, byStore |-> install.byStore]
    /\ applied' = IF applied = install.gen THEN applied ELSE NoCatalog
    /\ install' = NoInstall
    /\ UNCHANGED <<published, server, catalog, cached, refreshes, refreshLock, off, answered,
                   chosenOff, catalogLeft>>

--------------------------------------------------------------------------------
\* load_cached: what verifies is shown as stale, anything else is deleted.
Reboot ==
    /\ SpendCatalog("crash")
    /\ LET good == cached.body # NoCatalog /\ Verifies(cached.body, cached.signature)
       IN /\ catalog' = IF good THEN [gen |-> cached.body, etag |-> cached.etag, state |-> "stale"]
                        ELSE [gen |-> NoCatalog, etag |-> NoCatalog, state |-> "unavailable"]
          /\ cached' = IF good THEN cached ELSE [body |-> NoCatalog, signature |-> NoCatalog, etag |-> NoCatalog]
    /\ refreshes' = [r \in Refresher |-> IdleRefresh] /\ refreshLock' = Nobody
    /\ install' = NoInstall /\ answered' = NoCatalog /\ applied' = NoCatalog
    /\ UNCHANGED <<published, server, receipt, off, chosenOff>>

--------------------------------------------------------------------------------
CatalogNext ==
    \/ Publish \/ ServeOlder \/ Toggle \/ StartInstall \/ Guard \/ FinishInstall \/ Reboot
    \/ \E r \in Refresher :
          \/ AskRefresh(r) \/ TakeTurn(r) \/ FailRefresh(r) \/ GetCatalog(r) \/ GetSignature(r)
          \/ WriteCacheFile(r) \/ WriteFails(r) \/ Adopt(r)
          \/ ReadReceipts(r) \/ Switch(r) \/ SwitchFails(r) \/ SaveReceipts(r) \/ EndRefresh(r)

CatalogSpec == CatalogInit /\ [][CatalogNext]_catalogVars

--------------------------------------------------------------------------------
CatalogTypeOK ==
    /\ server \in 1 .. Len(published)
    /\ catalog.gen \in 0 .. Len(published) /\ catalog.etag \in 0 .. Len(published)
    /\ catalog.state \in {"fresh", "stale", "unavailable"}
    /\ refreshLock \in Refresher \cup {Nobody}
    /\ receipt = Unreceived \/ receipt.version \in Version
    /\ off \in BOOLEAN /\ chosenOff \in BOOLEAN

\* A catalog that is called fresh is never older than the one the server gave in its last
\* answer, whatever was cached and however often the app died between two of the files it
\* writes (persist_cache, load_cached, mark_fresh).
FreshIsServed ==
    (catalog.state = "fresh" /\ refreshLock = Nobody) => catalog.gen >= answered

\* While the store has applied a catalog that blocks the installed version, and neither the
\* user nor an install touched the plugin since, the plugin is switched off
\* (reconcile_blocklist: "a blocked version is switched off").
BlockedIsOff ==
    (applied # NoCatalog /\ ReceiptsFree /\ HasPlugin /\ Blocks(applied, receipt.version)) => off

\* A plugin that the user was the last to switch off stays off (receipts.rs:70: "A user's
\* own deactivation is never undone").
UserChoiceStands == chosenOff => off
================================================================================
