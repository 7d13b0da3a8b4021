--------------------------------- MODULE MCDisk ---------------------------------
(***************************************************************************)
(* Bounds of the model checking run of what the app keeps on the disk and  *)
(* starts from it:                                                         *)
(* installs and their recovery, archives on their way into the staging     *)
(* folder, the plugins that come with the app, fonts, theme files, and the *)
(* processes of plugins.                                                   *)
(* The modules share no state: moves says which one a behaviour explores,  *)
(* and the others stay in an initial state.                                *)
(***************************************************************************)
EXTENDS StoreInstall, StoreFetch, BundledSeed, FontCache, ThemeLook, PluginProcess

CONSTANTS p1, p2, s1, s2, l1,
          DiskMovers   \* which of them the run explores
ASSUME DiskMoverAssumption == DiskMovers \subseteq {"install", "fetch", "seed", "fonts", "look", "procs"}

VARIABLE moves

--------------------------------------------------------------------------------
\* Entries of an archive: a folder of the plugin's, a file beside it, and what is wrong.
FileAt(path, body) ==
    [path |-> path, kind |-> "file", body |-> body, exec |-> FALSE, size |-> 1, honest |-> TRUE]
InPlugin(path, body) == FileAt(<<"repo", "plugin">> \o path, body)
Manifest == InPlugin(<<"smabar.json">>, "m")
Code     == [InPlugin(<<"lib", "run">>, "c") EXCEPT !.exec = TRUE, !.size = 2]
Readme   == FileAt(<<"repo", "Readme">>, "r")
PathOfPlugin == <<"plugin">>
GoodTree == {[at |-> <<"smabar.json">>, body |-> "m", exec |-> FALSE],
             [at |-> <<"lib", "run">>, body |-> "c", exec |-> TRUE]}
InAnyOrder(set) ==
    {s \in [1..Cardinality(set) -> set] : \A i, j \in DOMAIN s : s[i] = s[j] => i = j}
\* The listed tree in any order; other contents, modes and names; each limit passed by one;
\* ZIP files of the user's.
Served ==
    InAnyOrder({Manifest, Code, Readme}) \cup
    {<<[FileAt(<<"repo", "plugin">>, "") EXCEPT !.kind = "dir"], Manifest, Code>>,
     <<Manifest, [Code EXCEPT !.body = "x"]>>, <<Manifest, [Code EXCEPT !.exec = FALSE]>>,
     <<Manifest, Code, InPlugin(<<"lib">>, "l")>>, <<Manifest, Code, InPlugin(<<"lib", "Run">>, "u")>>,
     <<Manifest, [Code EXCEPT !.honest = FALSE]>>, <<Manifest, [Code EXCEPT !.size = 3]>>,
     <<Manifest, FileAt(<<"other", "Readme">>, "r")>>, <<Code, [Readme EXCEPT !.kind = "link"]>>,
     <<Manifest, Code, InPlugin(<<"a">>, "a"), InPlugin(<<"b">>, "b")>>,
     <<Manifest, Code, InPlugin(<<"b", "b">>, "b")>>, <<Manifest, InPlugin(<<"a", "a", "a">>, "a")>>,
     <<FileAt(<<"smabar.json">>, "m"), FileAt(<<"main">>, "p")>>,
     <<FileAt(<<"smabar.json">>, "m"), FileAt(<<"Smabar.json">>, "u")>>,
     <<FileAt(<<"d", "smabar.json">>, "m"), FileAt(<<"d", "..">>, "p")>>}
Lowered ==
    [n \in {"repo", "plugin", "smabar.json", "lib", "Lib", "run", "Run", "Readme", "a", "b", "d",
            "main", "..", "other", "Smabar.json"} |->
        CASE n = "Lib" -> "lib" [] n = "Run" -> "run" [] n = "Smabar.json" -> "smabar.json"
          [] OTHER -> n]
\* Folders whose names differ in case.
CaseTree   == GoodTree \cup {[at |-> <<"Lib", "a">>, body |-> "a", exec |-> FALSE]}
CaseServed == {<<Manifest, Code, InPlugin(<<"Lib", "a">>, "a")>>}
GB(start, redirect, fail, clean, crash) ==
    [start |-> start, redirect |-> redirect, fail |-> fail, clean |-> clean, crash |-> crash]
FetchMixes == {GB(1,3,0,0,0), GB(2,0,1,1,0), GB(2,0,0,0,1)}

\* Updates of the app around the user's edits, removals, failures and crashes.
EB(upgrade, edit, remove, back, fail, crash, pending) ==
    [upgrade |-> upgrade, edit |-> edit, remove |-> remove, back |-> back, fail |-> fail,
     crash |-> crash, pending |-> pending]
SeedMixes ==
    {EB(2,1,0,0,1,0,0), EB(0,1,1,1,1,0,0), EB(1,1,1,0,0,1,0), EB(1,0,0,0,0,0,1)}

\* Pages that ask for a family around a new release and one mishap.
FB(ask, rel, fail, crash, delete, damage) ==
    [ask |-> ask, release |-> rel, fail |-> fail, crash |-> crash, delete |-> delete,
     damage |-> damage]
FontMixes   == {FB(3,1,0,1,0,0), FB(3,1,1,0,1,0), FB(3,1,0,1,0,1)}
TwoUprights == [upright |-> {300, 800}, italic |-> {300}]

\* Two versions of the app with other default themes; what users override and write by hand.
TokensOf(text, surface, source, sans) ==
    [k \in LookToken |-> CASE k = "text" -> text [] k = "surface" -> surface
                           [] k = "source" -> source [] OTHER -> sans]
SettingsOf(position, magnify) ==
    [s \in SettingPath |-> IF s = "position" THEN position ELSE magnify]
Shipped(text, surface, magnify) ==
    [n \in BundledTheme |->
        IF n = "default"
        THEN [tokens |-> TokensOf(text, surface, "system", "serif"), settings |-> SettingsOf("a", magnify)]
        ELSE [tokens |-> TokensOf("dark", "light", "system", "sans"), settings |-> SettingsOf("b", "a")]]
TwoVersions ==
    [p \in Peer |-> IF p = "alice" THEN Shipped("light", "dark", "b") ELSE Shipped("dark", "light", "a")]
FontChoices ==
    {[k \in {"source", "sans"} |-> IF k = "source" THEN "google" ELSE "serif"],
     [k \in {"sans"} |-> "sans"]}
TextChoices == {[k \in {"text"} |-> "dark"], [k \in {"text"} |-> "light"]}
ThemeFile(tokens, settings, meta) ==
    [json |-> TRUE, tokens |-> tokens, settings |-> settings, meta |-> meta]
WrittenByHand ==
    {ThemeFile([k \in {"surface", "text"} |-> "dark"], [s \in {"position"} |-> "b"], "named"),
     ThemeFile([k \in {"source"} |-> "google"], Empty, "odd"),
     ThemeFile([k \in {"text"} |-> "bad"], [s \in {"private", "magnify"} |-> "a"], "none"),
     NoFile}
TB(activate, over, set, save, export, import, edit, delete, write) ==
    [activate |-> activate, override |-> over, set |-> set, save |-> save, export |-> export,
     import |-> import, edit |-> edit, delete |-> delete, write |-> write]
LookMixes ==
    {TB(1,1,1,1,0,1,0,0,0), TB(2,0,1,0,1,1,0,0,0), TB(1,0,0,0,1,1,1,0,0), TB(1,0,0,1,0,0,1,1,0),
     TB(1,0,0,0,1,1,0,0,1)}

\* Two plugins that fork, stop and are stopped.
PB(start, fork, stranger, cancel, wait) ==
    [start |-> start, fork |-> fork, stranger |-> stranger, cancel |-> cancel, wait |-> wait]
ProcMixes == {PB(2,1,0,1,1), PB(1,2,1,1,1)}

--------------------------------------------------------------------------------
DiskInit ==
    /\ moves \in DiskMovers
    /\ Init
    /\ moves # "install" => \A p \in Plugin, a \in Actor :
           dir[p] = NoFolder /\ id[a] = CHOOSE q \in Plugin : TRUE
    /\ FetchInit /\ (moves # "fetch" => fetchLeft = CHOOSE b \in FetchBudgets : TRUE)
    /\ SeedInit
    /\ moves # "seed" => /\ seedLeft = CHOOSE b \in SeedBudgets : TRUE
                         /\ bundle = CHOOSE b \in [Bundled -> Edition] : TRUE
    /\ FontInit /\ (moves # "fonts" => fontLeft = CHOOSE b \in FontBudgets : TRUE)
    /\ LookInit /\ (moves # "look" => lookLeft = CHOOSE b \in LookBudgets : TRUE)
    /\ ProcInit /\ (moves # "procs" => procLeft = CHOOSE b \in ProcBudgets : TRUE)

diskMoves == <<moves, vars, fetchVars, seedVars, fontVars, lookVars, procVars>>

DiskNext ==
    /\ UNCHANGED moves
    /\ \/ moves = "install" /\ Next /\ UNCHANGED <<fetchVars, seedVars, fontVars, lookVars, procVars>>
       \/ moves = "fetch" /\ FetchNext /\ UNCHANGED <<vars, seedVars, fontVars, lookVars, procVars>>
       \/ moves = "seed" /\ SeedNext /\ UNCHANGED <<vars, fetchVars, fontVars, lookVars, procVars>>
       \/ moves = "fonts" /\ FontNext /\ UNCHANGED <<vars, fetchVars, seedVars, lookVars, procVars>>
       \/ moves = "look" /\ LookNext /\ UNCHANGED <<vars, fetchVars, seedVars, fontVars, procVars>>
       \/ moves = "procs" /\ ProcNext /\ UNCHANGED <<vars, fetchVars, seedVars, fontVars, lookVars>>

DiskSpec == DiskInit /\ [][DiskNext]_diskMoves

\* Types of the modules.
DiskTypeOK == TypeOK /\ FetchTypeOK /\ SeedTypeOK /\ FontTypeOK /\ LookTypeOK /\ ProcTypeOK
================================================================================
