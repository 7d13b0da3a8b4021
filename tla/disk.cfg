SPECIFICATION DiskSpec
CONSTANTS
 p1 = p1
 p2 = p2
 s1 = s1
 s2 = s2
 l1 = l1
 Plugin = {p1}
 StoreVersion = {s1, s2}
 LocalVersion = {l1}
 NoVersion = NoVersion
 Overlap = FALSE
 EditsInside = FALSE
 MaxInstalls = 2
 MaxCrashes = 2
 MaxFaults = 1
 MaxEdits = 1
 Archives <- Served
 Listed <- GoodTree
 RepoRoot = "repo"
 PluginPath <- PathOfPlugin
 Lower <- Lowered
 FoldsCase = TRUE
 UnsafeName = {".."}
 ContentHost = {"github"}
 OtherHost = {"mirror"}
 RedirectLimit = 3
 MaxBytes = 3
 MaxFiles = 2
 MaxDirectories = 1
 MaxDepth = 2
 MaxFileBytes = 2
 MaxTotalBytes = 3
 FetchBudgets <- FetchMixes
 Bundled = {"notes", "clock"}
 Edition = {"v1", "v2"}
 UserCode = {"mine"}
 SeedBudgets <- SeedMixes
 Asker = {"bar", "settings"}
 Weights <- TwoUprights
 MaxFontFiles = 3
 FontBudgets <- FontMixes
 Peer = {"alice", "bob"}
 Bundles <- TwoVersions
 LocalTheme = {"mine", "other"}
 Overrides <- FontChoices
 SettingValue = {"a", "b"}
 Handmade <- WrittenByHand
 LookBudgets <- LookMixes
 Keeper = {"k1", "k2"}
 Pid = {1, 2, 3, 4}
 HasGroups = TRUE
 ProcBudgets <- ProcMixes
 DiskMovers = {"install", "fetch", "seed", "fonts", "look", "procs"}
CHECK_DEADLOCK FALSE
INVARIANTS ProofIsOfTheDisk UsersWordStands HandedFontsAreWhole SharedLooksTheSame NothingOutlivesTheRun
PROPERTIES ImplementsPluginStore
