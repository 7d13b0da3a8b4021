SPECIFICATION DeskSpec
CONSTANTS
 Spot = {1, 2}
 MaxRetry = 4
 ClickBudgets <- ClickMixes
 Dock = {1, 2}
 AppBarBudgets <- AppBarMixes
 Release = {1, 2}
 Content = {1, 2}
 ShelfBudgets <- ShelfMixes
 Call = {1, 2}
 Cap = 2
 ReadLimit = 2
 Malformed = {1, 2}
 MaxDiagnostics = 1
 ReloadBudgets <- ReloadMixes
 Worker = {w1, w2}
 Request = {r1, r2}
 Attempts = 2
 SettingsBudgets <- SettingsMixes
 System = {"windows", "macos", "linux"}
 Terms = {1, 2}
 ShellBudgets <- ShellMixes
 MacWindow = {w1}
 ScreenSize = 4
 Least = 4
 Placed <- UserFrames
 MacBudgets <- MacMixes
 Thickness = {3, 4}
 NoteDistance = 1
 LayerBudgets <- LayerMixes
 DeskMovers = {"clicks", "appbar", "shelf", "reload", "settings", "shell", "mac", "layer"}
CHECK_DEADLOCK FALSE
INVARIANTS StripIsWanted OfferedIsAccepted NoOutcomeMissed StageSurvivesPicture   EverythingSitsRight LossIsNoticed
