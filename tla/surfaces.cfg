SPECIFICATION SurfacesSpec
CONSTANTS
 Size = {1}
 Budgets <- CommandsFocusClear
 Session = {s1}
 PopupKey = {k1, k2}
 Legacy = {l1}
 MaxPopups = 1
 PopupBudgets <- ShowsEndsStops
 Monitor = {1, 2}
 BarBudgets <- EdgesMonitorsMotion
 Layouts <- Arrangements
 Here = 1
 BarSizes <- Bars
 Contents <- Measured2
 Insets = {0, 2}
 Gaps = {1}
 Reserves = {0, 1}
 Visible = {1, 2}
 FrameBudgets <- DocksAndRetracts
 Parts = {"overlay", "popups", "bar", "frames"}
CHECK_DEADLOCK FALSE
INVARIANTS RevealIsFresh EndsAreTold BarHoldsItsPlace WindowsFit StripIsTheBars
