SPECIFICATION MCSpec
CONSTANTS
  Units = {"json"}
  Memories <- MemoriesHere
  Sources <- SourcesHere
  Setters = {"s1", "s2"}
  Others = {"o"}
  MaxCaptured = 2
  Listings <- ListingsHere
  Monitors = {"Signal"}
  MaxStrings = 1
  Restricted = {"Secret"}
  Limit = 6
  MaxIvars = 4
  MaxReportCount = 2
  MaxReports = 3
  MaxSecs = 3
  ClockBack = FALSE
  SameSecond = FALSE
  Policy = "onSuccess"
INVARIANT OnlyFromFile
