SPECIFICATION MCSpec
CONSTANTS
  Units = {"store", "json", "buffers", "dirs", "standard", "contents"}
  Memories <- MemoriesHere
  Sources <- SourcesHere
  Setters = {"s1", "s2"}
  Others = {"o"}
  MaxCaptured = 2
  Listings <- ListingsHere
  Monitors = {"Signal"}
  MaxStrings = 1
  Restricted = {"Secret"}
  Limit = 6
  MaxIvars = 4
  MaxReportCount = 2
  MaxReports = 3
  MaxSecs = 2
  ClockBack = FALSE
  SameSecond = FALSE
  Policy = "onSuccess"
INVARIANTS UnitsTypeOK NoReportLost ReportWellFormed FileUtilsExact SectionsKept MemoryBounded
PROPERTIES StoreKeepsReports NothingElseDeleted
