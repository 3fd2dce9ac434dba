SPECIFICATION MCSpec
CONSTANTS
  Units = {"cursor"}
  NoValue = NoValue
  MaxSessions = 2
  MaxFootprint = 2
  Critical = 1
  MinChange = 1
  UIApplication = TRUE
  ExitAnywhere = TRUE
INVARIANT BacktraceAccurate
