SPECIFICATION MCSpec
CONSTANTS
  Units = {"reader", "dwarf", "compact", "cursor", "objc", "strings", "memory", "text", "header", "json", "usage"}
  NoValue = NoValue
  MaxSessions = 2
  MaxFootprint = 2
  Critical = 1
  MinChange = 1
  UIApplication = TRUE
  ExitAnywhere = TRUE
INVARIANTS UnitsTypeOK CFIExact ImageExact BacktraceExact ObjectsExact TextExact 
