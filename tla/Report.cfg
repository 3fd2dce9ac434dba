SPECIFICATION MCSpec
CONSTANTS
  ReportsHangs = FALSE
  MaxHangs = 3
  t1 = t1
  t2 = t2
  c1 = c1
  c2 = c2
  x = x
  y = y
  z = z
  Threads = {t1, t2}
  MaxReports = 4
  Callers = {c1, c2}
  Images = {x, y, z}
  Addresses = {4, 5}
  Segments <- ImageSegments
  Symbols <- ImageSymbols
  Unlinked = {z}
  MaxSegments = 2
  MaxImages = 2
  MaxSymbols = 1
  MaxHits = 1
  MaxStopped = 1
INVARIANTS UnitsTypeOK TerminationIsReported ReportsKept LinkerCachesSound
PROPERTY LinkerImplements
SYMMETRY CallerSymmetry
