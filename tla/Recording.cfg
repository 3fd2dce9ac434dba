SPECIFICATION MCSpec
CONSTANTS
  AppThreads = {app}
  MainThread = app
  WatchdogThread = w
  HasWatchdog = FALSE
  MachThreads = {m1, m2}
  NoThread = none
  MaxSimultaneous = 3
  Kinds = {"signal", "mach", "user", "userAll", "userFatal"}
  MaxNesting = 3
  MaxRaises = 3
  Installer = main
  Others = {t}
  Count = 2
  Ignored = {1}
  MaxSignals = 3
  Images = {a, b}
  AtStart = {a}
  Const = {b}
  Throwers = {t}
  MaxOriginals = 1
  MaxCalls = 3
  NoImage = NoImage
  Faulters = {3, 4}
  NoOne = NoOne
  CppThreads = {c1, c2}
  Exceptions = {d, e}
  NSChoices = {{}, {e}}
  Nothing = Nothing
  Deallocators = {d1, d2}
  Addresses = {p, q}
  hashIndex <- hash
  MaxObjects = 3
  Nobody = Nobody
SYMMETRY Symmetry
INVARIANTS UnitsTypeOK RecrashDetected CrashLoopStops SwapSound MachSound SignalsRestored TraceExact ZombieExact
