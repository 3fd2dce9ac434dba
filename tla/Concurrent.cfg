SPECIFICATION MCSpec
CONSTANTS
  AppThreads = {t1, t2, t3}
  MainThread = t1
  WatchdogThread = w
  HasWatchdog = FALSE
  MachThreads = {}
  NoThread = none
  MaxSimultaneous = 2
  Kinds = {"user", "userAll"}
  MaxNesting = 1
  MaxRaises = 3
  Users = {u1, u2}
  Apis = {x, y}
  Count = 3
  Removable = {y}
  Unsafe = {x}
  Traced = FALSE
  NULL = NULL
  MaxTime = 2
  MaxLaunches = 2
  MaxSessions = 1
  MaxEvents = 1
  Units = {"dispatcher", "registry", "app state"}
SYMMETRY Symmetry
INVARIANTS UnitsTypeOK QuiescentIndexReset SuspensionsSound RegistrySound CountsExact CrashKnown
PROPERTY RegistryKept
