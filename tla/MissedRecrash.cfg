SPECIFICATION MCSpec
CONSTANTS
  AppThreads = {t1, t2}
  MainThread = t1
  WatchdogThread = w
  HasWatchdog = FALSE
  MachThreads = {}
  NoThread = none
  MaxSimultaneous = 2
  Kinds = {"user"}
  MaxNesting = 2
  MaxRaises = 3
  Users = {t1, t2}
  Apis = {x, y}
  Count = 2
  Removable = {y}
  Unsafe = {x}
  Traced = FALSE
  NULL = NULL
  MaxTime = 2
  MaxLaunches = 2
  MaxSessions = 1
  MaxEvents = 1
  Units = {"dispatcher"}
INVARIANT RecrashDetected
