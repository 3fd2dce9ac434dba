SPECIFICATION StateSpec
CONSTANTS
  MaxTime = 2
  MaxLaunches = 2
  MaxSessions = 1
  MaxEvents = 1
INVARIANT NoFalseCrash
