----------------------------- MODULE MCLiveness -----------------------------
(***************************************************************************)
(* What must happen in the end, under the fairness of the specifications:  *)
(* the cache of thread names comes back, and handlers of exceptions return *)
(* or end the process.  The two share no state, so each behaviour is one   *)
(* of one of them.                                                         *)
(***************************************************************************)
EXTENDS KSThreadCache

CONSTANTS
  t1,     \* the main thread
  w,      \* the watchdog's thread
  none,
  MaxRaises

VARIABLES
  unit,   \* the component whose behaviour this is
  alive, monitorsEnabled, threadsHandlingExceptions, handlingExceptionIndex,
  isHandlingFatalException, crashedDuringExceptionHandling, asyncSafeContextIndex,
  ctx, suspendCount, watchdog, at, index, cursor, expected, local, todo, dropped, raises

handlers ==
  <<alive, monitorsEnabled, threadsHandlingExceptions, handlingExceptionIndex,
    isHandlingFatalException, crashedDuringExceptionHandling, asyncSafeContextIndex,
    ctx, suspendCount, watchdog, at, index, cursor, expected, local, todo, dropped, raises>>

Handlers == INSTANCE KSCrashMonitor WITH
  AppThreads <- {t1}, MainThread <- t1, WatchdogThread <- w, HasWatchdog <- TRUE,
  MachThreads <- {}, NoThread <- none, MaxSimultaneous <- 1,
  Kinds <- {"userAll", "userFatal", "watchdog"}, MaxNesting <- 1, pc <- at

-----------------------------------------------------------------------------
MCInit ==
  /\ Init /\ Handlers!Init
  /\ \/ unit = "cache"
     \/ unit = "handlers" /\ active = NULL

CacheNext    == unit = "cache" /\ Next /\ UNCHANGED <<unit, handlers>>
HandlersNext == unit = "handlers" /\ Handlers!Next /\ UNCHANGED <<unit, vars>>

\* In the behaviours of the other component, the actions that are treated fairly
\* are never enabled: there is no cache to update, and no exception to handle.
MCSpec == MCInit /\ [][CacheNext \/ HandlersNext]_<<unit, vars, handlers>> 
          /\ Fairness /\ Handlers!Fairness

-----------------------------------------------------------------------------
\* Every variable of every component has its type.
UnitsTypeOK == TypeOK /\ Handlers!TypeOK

\* No handler is stuck: what notifyException() has begun ends with the
\* monitor's handler returning or with the process ending, though handlers
\* suspend one another's threads and wait for one another; and a fatal
\* exception takes the process down, although other handlers suspend its thread
\* or are blocked, and a watchdog thread is waited for.
HandlersEnd == Handlers!EveryHandlerReturns /\ Handlers!FatalTerminates
=============================================================================
